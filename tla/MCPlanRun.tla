----------------------------- MODULE MCPlanRun -----------------------------
(***************************************************************************)
(* A snapshot with a column of every type, most with a missing value, with *)
(* both zeros, the smallest integer and the largest decimal; the same      *)
(* columns without rows; and a catalog entry with a name twice.            *)
(***************************************************************************)
EXTENDS PlanRun, TLC

CONSTANTS none

MCMagnitudes == <<0, 1, 2, 3, 4, 8, 16, 32>>   \* 0 .5 1 1.5 2 4 8, infinite
MCFirstDays == "month" :> {-5, -2, 1, 3} @@ "year" :> {-5, 1}

F(name, ty, nullable) == [name |-> name, ty |-> ty, nullable |-> nullable]

MCSchema ==
    <<F("i", "I64", TRUE), F("j", "I64", FALSE), F("f", "F64", TRUE),
      F("g", "F64", FALSE), F("b", "Bool", TRUE), F("t", "Timestamp", TRUE),
      F("s", "DictUtf8", TRUE), F("z", "Geo", TRUE)>>

MCCatalog == "calls" :> MCSchema @@ "empty" :> MCSchema
             @@ "twice" :> <<F("i", "I64", TRUE), F("i", "F64", TRUE)>>

\* Cells of columns i j f g b t s z.  Decimal words: 8 is -0.0, 14 is -8.0.
MCCells ==
    << <<-8, none, 7, 3>>, <<2, 0, -8, 2>>, <<8, 0, none, 6>>, <<14, 1, 5, 6>>,
       <<1, none, 0, 1>>, <<-8, 3, none, 6>>, <<1, 0, none, 1>>,
       << <<4, 11>>, none, <<0, 3>>, <<4, 11>> >> >>

Dictionary(ty) == IF ty = "DictUtf8" THEN <<10, 20, 30>> ELSE << >>

Stored(rows) ==
    [k \in DOMAIN MCSchema |->
        NewColumn(MCSchema[k].name, MCSchema[k].ty,
                  [i \in rows |-> MCCells[k][i + 1]], Dictionary(MCSchema[k].ty))]

MCSnapshots == "calls" :> Stored(0 .. 3) @@ "empty" :> Stored({})

----------------------------------------------------------------------------
Column(name) == [x |-> "column", name |-> name]
Literal(ty, v) == [x |-> "literal", lit |-> [ty |-> ty, v |-> v]]
Pair(x, op, a, b) == [x |-> x, op |-> op, a |-> a, b |-> b]
Compare(op, a, b) == Pair("compare", op, a, b)
Unary(x, a) == [x |-> x, a |-> a]
Args(x, args) == [x |-> x, args |-> args]
In(a, values) == [x |-> "in", a |-> a, values |-> values]
Trunc(unit, a) == [x |-> "date_trunc", unit |-> unit, a |-> a]

Values(ty, vs) == [k \in DOMAIN vs |-> [ty |-> ty, v |-> vs[k]]]

Bare == [x |-> "literal", lit |-> [ty |-> "Null"]]

Names == {"i", "j", "f", "g", "b", "t", "s", "z"}

\* 7 and 8.0, the largest of both; an infinite decimal; a text between the
\* others and one of them.
Atoms ==
    {Column(n) : n \in Names}
        \cup {Bare, Literal("I64", 7), Literal("F64", 6), Literal("F64", 9),
              Literal("F64", 7), Literal("Bool", 1), Literal("Timestamp", 3), Literal("DictUtf8", 15),
              Literal("DictUtf8", 20)}

Comparisons == {Compare(op, a, b) : op \in {"eq", "ne", "lt", "le", "gt", "ge"},
                                    a, b \in Atoms}

Operands ==
    {Column(n) : n \in {"i", "j", "f", "g", "t"}}
        \cup {Literal("I64", 7), Literal("F64", 6), Literal("Timestamp", 3), Bare}

Arithmetic == {Pair("arith", op, a, b) : op \in {"add", "sub", "mul", "div"},
                                         a, b \in Operands}

Truncations == {Trunc(u, a) : u \in {"day", "week", "month", "year"}, a \in Atoms}

Lists == {Values("I64", <<3, 7>>), Values("F64", <<6, 1>>),
          Values("DictUtf8", <<15, 20>>), Values("Bool", <<1>>), << >>}

Each == {Unary(x, a) : x \in {"not", "is_null", "lat", "lon"}, a \in Atoms}

\* Conditions put together: parts that are missing, that decide, that can be
\* found directly and that cannot, and that do not fit in an integer.
Parts ==
    {Unary("is_null", Column("i")), Unary("not", Unary("is_null", Column("s"))),
     Compare("lt", Literal("I64", 2), Column("i")),
     Compare("ge", Column("s"), Literal("DictUtf8", 15)),
     Compare("le", Column("f"), Column("g")), Column("b"),
     Compare("gt", Pair("arith", "add", Column("j"), Literal("I64", 5)),
             Literal("I64", 7)),
     Compare("eq", Pair("arith", "mul", Column("f"), Column("i")), Column("g"))}

Compound ==
    {Args(x, <<a, b>>) : x \in {"and", "or"}, a, b \in Parts}
        \cup {Unary("not", p) : p \in Parts}
        \cup {Args("and", <<Args("or", <<p, Column("b")>>), p>>) : p \in Parts}
        \cup {Args("and", << >>), Args("or", <<Bare>>)}

Membership == {In(a, l) : a \in Atoms, l \in Lists}

\* The column that a step before has added.
Later ==
    {Compare("ge", Column("x"), a) : a \in Atoms}
        \cup {Compare("lt", a, Column("x")) : a \in Atoms}
        \cup {Compare("le", Column("f"), Column("g")), Unary("is_null", Column("x")),
              Compare("lt", Literal("DictUtf8", 15), Column("s")),
              In(Column("x"), Values("F64", <<6, 1>>))}

MCConditions(n) ==
    IF n = 1 THEN Comparisons \cup Compound \cup Membership ELSE Later

----------------------------------------------------------------------------
Scan(s) == [op |-> "scan", snapshot |-> s]
Filter(n, e) == [op |-> "filter", input |-> n, predicate |-> e]
Map(n, e) == [op |-> "map", input |-> n, name |-> "x", expr |-> e]
Project(n, names) == [op |-> "project", input |-> n, columns |-> names]
Limit(n, c) == [op |-> "limit", input |-> n, count |-> c]
Key(name, descending) == [column |-> name, descending |-> descending]
Sort(n, keys) == [op |-> "sort", input |-> n, keys |-> keys]
Agg(name, f, column) == [name |-> name, func |-> f, column |-> column, p |-> 50]
Aggregate(n, by, aggs) ==
    [op |-> "aggregate", input |-> n, group_by |-> by, aggregates |-> aggs]

Functions == {"count", "count_non_null", "sum", "mean", "median", "min", "max",
              "percentile"}

Summaries(n) ==
    {Aggregate(n, by, <<Agg("x", f, c)>>) :
        by \in {<< >>, <<"b">>, <<"f", "s">>, <<"z">>}, f \in Functions,
        c \in Names \cup {"x", NoColumn}}
    \cup {Aggregate(n, <<"b">>, <<Agg("b", "count", NoColumn)>>),
          Aggregate(n, <<"s", "j">>, << >>), Aggregate(n, << >>, << >>)}

FewSummaries(n) ==
    {Aggregate(n, by, <<Agg("x", f, c)>>) :
        by \in {<< >>, <<"s">>}, f \in {"sum", "median", "max"}, c \in {"f", "x"}}

Orders(n) ==
    {Sort(n, <<Key(c, TRUE)>>) : c \in Names}
        \cup {Sort(n, <<Key("b", FALSE), Key("x", TRUE)>>), Sort(n, << >>)}

Maps(n) ==
    {Map(n, e) : e \in Arithmetic \cup Truncations \cup Each \cup Membership
                        \cup Atoms}

\* New columns that later steps read: with values that a division leaves
\* missing, or that do not add up to an integer or a decimal.
Read ==
    {Map(0, Pair("arith", op, Column("g"), Column("f"))) : op \in {"div", "add"}}
        \cup {Map(0, Pair("arith", "sub", Column("t"), Column("i"))),
              Map(0, Pair("arith", "add", Column("j"), Literal("I64", 5)))}
        \cup {Map(0, Literal("DictUtf8", 15)), Map(0, Literal("F64", 6))}

\* First a scan; after it anything; after that what reads a column x, or does
\* not follow the step before.
MCSteps(n, last) ==
    IF n = 0 THEN {Scan("calls"), Scan("empty"), Scan("twice"), Limit(0, 1)}
    ELSE IF last \in {Scan("calls"), Scan("empty")}
    THEN Maps(0) \cup Summaries(0) \cup Orders(0)
         \cup {Filter(0, e) : e \in Parts \cup {Column("i"), Unary("is_null", Column("b"))}}
         \cup {Project(0, <<"s", "i">>), Project(0, <<"s", "s">>), Project(0, <<"q">>),
               Limit(0, 2), Limit(1, 2)}
    ELSE CASE last \in Read ->
                Summaries(n - 1) \cup Orders(n - 1)
                    \cup {Filter(n - 1, e) : e \in Later} \cup {Map(n - 1, Bare)}
           [] last = Filter(0, Unary("is_null", Column("b"))) -> FewSummaries(n - 1)
           [] last = Limit(0, 2) -> {Limit(0, 1), Limit(1, 1), Scan("calls")}
           [] OTHER -> {}

AllOps ==
    UNION {MCSteps(n, last) : n \in 0 .. 2,
                              last \in {none, Scan("calls"), Limit(0, 2),
                                        Filter(0, Unary("is_null", Column("b")))}
                                           \cup Read}

ExprsOf(op) ==
    CASE op.op = "filter" -> {op.predicate} [] op.op = "map" -> {op.expr} [] OTHER -> {}

\* The expressions of those and of the conditions, and what they are made of.
Written == UNION {MCConditions(1), MCConditions(2), UNION {ExprsOf(op) : op \in AllOps}}

AllExprs ==
    LET Below(exprs) == UNION {Inner(e) : e \in exprs}
    IN  UNION {Written, Below(Written), Below(Below(Written)), Parts,
               Below(Parts), Below(Below(Parts))}

AllDepths ==
    LET depth[e \in AllExprs] ==
            IF Inner(e) = {} THEN 0
            ELSE LET below == {depth[a] : a \in Inner(e)}
                 IN  1 + CHOOSE d \in below : \A c \in below : c <= d
    IN  depth

\* TLC keeps the value of a definition, not of one that a constant is given.
MCOps == AllOps
MCExprs == AllExprs
MCDepth == AllDepths
=============================================================================
