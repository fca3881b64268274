------------------------------ MODULE Evaluate ------------------------------
(***************************************************************************)
(* Evaluating an expression over a table, column by column, and the two    *)
(* ways to select a filter's rows (receipts-exec/src/eval.rs).             *)
(*                                                                         *)
(* A table has a schema, columns and a length.  A column has a name, a     *)
(* type, a value or Missing per row and, for text, a sorted dictionary its *)
(* values are codes of; a text literal is one of the strings themselves.   *)
(* Integers are small (Half stands for 2^63) and so are decimals: magnitude *)
(* m is worth Magnitudes[m + 1] halves, and results are rounded to one.    *)
(***************************************************************************)
EXTENDS PlanTypes

CONSTANTS
    Magnitudes,   \* twice the value of every magnitude, Infinity's included
    DayLength,    \* microseconds in a day
    FirstDays     \* FirstDays[u]: the days a month or a year begins on

\* 2^63 is a decimal, and so is half of the largest one.
ASSUME MagnitudesAssumption ==
    /\ Magnitudes \in Seq(Nat) /\ Len(Magnitudes) = Infinity + 1
    /\ Magnitudes[1] = 0
    /\ \A m, k \in 1 .. Infinity + 1 : m < k => Magnitudes[m] < Magnitudes[k]
    /\ 2 * Half \in {Magnitudes[m] : m \in 1 .. Infinity}
    /\ Magnitudes[Infinity] \in {2 * Magnitudes[m] : m \in 1 .. Infinity}

\* A literal that can be used; text is any string.
IsLiteral(lit) ==
    \/ lit.ty = "Null"
    \/ /\ lit.ty \in SortableTypes
       /\ lit.v \in IF lit.ty = "DictUtf8" THEN Int ELSE CellValues(lit.ty)

\* A decimal of an expression may be none of the finite ones, which its type
\* refuses.  Those of a list are read from JSON, which has no other.
ASSUME LiteralAssumption ==
    \A e \in Exprs :
        /\ e.x = "literal" =>
              IsLiteral(e.lit) \/ (e.lit.ty = "F64" /\ e.lit.v \in U64)
        /\ e.x = "in" => \A k \in DOMAIN e.values : IsLiteral(e.values[k])

\* Every time is in a month and in a year.
ASSUME CalendarAssumption ==
    /\ DayLength \in Nat \ {0}
    /\ \A unit \in {"month", "year"} :
          /\ FirstDays[unit] \subseteq Int
          /\ \A t \in I64 : \E d \in FirstDays[unit] : d <= t \div DayLength

RowsOf(t) == 0 .. t.len - 1

ColumnOf(t, name) == t.columns[IndexOf(t.schema, name)]

HasColumn(t, name) == name \in FieldNames(t.schema)

----------------------------------------------------------------------------
(* Numbers.                                                                *)

OrderOf(x, y) == IF x < y THEN -1 ELSE IF x = y THEN 0 ELSE 1

\* CmpOp::holds.
OpHolds(op, ord) ==
    CASE op = "eq" -> ord = 0
      [] op = "ne" -> ord # 0
      [] op = "lt" -> ord = -1
      [] op = "le" -> ord # 1
      [] op = "gt" -> ord = 1
      [] op = "ge" -> ord # -1

\* Twice the value of a finite decimal.
Halves(bits) ==
    IF bits < Half THEN Magnitudes[bits + 1] ELSE - Magnitudes[bits - Half + 1]

Magnitude(n) == IF n < 0 THEN - n ELSE n

\* The decimal nearest to n/d halves; a tie goes to the even magnitude.
Rounded(n, d) ==
    LET gap(m) == Magnitude(Magnitude(n) - d * Magnitudes[m + 1])
        near == {m \in 0 .. Infinity : \A k \in 0 .. Infinity : gap(m) <= gap(k)}
        m == IF Cardinality(near) = 1 THEN CHOOSE k \in near : TRUE
             ELSE CHOOSE k \in near : k % 2 = 0
    IN  IF n < 0 /\ m > 0 THEN Half + m ELSE m

\* A result that is not finite is missing.
IfFinite(bits) == IF bits \in Finite THEN bits ELSE Missing

DecimalOp(op, x, y) ==
    CASE op = "add" -> IfFinite(Rounded(x + y, 1))
      [] op = "sub" -> IfFinite(Rounded(x - y, 1))
      [] op = "mul" -> IfFinite(Rounded(x * y, 2))
      [] op = "div" ->
            IF y = 0 THEN Missing
            ELSE IfFinite(Rounded(IF y < 0 THEN -2 * x ELSE 2 * x, Magnitude(y)))

IntegerOp(op, x, y) ==
    CASE op = "add" -> x + y [] op = "sub" -> x - y [] op = "mul" -> x * y

\* An integer as f64, in halves: rounded.
AsF64(ty, v) == IF ty = "I64" THEN Halves(Rounded(2 * v, 1)) ELSE Halves(v)

\* cmp_i64_f64: exact, by the decimal's integer part and then the rest.
IntegerToDecimal(x, bits) ==
    LET y == Halves(bits)
        whole == IF y < 0 THEN - ((- y) \div 2) ELSE y \div 2
    IN  IF y >= 2 * Half THEN -1
        ELSE IF y < -2 * Half THEN 1
        ELSE IF x # whole THEN OrderOf(x, whole)
        ELSE OrderOf(0, y - 2 * whole)

CompareNumbers(tx, x, ty, y) ==
    CASE tx = "I64" /\ ty = "I64" -> OrderOf(x, y)
      [] tx = "F64" /\ ty = "F64" -> OrderOf(Signed(x), Signed(y))
      [] tx = "I64" /\ ty = "F64" -> IntegerToDecimal(x, y)
      [] tx = "F64" /\ ty = "I64" -> - IntegerToDecimal(y, x)

Wrapped(v) == ((v + Half) % (2 * Half)) - Half

\* trunc: the start of the day, week, month or year of t.  Multiplying the
\* day out again wraps at the far end of the range.
Truncated(unit, t) ==
    LET days == t \div DayLength
        start == CASE unit = "day" -> days
                   [] unit = "week" -> days - ((days + 3) % 7)
                   [] OTHER -> CHOOSE d \in FirstDays[unit] :
                                  /\ d <= days
                                  /\ \A e \in FirstDays[unit] : e <= days => e <= d
    IN  Wrapped(start * DayLength)

----------------------------------------------------------------------------
(* Datums: a column, or a constant.  What would stop the evaluation is one *)
(* too: an integer overflow, or an expect or unreachable of the code.      *)

NewColumn(name, ty, cells, dictionary) ==
    [name |-> name, ty |-> ty, cells |-> cells, dictionary |-> dictionary]

Col(t, ty, Cell(_)) ==
    [d |-> "col", col |-> NewColumn("", ty, [i \in RowsOf(t) |-> Cell(i)], << >>)]

Scalar(lit) == [d |-> "scalar", lit |-> lit]
Overflow == [d |-> "overflow"]
Panic == [d |-> "panic"]

Stops(datum) == datum.d \in {"overflow", "panic"}

TypeOfDatum(datum) == IF datum.d = "col" THEN datum.col.ty ELSE datum.lit.ty

\* get_i64, get_num, get_bool and get_str; the text of a column is looked up.
Get(datum, i) ==
    IF datum.d = "scalar"
    THEN IF datum.lit.ty = "Null" THEN Missing ELSE datum.lit.v
    ELSE IF datum.col.ty = "DictUtf8" /\ datum.col.cells[i] # Missing
    THEN datum.col.dictionary[datum.col.cells[i] + 1]
    ELSE datum.col.cells[i]

\* The types that the getter of a comparison of ta with tb takes.
GetterTypes(ta, tb) ==
    CASE ta = "DictUtf8" /\ tb = "DictUtf8" -> {"DictUtf8"}
      [] ta = tb /\ ta \in {"Timestamp", "I64"} -> {"I64", "Timestamp"}
      [] ta = "Bool" /\ tb = "Bool" -> {"Bool", "Null"}
      [] OTHER -> {"I64", "F64"}

OfTruth(b) == IF b THEN 1 ELSE 0

\* partition_point: how many strings of the dictionary come before s.
PositionOf(dictionary, s) == Cardinality({k \in DOMAIN dictionary : dictionary[k] < s})

\* dict_vs_str: a code against a string, by the string's insertion point.
CodeToText(dictionary, code, s) ==
    LET pos == PositionOf(dictionary, s)
        found == pos < Len(dictionary) /\ dictionary[pos + 1] = s
    IN  IF code < pos THEN -1 ELSE IF code = pos /\ found THEN 0 ELSE 1

\* Row i of a against row i of b; Missing if one of them is.
OrderAt(a, ta, b, tb, i) ==
    LET x == Get(a, i)
        y == Get(b, i)
    IN  IF x = Missing \/ y = Missing THEN Missing
        ELSE CASE ta = "DictUtf8" /\ a.d = "col" /\ b.d = "scalar" ->
                    CodeToText(a.col.dictionary, a.col.cells[i], y)
               [] ta = "DictUtf8" /\ a.d = "scalar" /\ b.d = "col" ->
                    - CodeToText(b.col.dictionary, b.col.cells[i], x)
               [] ta # "DictUtf8" /\ "F64" \in {ta, tb} ->
                    CompareNumbers(TypeOfDatum(a), x, TypeOfDatum(b), y)
               [] OTHER -> OrderOf(x, y)

CompareDatums(t, op, a, ta, b, tb) ==
    IF {TypeOfDatum(a), TypeOfDatum(b)} \subseteq GetterTypes(ta, tb)
    THEN Col(t, "Bool", LAMBDA i :
            LET ord == OrderAt(a, ta, b, tb, i)
            IN  IF ord = Missing THEN Missing ELSE OfTruth(OpHolds(op, ord)))
    ELSE Panic

\* arith: decimals are missing where they have no value, integers and
\* timestamps fit or stop the evaluation.
ArithDatums(t, op, a, ta, b, tb) ==
    LET out == ArithType(op, ta, tb)
        types == IF out = "F64" THEN {"I64", "F64"} ELSE {"I64", "Timestamp"}
        Value(i) ==
            LET x == Get(a, i)
                y == Get(b, i)
            IN  IF x = Missing \/ y = Missing THEN Missing
                ELSE IF out = "F64"
                THEN DecimalOp(op, AsF64(TypeOfDatum(a), x), AsF64(TypeOfDatum(b), y))
                ELSE IntegerOp(op, x, y)
    IN  IF out = "None" \/ ~ ({TypeOfDatum(a), TypeOfDatum(b)} \subseteq types) THEN Panic
        ELSE IF out # "F64" /\ \E i \in RowsOf(t) : Value(i) # Missing /\ Value(i) \notin I64
        THEN Overflow
        ELSE Col(t, out, Value)

\* The value that decides wins over missing, missing wins over the other.
Kleene(values, deciding) ==
    IF deciding \in values THEN deciding
    ELSE IF Missing \in values THEN Missing
    ELSE 1 - deciding

Booleans(datum) == TypeOfDatum(datum) \in {"Bool", "Null"}

----------------------------------------------------------------------------
(* Expressions.                                                            *)

\* and, or: every argument is evaluated, whatever the others say.
EvalLogic(t, datums, deciding) ==
    LET stops == {k \in DOMAIN datums : Stops(datums[k])}
    IN  IF stops # {} THEN datums[CHOOSE k \in stops : \A j \in stops : k <= j]
        ELSE IF \E k \in DOMAIN datums : ~ Booleans(datums[k]) THEN Panic
        ELSE Col(t, "Bool", LAMBDA i :
                    Kleene({Get(datums[k], i) : k \in DOMAIN datums}, deciding))

\* in, of an operand of type ta: one lookup per dictionary entry for a text
\* column, otherwise an `or` of equalities.
EvalListed(t, e, ta, d) ==
    LET listed == {e.values[k].v : k \in DOMAIN e.values}
        parts == [k \in DOMAIN e.values |->
                    CompareDatums(t, "eq", d, ta.ty, Scalar(e.values[k]),
                                  e.values[k].ty)]
    IN  IF Stops(d) THEN d
        ELSE IF d.d = "col" /\ d.col.ty = "DictUtf8"
        THEN Col(t, "Bool", LAMBDA i :
                    IF d.col.cells[i] = Missing THEN Missing
                    ELSE OfTruth(d.col.dictionary[d.col.cells[i] + 1] \in listed))
        ELSE IF ~ ta.ok \/ \E k \in DOMAIN parts : Stops(parts[k]) THEN Panic
        ELSE Col(t, "Bool", LAMBDA i :
                    Kleene({Get(parts[k], i) : k \in DOMAIN parts}, 1))

EvalIn(t, e, d) == EvalListed(t, e, Typed(e.a, t.schema), d)

\* compare and arith: both operands are typed again, then evaluated.
Combined(t, op, ta, a, tb, b, Combine(_, _, _, _, _, _)) ==
    IF ~ ta.ok \/ ~ tb.ok THEN Panic
    ELSE IF Stops(a) THEN a
    ELSE IF Stops(b) THEN b
    ELSE Combine(t, op, a, ta.ty, b, tb.ty)

EvalPair(t, e, a, b, Combine(_, _, _, _, _, _)) ==
    Combined(t, e.op, Typed(e.a, t.schema), a, Typed(e.b, t.schema), b, Combine)

\* F of every value of an operand, if its type is one of `types`.
EvalEach(t, d, types, out, F(_)) ==
    IF Stops(d) THEN d
    ELSE IF TypeOfDatum(d) \notin types THEN Panic
    ELSE Col(t, out, LAMBDA i :
                IF Get(d, i) = Missing THEN Missing ELSE F(Get(d, i)))

EvalIsNull(t, d) ==
    CASE Stops(d) -> d
      [] d.d = "scalar" -> Scalar([ty |-> "Bool", v |-> OfTruth(d.lit.ty = "Null")])
      [] OTHER -> Col(t, "Bool", LAMBDA i : OfTruth(d.col.cells[i] = Missing))

\* The value of an expression, given the values of those it is made of.
EvalStep(e, t, datum) ==
    CASE e.x = "column" ->
            IF HasColumn(t, e.name) THEN [d |-> "col", col |-> ColumnOf(t, e.name)]
            ELSE Panic
      [] e.x = "literal" -> Scalar(e.lit)
      [] e.x = "compare" -> EvalPair(t, e, datum[e.a], datum[e.b], CompareDatums)
      [] e.x = "arith" -> EvalPair(t, e, datum[e.a], datum[e.b], ArithDatums)
      [] e.x \in {"and", "or"} ->
            EvalLogic(t, [k \in DOMAIN e.args |-> datum[e.args[k]]],
                      OfTruth(e.x = "or"))
      [] e.x = "not" ->
            EvalEach(t, datum[e.a], {"Bool", "Null"}, "Bool", LAMBDA v : 1 - v)
      [] e.x = "is_null" -> EvalIsNull(t, datum[e.a])
      [] e.x = "in" -> EvalIn(t, e, datum[e.a])
      [] e.x = "date_trunc" ->
            EvalEach(t, datum[e.a], {"I64", "Timestamp"}, "Timestamp",
                     LAMBDA v : Truncated(e.unit, v))
      [] e.x = "lat" -> EvalEach(t, datum[e.a], {"Geo"}, "F64", LAMBDA v : v[1])
      [] e.x = "lon" -> EvalEach(t, datum[e.a], {"Geo"}, "F64", LAMBDA v : v[2])

DatumsIn(t) ==
    LET datum[e \in Exprs] == EvalStep(e, t, datum)
    IN  datum

Eval(e, t) == DatumsIn(t)[e]

\* materialize: a datum as a named column, a constant repeated; a text
\* constant is a dictionary of its own.  Only of a datum that has a type.
Materialized(t, d, name) ==
    IF d.d = "col" THEN [d.col EXCEPT !.name = name]
    ELSE IF d.lit.ty = "DictUtf8"
    THEN NewColumn(name, "DictUtf8", [i \in RowsOf(t) |-> 0], <<d.lit.v>>)
    ELSE NewColumn(name, d.lit.ty, [i \in RowsOf(t) |-> d.lit.v], << >>)

\* selection: the rows where a predicate is true.
Selection(t, d) == {i \in RowsOf(t) : Get(d, i) = 1}

----------------------------------------------------------------------------
(* The rows of the usual filters, found directly.                          *)

Uncovered == [ok |-> FALSE]

IsColumn(t, e) == e.x = "column" /\ HasColumn(t, e.name)

\* flip.
Flipped(op) ==
    CASE op = "lt" -> "gt" [] op = "le" -> "ge" [] op = "gt" -> "lt"
      [] op = "ge" -> "le" [] OTHER -> op

\* Mutant of ColumnFirst: the sides are swapped, the operator is not.
ColumnFirst_SidesOnly(e) ==
    IF e.a.x = "literal" /\ e.b.x = "column"
    THEN [x |-> "compare", op |-> e.op, a |-> e.b, b |-> e.a]
    ELSE e

\* A literal on the left of a column changes sides with it.
ColumnFirst(e) ==
    IF e.a.x = "literal" /\ e.b.x = "column"
    THEN [x |-> "compare", op |-> Flipped(e.op), a |-> e.b, b |-> e.a]
    ELSE e

\* fast_covers: the pairs of types that are compared directly.
LiteralTypes == {"DictUtf8", "I64", "Timestamp", "F64"}
ColumnTypes == {"I64", "Timestamp", "F64"}

FastComparison(t, e) ==
    /\ IsColumn(t, e.a)
    /\ LET ty == ColumnOf(t, e.a.name).ty
       IN  \/ e.b.x = "literal" /\ e.b.lit.ty = ty /\ ty \in LiteralTypes
           \/ /\ IsColumn(t, e.b)
              /\ ColumnOf(t, e.b.name).ty = ty /\ ty \in ColumnTypes

CoversStep(e, t, covers) ==
    CASE e.x = "and" -> \A k \in DOMAIN e.args : covers[e.args[k]]
      [] e.x = "is_null" -> IsColumn(t, e.a)
      [] e.x = "not" -> e.a.x = "is_null" /\ IsColumn(t, e.a.a)
      [] e.x = "compare" -> FastComparison(t, ColumnFirst(e))
      [] OTHER -> FALSE

CoveredIn(t) ==
    LET covers[e \in Exprs] == CoversStep(e, t, covers)
    IN  covers

FastCovers(t, e) == CoveredIn(t)[e]

\* The order of row i's value and what it is compared with: text by the
\* insertion point, decided once per dictionary entry.
FastOrder(t, e, i) ==
    LET c == ColumnOf(t, e.a.name)
        y == IF e.b.x = "literal" THEN e.b.lit.v ELSE ColumnOf(t, e.b.name).cells[i]
    IN  CASE c.ty = "DictUtf8" -> CodeToText(c.dictionary, c.cells[i], y)
          [] c.ty = "F64" -> OrderOf(Signed(c.cells[i]), Signed(y))
          [] OTHER -> OrderOf(c.cells[i], y)

BothPresent(t, e, i) ==
    /\ IsPresent(ColumnOf(t, e.a.name), i)
    /\ e.b.x = "column" => IsPresent(ColumnOf(t, e.b.name), i)

\* The conjuncts of e one after the other, each among the rows that the ones
\* before it kept.
SelectAll(t, e, rows, select) ==
    LET kept[k \in 0 .. Len(e.args)] ==
            IF k = 0 THEN [ok |-> TRUE, rows |-> rows]
            ELSE LET before == kept[k - 1]
                 IN  IF before.ok THEN select[<<e.args[k], before.rows>>] ELSE Uncovered
    IN  kept[Len(e.args)]

Kept(rows, Test(_)) == [ok |-> TRUE, rows |-> {i \in rows : Test(i)}]

\* fast_select of an expression among the rows that are left.
SelectStep(e, rows, t, select) ==
    CASE e.x = "and" ->
            IF \A k \in DOMAIN e.args : FastCovers(t, e.args[k])
            THEN SelectAll(t, e, rows, select)
            ELSE Uncovered
      [] e.x = "is_null" /\ IsColumn(t, e.a) ->
            Kept(rows, LAMBDA i : ~ IsPresent(ColumnOf(t, e.a.name), i))
      [] e.x = "not" /\ e.a.x = "is_null" /\ IsColumn(t, e.a.a) ->
            Kept(rows, LAMBDA i : IsPresent(ColumnOf(t, e.a.a.name), i))
      [] e.x = "compare" /\ FastComparison(t, ColumnFirst(e)) ->
            LET f == ColumnFirst(e)
            IN  Kept(rows, LAMBDA i :
                        BothPresent(t, f, i) /\ OpHolds(f.op, FastOrder(t, f, i)))
      [] OTHER -> Uncovered

FastSelection(t, e) ==
    LET select[p \in Exprs \X SUBSET RowsOf(t)] == SelectStep(p[1], p[2], t, select)
    IN  select[<<e, RowsOf(t)>>]
=============================================================================
