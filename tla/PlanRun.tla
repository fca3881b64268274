------------------------------- MODULE PlanRun -------------------------------
(***************************************************************************)
(* A plan from the first step written to the last step run: it is put      *)
(* together, validated as a whole (receipts-plan validate), and, if it is  *)
(* valid, run step by step (receipts-exec execute and run).                *)
(***************************************************************************)
EXTENDS Grouping, PlanShape

CONSTANTS
    Snapshots,    \* Snapshots[s]: the columns of snapshot s
    Ops,          \* the steps that plans are made of
    Steps(_, _),    \* the steps a plan of n steps, the last of which is an op,
                  \* may go on with
    MaxSteps,       \* bound: steps of a plan
    Conditions(_),  \* conditions to select the output of a plan of n steps by
    NoStep

Aggregates ==
    [name : STRING,
     func : {"count", "count_non_null", "sum", "mean", "median", "min", "max",
             "percentile"},
     column : STRING,
     p : Nat]

\* A step as it is read, before it is validated.
IsOp(op) ==
    CASE op.op = "scan" -> TRUE
      [] op.op = "filter" -> op.predicate \in Exprs
      [] op.op = "map" -> op.expr \in Exprs /\ op.name \in STRING
      [] op.op = "project" -> op.columns \in Seq(STRING)
      [] op.op = "aggregate" ->
            op.group_by \in Seq(STRING) /\ op.aggregates \in Seq(Aggregates)
      [] op.op = "sort" -> op.keys \in Seq([column : STRING, descending : BOOLEAN])
      [] op.op = "limit" -> op.count \in Nat
      [] OTHER -> FALSE

ASSUME PlanRunAssumption ==
    /\ MaxSteps \in Nat
    /\ \A op \in Ops : IsOp(op)
    /\ \A n \in 0 .. MaxSteps - 1 : \A last \in Ops \cup {NoStep} :
          Steps(n, last) \subseteq Ops
    /\ \A n \in 0 .. MaxSteps : Conditions(n) \subseteq Exprs

VARIABLES
    plan,       \* the steps, numbered from 0
    status,     \* "writing", "refused", "running", "done" or "failed"
    output,
    schemas,    \* the schema of every step, once the plan is valid
    tables,     \* the table of every step that has run
    failure     \* why a step failed

vars == <<plan, status, output, schemas, tables, failure>>

NumSteps == Cardinality(DOMAIN plan)

PlanInit ==
    /\ plan = << >>
    /\ status = "writing"
    /\ output = NoStep
    /\ schemas = << >>
    /\ tables = << >>
    /\ failure = "none"

LastStep == IF NumSteps = 0 THEN NoStep ELSE plan[NumSteps - 1]

\* One more item at the end of a list that is numbered from 0.
Extended(f, x) ==
    LET n == Cardinality(DOMAIN f)
    IN  [i \in 0 .. n |-> IF i = n THEN x ELSE f[i]]

AddStep(op) ==
    /\ status = "writing"
    /\ NumSteps < MaxSteps
    /\ plan' = Extended(plan, op)
    /\ UNCHANGED <<status, output, schemas, tables, failure>>

\* The schemas of the steps up to the first that has none.
SchemasOf(p) ==
    LET schema[i \in DOMAIN p] ==
            IF ~ Reads(p[i]) THEN NodeSchema(p[i], << >>)
            ELSE IF schema[p[i].input].ok
            THEN NodeSchema(p[i], schema[p[i].input].schema)
            ELSE Refused
    IN  schema

IsValid(out) ==
    /\ WellShaped(plan, NumSteps, out)
    /\ \A i \in DOMAIN plan : SchemasOf(plan)[i].ok

\* validate: structure, names and types.
Validate(out) ==
    /\ status = "writing"
    /\ output' = out
    /\ IF IsValid(out)
       THEN /\ status' = "running"
            /\ schemas' = [i \in DOMAIN plan |-> SchemasOf(plan)[i].schema]
       ELSE /\ status' = "refused"
            /\ UNCHANGED schemas
    /\ UNCHANGED <<plan, tables, failure>>

----------------------------------------------------------------------------
(* Running a step.                                                         *)

Columns(columns) == [why |-> "none", columns |-> columns]
Stopped(why) == [why |-> why]

\* Every column's rows, in the order of `rows`.
GatherColumns(t, rows) ==
    [i \in DOMAIN t.columns |-> GatherColumn(t.columns[i], rows)]

\* The rows where a predicate that was evaluated in general is true.
FilterBy(t, d) ==
    IF Stops(d) THEN Stopped(d.d)
    ELSE IF ~ Booleans(d) THEN Stopped("panic")
    ELSE Columns(GatherColumns(t, Ascending(Selection(t, d))))

RunFilter(op, t) ==
    LET fast == FastSelection(t, op.predicate)
    IN  IF fast.ok THEN Columns(GatherColumns(t, Ascending(fast.rows)))
        ELSE FilterBy(t, Eval(op.predicate, t))

AddColumn(t, d, name) ==
    IF Stops(d) THEN Stopped(d.d)
    ELSE IF TypeOfDatum(d) = "Null" THEN Stopped("panic")
    ELSE Columns(Append(t.columns, Materialized(t, d, name)))

RunMap(op, t) == AddColumn(t, Eval(op.expr, t), op.name)

ColumnsNamed(t, names) == [i \in DOMAIN names |-> ColumnOf(t, names[i])]

RunProject(op, t) ==
    IF Known(op.columns, t.schema) THEN Columns(ColumnsNamed(t, op.columns))
    ELSE Stopped("panic")

\* The columns exist and are of types that have an order.
CanOrder(t, names) ==
    /\ Known(names, t.schema)
    /\ \A i \in DOMAIN names : ColumnOf(t, names[i]).ty \in SortableTypes

SortKeysOf(op, t) ==
    [i \in DOMAIN op.keys |-> [col |-> ColumnOf(t, op.keys[i].column),
                               descending |-> op.keys[i].descending]]

RunSort(op, t) ==
    IF CanOrder(t, SortColumns(op))
    THEN Columns(GatherColumns(t, SortPermutation(t.len, SortKeysOf(op, t))))
    ELSE Stopped("panic")

RunLimit(op, t) ==
    LET n == IF op.count < t.len THEN op.count ELSE t.len
    IN  Columns(GatherColumns(t, [i \in 0 .. n - 1 |-> i]))

RunAggregate(op, t) ==
    LET keys == ColumnsNamed(t, op.group_by)
        groups == Group(t.len, keys)
        order == GroupOrder(groups, keys)
        usable(a) == \/ a.func = "count"
                     \/ /\ a.column \in FieldNames(t.schema)
                        /\ Takes(a.func, ColumnOf(t, a.column))
        overflows(a) == a.func = "sum" /\ SumOverflows(a, ColumnOf(t, a.column), groups)
    IN  IF \/ ~ CanOrder(t, op.group_by)
           \/ \E i \in DOMAIN op.aggregates : ~ usable(op.aggregates[i])
        THEN Stopped("panic")
        ELSE IF \E i \in DOMAIN op.aggregates : overflows(op.aggregates[i])
        THEN Stopped("overflow")
        ELSE Columns([k \in DOMAIN keys |->
                         GatherColumn(keys[k], [p \in DOMAIN order |->
                             groups.first_row[order[p]]])]
                     \o [i \in DOMAIN op.aggregates |->
                             AggregateColumn(t, op.aggregates[i], groups, order)])

RunOp(op, t) ==
    CASE op.op = "scan" -> Columns(Snapshots[op.snapshot])
      [] op.op = "filter" -> RunFilter(op, t)
      [] op.op = "map" -> RunMap(op, t)
      [] op.op = "project" -> RunProject(op, t)
      [] op.op = "sort" -> RunSort(op, t)
      [] op.op = "limit" -> RunLimit(op, t)
      [] op.op = "aggregate" -> RunAggregate(op, t)

SchemaFields == [name : STRING, ty : SortableTypes \cup {"Geo"}, nullable : BOOLEAN]

LenOf(columns) ==
    IF columns = << >> THEN 0 ELSE Cardinality(DOMAIN columns[1].cells)

\* Table::new: as many columns as the schema has fields, of their names and
\* types, equally long, and without a missing value where there can be none.
MatchesSchema(schema, columns) ==
    /\ DOMAIN columns = DOMAIN schema
    /\ \A i \in DOMAIN schema :
          /\ columns[i].name = schema[i].name
          /\ columns[i].ty = schema[i].ty
          /\ Cardinality(DOMAIN columns[i].cells) = LenOf(columns)
          /\ schema[i].nullable \/ ~ HasMissing(columns[i])

\* What a column may hold: text is a code of its dictionary.
CellsOf(col) ==
    CASE col.ty = "DictUtf8" -> 0 .. Len(col.dictionary) - 1
      [] col.ty = "Geo" -> Finite \X Finite
      [] OTHER -> CellValues(col.ty)

IsColumnOf(col, n) ==
    /\ col = NewColumn(col.name, col.ty, col.cells, col.dictionary)
    /\ col.ty \in SortableTypes \cup {"Geo"}
    /\ col.dictionary \in Seq(Int) /\ Len(col.dictionary) <= Half
    /\ \A k, m \in DOMAIN col.dictionary :
          k < m => col.dictionary[k] < col.dictionary[m]
    /\ col.cells \in [0 .. n - 1 -> CellsOf(col) \cup {Missing}]

\* A snapshot that is found is as its catalog entry says, has a sorted
\* dictionary for every column of text, and is not as long as numbers go.
ASSUME SnapshotsAssumption ==
    \A s \in DOMAIN Catalog :
        /\ Catalog[s] \in Seq(SchemaFields)
        /\ NodeSchema([op |-> "scan", snapshot |-> s], << >>).ok =>
              /\ s \in DOMAIN Snapshots
              /\ IsList(Snapshots[s])
              /\ MatchesSchema(Catalog[s], Snapshots[s])
              /\ LenOf(Snapshots[s]) \in 0 .. Half - 1
              /\ \A k \in DOMAIN Snapshots[s] :
                    IsColumnOf(Snapshots[s][k], LenOf(Snapshots[s]))

Fail(why) ==
    /\ status' = "failed"
    /\ failure' = why
    /\ UNCHANGED <<plan, output, schemas, tables>>

\* Step i has made columns, or failed.
Finish(i, made) ==
    IF made.why # "none" THEN Fail(made.why)
    ELSE IF ~ MatchesSchema(schemas[i], made.columns) THEN Fail("internal error")
    ELSE /\ tables' = Extended(tables, [schema |-> schemas[i],
                                        columns |-> made.columns,
                                        len |-> LenOf(made.columns)])
         /\ status' = IF i + 1 = NumSteps THEN "done" ELSE "running"
         /\ UNCHANGED <<plan, output, schemas, failure>>

\* Step i of execute, for the steps in order.
RunStep ==
    LET i == Cardinality(DOMAIN tables)
        input == IF Reads(plan[i]) THEN tables[plan[i].input] ELSE NoStep
    IN  status = "running" /\ Finish(i, RunOp(plan[i], input))

PlanNext ==
    \/ \E op \in Steps(NumSteps, LastStep) : AddStep(op)
    \/ \E out \in 0 .. MaxSteps : Validate(out)
    \/ RunStep

PlanSpec == PlanInit /\ [][PlanNext]_vars
----------------------------------------------------------------------------
(* What expressions mean, row by row, without columns or dictionaries.     *)

\* A value as it is compared: numbers in halves, whatever their type.
Comparand(ty, v) ==
    CASE ty = "F64" -> Halves(v) [] ty = "I64" -> 2 * v [] OTHER -> v

MeaningOfPair(e, ta, tb, x, y) ==
    LET u == Comparand(ta, x)
        w == Comparand(tb, y)
    IN  IF x = Missing \/ y = Missing THEN Missing
        ELSE IF e.x = "compare"
        THEN OfTruth(CASE e.op = "eq" -> u = w [] e.op = "ne" -> u # w
                       [] e.op = "lt" -> u < w [] e.op = "le" -> u <= w
                       [] e.op = "gt" -> u > w [] e.op = "ge" -> u >= w)
        ELSE IF ArithType(e.op, ta, tb) = "F64"
        THEN DecimalOp(e.op, AsF64(ta, x), AsF64(tb, y))
        ELSE IntegerOp(e.op, x, y)

\* What an expression means of row i of t, given those it is made of.
MeaningStep(e, t, i, value) ==
    LET TypeIn(f) == TypeOf(f, t.schema).ty
        OfArgs == {value[e.args[k]] : k \in DOMAIN e.args}
        IfPresent(v) == IF value[e.a] = Missing THEN Missing ELSE v
    IN  CASE e.x = "column" ->
                Get([d |-> "col", col |-> ColumnOf(t, e.name)], i)
          [] e.x = "literal" -> IF e.lit.ty = "Null" THEN Missing ELSE e.lit.v
          [] e.x \in {"compare", "arith"} ->
                MeaningOfPair(e, TypeIn(e.a), TypeIn(e.b), value[e.a], value[e.b])
          [] e.x = "and" ->
                IF 0 \in OfArgs THEN 0 ELSE IF Missing \in OfArgs THEN Missing ELSE 1
          [] e.x = "or" ->
                IF 1 \in OfArgs THEN 1 ELSE IF Missing \in OfArgs THEN Missing ELSE 0
          [] e.x = "not" -> IfPresent(1 - value[e.a])
          [] e.x = "is_null" -> OfTruth(value[e.a] = Missing)
          [] e.x = "in" ->
                IfPresent(OfTruth(\E k \in DOMAIN e.values :
                    Comparand(TypeIn(e.a), value[e.a])
                        = Comparand(e.values[k].ty, e.values[k].v)))
          [] e.x = "date_trunc" -> IfPresent(Truncated(e.unit, value[e.a]))
          [] e.x = "lat" -> IfPresent(value[e.a][1])
          [] e.x = "lon" -> IfPresent(value[e.a][2])

\* What every expression means of row i of t.
Meanings(t, i) ==
    LET value[e \in Exprs] == MeaningStep(e, t, i, value)
    IN  value

Meaning(e, t, i) == Meanings(t, i)[e]

----------------------------------------------------------------------------
(* Properties.                                                             *)

\* The output of a plan that has run.
Outputs == IF status = "done" THEN {tables[output]} ELSE {}

Sound(col) ==
    \A i \in Present(col) :
        CASE col.ty = "DictUtf8" ->
                /\ col.cells[i] \in 0 .. Len(col.dictionary) - 1
                /\ \A k \in 1 .. Len(col.dictionary) - 1 :
                      col.dictionary[k] < col.dictionary[k + 1]
          [] col.ty = "Geo" -> \A k \in {1, 2} : col.cells[i][k] \in Finite
          [] OTHER -> col.cells[i] \in CellValues(col.ty)

\* A plan that was validated runs: no expect or unreachable of the executor
\* is met and no table contradicts its inferred schema, so the one thing that
\* can fail is an integer that does not fit ("Validation checks names and
\* types before anything runs", docs/engine/plan.md:80).  Decimal columns
\* never hold NaN or infinity (plan.md:76), and codes have their text.
ValidPlansRun ==
    /\ failure \in {"none", "overflow"}
    /\ \A t \in Outputs : \A k \in DOMAIN t.columns : Sound(t.columns[k])

\* Every plan that is let through is one chain from a scan to its output
\* (validate); exclusions and traces walk plans on this ground.
ValidPlansAreChains ==
    status \in {"running", "done", "failed"} => Chained(plan, NumSteps, output)

\* Both ways select the rows that are meant, if they apply to e.
SelectsMeant(t, e, meant, fast, d) ==
    /\ fast.ok <=> FastCovers(t, e)
    /\ fast.ok => fast.rows = meant
    /\ d.d # "panic"
    /\ Stops(d) \/ Selection(t, d) = meant

\* A filter keeps the rows for which its condition is true, row by row and
\* with exact numbers: whether they are found directly, by dictionary codes
\* and shrinking candidate lists, or by evaluating whole columns (eval.rs
\* fast_selection: "both give the same rows").
SelectionsAreMeant ==
    \A t \in Outputs : \A e \in Conditions(NumSteps) :
        TypedAs(e, t.schema, "Bool").ok =>
            SelectsMeant(t, e, {i \in RowsOf(t) : Meaning(e, t, i) = 1},
                         FastSelection(t, e), Eval(e, t))

Sortable(t) == {k \in DOMAIN t.columns : t.columns[k].ty \in SortableTypes}

\* One or two columns of a table.
ColumnLists(t) ==
    {<<t.columns[k]>> : k \in Sortable(t)}
        \cup {<<t.columns[k], t.columns[j]>> : k, j \in Sortable(t)}

Directed(keys) ==
    {[k \in DOMAIN keys |-> [col |-> keys[k], descending |-> dir[k]]] :
        dir \in [DOMAIN keys -> BOOLEAN]}

\* Sorting words gives exactly the stable order of the columns' values,
\* missing values, both zeros and i64::MIN included (sort_permutation).
EncodedSortAgrees ==
    \A t \in Outputs : \A cols \in ColumnLists(t) : \A keys \in Directed(cols) :
        SortPermutation(t.len, keys)
            = Ranked(RowsOf(t), LAMBDA a, b : ComparedBefore(keys, a, b))

\* Two rows are in one group exactly if no key tells them apart; groups are
\* numbered without gaps, keep their first row, and come in key order
\* (group, combine, group_order).
GroupsAreKeys ==
    \A t \in Outputs : \A keys \in ColumnLists(t) :
        LET groups == Group(t.len, keys)
            order == GroupOrder(groups, keys)
            same(i, j) == \A k \in DOMAIN keys : RowEqual(keys[k], i, j)
        IN  /\ \A i, j \in RowsOf(t) :
                  groups.ids[i] = groups.ids[j] <=> same(i, j)
            /\ {groups.ids[i] : i \in RowsOf(t)} = 0 .. groups.count - 1
            /\ \A g \in 0 .. groups.count - 1 :
                  /\ groups.ids[groups.first_row[g]] = g
                  /\ \A i \in 0 .. groups.first_row[g] - 1 : groups.ids[i] # g
            /\ \A p, q \in 0 .. groups.count - 1 :
                  p < q <=> ComparedBefore(Ascend(keys), groups.first_row[order[p]],
                                           groups.first_row[order[q]])
=============================================================================
