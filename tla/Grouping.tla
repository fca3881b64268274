------------------------------ MODULE Grouping ------------------------------
(***************************************************************************)
(* Grouping rows by key columns, and what an aggregate makes of every group *)
(* (receipts-exec/src/ops.rs).                                             *)
(***************************************************************************)
EXTENDS Evaluate

\* The rows at which f has a value for the first time, and how many other
\* values were seen before that of row i.
Firsts(f) == {i \in DOMAIN f : \A k \in DOMAIN f : f[k] = f[i] => i <= k}

SeenBefore(f, firsts, i) ==
    LET first == CHOOSE r \in firsts : f[r] = f[i]
    IN  Cardinality({r \in firsts : r < first})

\* -0.0 and 0.0 are one value.
InternKey(col, i) ==
    IF col.ty = "F64" /\ Signed(col.cells[i]) = 0 THEN 0 ELSE col.cells[i]

Present(col) == {i \in DOMAIN col.cells : IsPresent(col, i)}

\* column_ids: an id per row, 0 for missing, below `card`.
ColumnIds(col) ==
    LET key == [i \in Present(col) |-> InternKey(col, i)]
        firsts == Firsts(key)
        interned == col.ty \notin {"DictUtf8", "Bool"}
    IN  [ids |-> [i \in DOMAIN col.cells |->
                    IF ~ IsPresent(col, i) THEN 0
                    ELSE IF interned THEN 1 + SeenBefore(key, firsts, i)
                    ELSE 1 + col.cells[i]],
         card |-> 1 + CASE col.ty = "DictUtf8" -> Len(col.dictionary)
                        [] col.ty = "Bool" -> 2
                        [] OTHER -> Cardinality(firsts)]

\* Mutant of Slot: the ids are added up.
Slot_Sum(a, b, card_b) == a + b

Slot(a, b, card_b) == a * card_b + b

\* combine: the pairs (a[i], b[i]) numbered in first-seen order.
Combine(a, key) ==
    LET slot == [i \in DOMAIN a |-> Slot(a[i], key.ids[i], key.card)]
        firsts == Firsts(slot)
    IN  [ids |-> [i \in DOMAIN a |-> SeenBefore(slot, firsts, i)],
         count |-> Cardinality(firsts),
         first_row |-> Ascending(firsts)]

\* group: no keys means one group, even of no rows.
Group(n, keys) ==
    LET same == [i \in 0 .. n - 1 |-> 0]
        acc[k \in 0 .. Len(keys)] ==
            IF k = 0 THEN [ids |-> same, count |-> 1, first_row |-> << >>]
            ELSE Combine(acc[k - 1].ids, ColumnIds(keys[k]))
    IN  acc[Len(keys)]

Ascend(keys) == [k \in DOMAIN keys |-> [col |-> keys[k], descending |-> FALSE]]

\* group_order: by key values, missing first.
GroupOrder(groups, keys) ==
    IF keys = << >> THEN [p \in {0} |-> 0]
    ELSE Ranked(0 .. groups.count - 1,
                LAMBDA x, y : ComparedBefore(Ascend(keys), groups.first_row[x],
                                             groups.first_row[y]))

----------------------------------------------------------------------------
(* Aggregates of the rows M that are present in their group.               *)

\* gather and gather_opt: a row number or Missing for every new row.
GatherColumn(col, rows) ==
    [col EXCEPT !.cells = [i \in DOMAIN rows |->
        IF rows[i] = Missing THEN Missing ELSE col.cells[rows[i]]]]

ByValue(col, M) ==
    Ranked(M, LAMBDA x, y : \/ RowLess(col, x, y)
                            \/ RowEqual(col, x, y) /\ x < y)

IntegerSum(col, M) ==
    LET rows == Ascending(M)
        sum[k \in 0 .. Cardinality(M)] ==
            IF k = 0 THEN 0 ELSE sum[k - 1] + col.cells[rows[k - 1]]
    IN  sum[Cardinality(M)]

\* In row order, rounded at every step; Missing once it is not finite.
DecimalSum(col, M) ==
    LET rows == Ascending(M)
        sum[k \in 0 .. Cardinality(M)] ==
            IF k = 0 THEN 0
            ELSE IF sum[k - 1] = Missing THEN Missing
            ELSE DecimalOp("add", Halves(sum[k - 1]), Halves(col.cells[rows[k - 1]]))
    IN  sum[Cardinality(M)]

\* The mean of two decimals, given in halves: each is halved first if their
\* sum is not finite.
MiddleOf(x, y) ==
    LET sum == Rounded(x + y, 1)
    IN  IF sum \in Finite THEN Rounded(Halves(sum), 2)
        ELSE Rounded(Halves(Rounded(x, 2)) + Halves(Rounded(y, 2)), 1)

\* median_of_sorted; integers are converted first.
Median(col, M) ==
    LET rows == ByValue(col, M)
        n == Cardinality(M)
        value(k) == AsF64(col.ty, col.cells[rows[k]])
    IN  IF n % 2 = 1 THEN Rounded(value(n \div 2), 1)
        ELSE MiddleOf(value(n \div 2 - 1), value(n \div 2))

\* The exact sum of integers, or the sum of decimals, over their number.
Mean(col, M) ==
    IF col.ty = "I64" THEN Rounded(2 * IntegerSum(col, M), Cardinality(M))
    ELSE IF DecimalSum(col, M) = Missing THEN Missing
    ELSE Rounded(Halves(DecimalSum(col, M)), Cardinality(M))

NearestRank(n, p) ==
    LET rank == (n * p + 99) \div 100
    IN  IF rank = 0 THEN 0 ELSE rank - 1

\* The row whose value is the group's, for functions that pick one: ties
\* keep the first row.
PickedRow(agg, col, M) ==
    LET rows == ByValue(col, M)
        n == Cardinality(M)
        largest == rows[n - 1]
    IN  CASE agg.func = "min" -> rows[0]
          [] agg.func = "percentile" -> rows[NearestRank(n, agg.p)]
          [] agg.func = "max" ->
                CHOOSE r \in M :
                    /\ RowEqual(col, r, largest)
                    /\ \A s \in M : RowEqual(col, s, largest) => r <= s

Calculated == {"sum", "mean", "median"}

\* Over no values, a function has no value.
AggCell(agg, col, M) ==
    IF M = {} THEN Missing
    ELSE CASE agg.func = "sum" ->
                IF col.ty = "I64" THEN IntegerSum(col, M) ELSE DecimalSum(col, M)
           [] agg.func = "mean" -> Mean(col, M)
           [] agg.func = "median" -> Median(col, M)

\* What the executor can take the function of; the rest is unreachable.
Takes(func, col) ==
    IF func \in Calculated THEN col.ty \in {"I64", "F64"}
    ELSE func = "count_non_null" \/ col.ty \in SortableTypes

\* The sum of a group does not fit: the step fails.
SumOverflows(agg, col, groups) ==
    /\ agg.func = "sum" /\ col.ty = "I64"
    /\ \E g \in 0 .. groups.count - 1 :
          IntegerSum(col, {i \in Present(col) : groups.ids[i] = g}) \notin I64

\* aggregate, and the gather and rename after it: one value per group, in
\* the order of the groups.
AggregateColumn(t, agg, groups, order) ==
    LET col == ColumnOf(t, agg.column)
        members(p) == {i \in Present(col) : groups.ids[i] = order[p]}
        all(p) == {i \in RowsOf(t) : groups.ids[i] = order[p]}
        Made(ty, Cell(_)) ==
            NewColumn(agg.name, ty, [p \in DOMAIN order |-> Cell(p)], << >>)
    IN  CASE agg.func = "count" -> Made("I64", LAMBDA p : Cardinality(all(p)))
          [] agg.func = "count_non_null" ->
                Made("I64", LAMBDA p : Cardinality(members(p)))
          [] agg.func \in Calculated ->
                Made(IF agg.func = "sum" THEN col.ty ELSE "F64",
                     LAMBDA p : AggCell(agg, col, members(p)))
          [] OTHER ->
                [GatherColumn(col, [p \in DOMAIN order |->
                    IF members(p) = {} THEN Missing
                    ELSE PickedRow(agg, col, members(p))])
                 EXCEPT !.name = agg.name]
=============================================================================
