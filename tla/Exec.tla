-------------------------------- MODULE Exec --------------------------------
(***************************************************************************)
(* Running a plan over a snapshot: every step's table and the mapping of   *)
(* its rows to its input's (receipts-exec/src/lib.rs and ops.rs).          *)
(*                                                                         *)
(* A valid plan is a chain: every operator reads one earlier step and every *)
(* step leads to the output, so step i reads step i - 1 and step 0 is the  *)
(* scan (receipts-plan validate).  A plan is a function on 0 .. its length *)
(* - 1, a table one on its row numbers.                                    *)
(*                                                                         *)
(* A row has a key column k, a number column n that filters, sorts and     *)
(* aggregates read, and v, which says what the row stands for: a snapshot  *)
(* row's own number, or the list of its members' v in the order they were  *)
(* aggregated.  Whatever an aggregate computes in row order, a decimal sum *)
(* included, is a function of that list.                                   *)
(***************************************************************************)
EXTENDS Integers, FiniteSets, FiniteSetsExt, Ranking

CONSTANTS
    Snapshot,      \* Snapshot[s]: the [k, n, v] rows of snapshot s
    Missing,       \* a missing n, smaller than every number
    MaxInt,        \* i64::MAX, and -MaxInt stands for i64::MIN
    NoExclusion

Height(t) == Cardinality(DOMAIN t)

IsRow(r) == r = [k |-> r.k, n |-> r.n, v |-> r.v] /\ r.k \in Int /\ r.n \in Int

IsTable(t) ==
    /\ IsFiniteSet(DOMAIN t) /\ DOMAIN t = 0 .. Height(t) - 1
    /\ t = [r \in DOMAIN t |-> t[r]]
    /\ \A r \in DOMAIN t : IsRow(t[r])

ASSUME ExecAssumption ==
    /\ MaxInt \in Nat
    /\ Missing \in Int /\ Missing < - MaxInt
    /\ \A s \in DOMAIN Snapshot : IsTable(Snapshot[s])

\* gather: the rows of t that `rows` names, in that order.
Gather(t, rows) == [i \in DOMAIN rows |-> t[rows[i]]]

----------------------------------------------------------------------------
(* What each operator does to a table.                                     *)

Done(table, lineage) == [ok |-> TRUE, table |-> table, lineage |-> lineage]

Failed == [ok |-> FALSE]

Identity(n) == [kind |-> "Identity", len |-> n]

Select(rows) == [kind |-> "Select", len |-> Height(rows), rows |-> rows]

\* With an exclusion the scan keeps the other rows, in order, and says so;
\* excluded rows past the snapshot's end are ignored.
Scan(op, exclusion) ==
    LET t == Snapshot[op.snapshot]
        keep == Ascending(DOMAIN t \ exclusion)
    IN  IF exclusion = NoExclusion
        THEN Done(t, [kind |-> "Source", len |-> Height(t)])
        ELSE Done(Gather(t, keep),
                  [kind |-> "SourceSubset", len |-> Height(keep),
                   source_len |-> Height(t), rows |-> keep])

\* A condition that a missing value leaves undecided keeps no row.
Holds(op, r) == r.n # Missing /\ r.n >= op.least

Filter(op, t) ==
    LET keep == Ascending({r \in DOMAIN t : Holds(op, t[r])})
    IN  IF Height(keep) = Height(t)
        THEN Done(t, Identity(Height(t)))
        ELSE Done(Gather(t, keep), Select(keep))

\* A new column computed row by row; later steps read it as n.
Map(t) ==
    Done([r \in DOMAIN t |->
            [t[r] EXCEPT !.n = IF @ = Missing THEN Missing ELSE - @]],
         Identity(Height(t)))

Project(t) == Done(t, Identity(Height(t)))

\* sort_permutation: by the key column, missing first, ties in row order
\* even when descending.
SortPermutation(op, t) ==
    Ranked(DOMAIN t,
           LAMBDA x, y :
               LET a == t[x][op.by]
                   b == t[y][op.by]
               IN  \/ a = b /\ x < y
                   \/ IF op.descending THEN a > b ELSE a < b)

Sort(op, t) ==
    LET perm == SortPermutation(op, t)
    IN  Done(Gather(t, perm), Select(perm))

Limit(op, t) ==
    LET n == IF op.count < Height(t) THEN op.count ELSE Height(t)
    IN  Done([r \in 0 .. n - 1 |-> t[r]], Identity(n))
----------------------------------------------------------------------------
(* Aggregates.                                                             *)

Present(t, M) == {m \in M : t[m].n # Missing}

\* The members' numbers, in row order.
Numbers(t, M) ==
    LET order == Ascending(Present(t, M))
    IN  [i \in DOMAIN order |-> t[order[i]].n]

Total(s) == MapThenSumSet(LAMBDA i : s[i], DOMAIN s)

SumOf(t, M) == Total(Numbers(t, M))

\* The members' numbers, ascending; equal ones in row order.
SortedNumbers(t, M) ==
    LET order == Ranked(Present(t, M),
                        LAMBDA x, y : \/ t[x].n < t[y].n
                                      \/ t[x].n = t[y].n /\ x < y)
    IN  [i \in DOMAIN order |-> t[order[i]].n]

\* Twice the median, so that the mean of the two middle values is a number.
MedianOfSorted(s) ==
    LET n == Height(s)
    IN  IF n = 0 THEN Missing
        ELSE IF n % 2 = 1 THEN 2 * s[n \div 2]
        ELSE s[n \div 2 - 1] + s[n \div 2]

\* (n * p).div_ceil(100).max(1) - 1, for n > 0.
PercentileRank(n, p) ==
    LET nearest == (n * p + 99) \div 100
    IN  IF nearest = 0 THEN 0 ELSE nearest - 1

\* The op's function over the rows M of t.
AggValue(op, t, M) ==
    LET s == SortedNumbers(t, M)
        n == Height(s)
    IN  CASE op.func = "count" -> Cardinality(M)
          [] op.func = "count_non_null" -> n
          [] OTHER ->
                IF n = 0 THEN Missing
                ELSE CASE op.func = "sum" -> SumOf(t, M)
                       [] op.func = "median" -> MedianOfSorted(s)
                       [] op.func = "min" -> s[0]
                       [] op.func = "max" -> s[n - 1]
                       [] op.func = "percentile" -> s[PercentileRank(n, op.p)]

\* Without group_by there is one group, even over no rows; its key is 0.
GroupKeys(op, t) == IF op.grouped THEN {t[r].k : r \in DOMAIN t} ELSE {0}

Members(op, t, g) ==
    IF op.grouped THEN {r \in DOMAIN t : t[r].k = g} ELSE DOMAIN t

GroupRow(op, t, g) ==
    LET M == Members(op, t, g)
        order == Ascending(M)
    IN  [k |-> g, n |-> AggValue(op, t, M),
         v |-> [i \in DOMAIN order |-> t[order[i]].v]]

Fits(x) == x \in - MaxInt .. MaxInt

\* Groups come in key order.  An integer sum that overflows fails the step.
Aggregate(op, t) ==
    LET keys == Ascending(GroupKeys(op, t))
    IN  IF op.func = "sum" /\ \E i \in DOMAIN keys :
                                ~ Fits(SumOf(t, Members(op, t, keys[i])))
        THEN Failed
        ELSE Done([i \in DOMAIN keys |-> GroupRow(op, t, keys[i])],
                  [kind |-> "Group", len |-> Height(keys),
                   members |-> [i \in DOMAIN keys |-> Members(op, t, keys[i])]])

----------------------------------------------------------------------------
(* Executions.                                                             *)

RunStep(op, t) ==
    CASE op.op = "filter"    -> Filter(op, t)
      [] op.op = "map"       -> Map(t)
      [] op.op = "project"   -> Project(t)
      [] op.op = "sort"      -> Sort(op, t)
      [] op.op = "limit"     -> Limit(op, t)
      [] op.op = "aggregate" -> Aggregate(op, t)

\* An execution has every step's result, or failed at one of them.
Collected(done) ==
    IF \A i \in DOMAIN done : done[i].ok
    THEN [ok |-> TRUE,
          tables |-> [i \in DOMAIN done |-> done[i].table],
          steps |-> [i \in DOMAIN done |-> done[i].lineage]]
    ELSE Failed

NextStep(plan, i, before) ==
    IF before.ok THEN RunStep(plan[i], before.table) ELSE before

\* execute and execute_excluding.
Execute(plan, exclusion) ==
    LET done[i \in DOMAIN plan] ==
            IF i = 0 THEN Scan(plan[0], exclusion)
            ELSE NextStep(plan, i, done[i - 1])
    IN  Collected(done)

\* rerun_from: step `node` is replaced, the ones before it are reused.
RerunFrom(plan, base, node, table, lineage) ==
    LET done[i \in DOMAIN plan] ==
            IF i < node THEN Done(base.tables[i], base.steps[i])
            ELSE IF i = node THEN Done(table, lineage)
            ELSE NextStep(plan, i, done[i - 1])
    IN  Collected(done)

\* aggregate_subset: step `node` over the given rows of its input, whose
\* numbers the lineage keeps.
AggregateSubset(plan, node, input, rows) ==
    LET mini == RunStep(plan[node], Gather(input, rows))
    IN  IF ~ mini.ok THEN Failed
        ELSE [mini EXCEPT !.lineage.members =
                [g \in DOMAIN @ |-> {rows[m] : m \in @[g]}]]

OutputNode(plan) == Cardinality(DOMAIN plan) - 1
=============================================================================
