--------------------------- MODULE Counterfactual ---------------------------
(***************************************************************************)
(* "What does this number become without these rows?"                      *)
(* (receipts-cf/src/lib.rs): exclude, which re-derives an execution without *)
(* some snapshot rows, and contributions, which says for every row behind  *)
(* one number what it would be without that row.                           *)
(***************************************************************************)
EXTENDS Exec

\* The lineage store of an execution whose steps recorded `steps`.
Store(steps) == INSTANCE StepLineage WITH
    NumSteps <- Cardinality(DOMAIN steps),
    Steps <- steps,
    Inputs <- [i \in DOMAIN steps |-> i - 1],
    NoStep <- -1

\* LineageStore::forward from the scan to step `node`.
Forward(steps, rows, node) ==
    LET from[i \in 0 .. node] ==
            Store(steps)!StepForward(
                i, IF i = 0 THEN rows ELSE from[i - 1],
                IF Store(steps)!NeedsInverse(i)
                THEN Store(steps)!InverseOf(i) ELSE << >>)
    IN  from[node]

\* LineageStore::backward: the rows of step i behind the rows R of `node`.
Backward(steps, node, R, i) ==
    LET behind[j \in 0 .. node] ==
            IF j = node THEN R ELSE Store(steps)!StepBack(j + 1, behind[j + 1])
    IN  behind[i]

\* The snapshot rows behind the rows R of step `node`.
SourceRows(steps, node, R) ==
    Store(steps)!StepBack(0, Backward(steps, node, R, 0))

----------------------------------------------------------------------------
(* exclude.                                                                *)

Aggregates(plan) == {i \in DOMAIN plan : plan[i].op = "aggregate"}

\* Mutant of IncrementalShape: a limit before the aggregate is let through.
IncrementalShape_PastLimit(plan) ==
    /\ Cardinality(Aggregates(plan)) = 1
    /\ \A a \in Aggregates(plan) : \A i \in 1 .. a - 1 :
          plan[i].op \in {"filter", "map", "project", "sort", "limit"}

\* The plan's one aggregate, if only steps that keep rows apart and in
\* order come before it.
IncrementalShape(plan) ==
    /\ Cardinality(Aggregates(plan)) = 1
    /\ \A a \in Aggregates(plan) : \A i \in 1 .. a - 1 :
          plan[i].op \in {"filter", "map", "project", "sort"}

TheAggregate(plan) == CHOOSE a \in Aggregates(plan) : TRUE

\* Mutant of Survivors: the removed rows are still there.
Survivors_All(members, affected, removed) ==
    Ascending(UNION {members[p] : p \in affected})

\* The surviving members of the affected groups, in the order a full run
\* would aggregate them in.
Survivors(members, affected, removed) ==
    Ascending((UNION {members[p] : p \in affected}) \ removed)

\* Which groups keep a row.  Without group_by there is always one.
KeepsRow(op, members, affected, removed, p) ==
    p \notin affected \/ members[p] \ removed # {} \/ ~ op.grouped

\* Mutant of Interleaved: the table changes, the groups' members do not.
Interleaved_OldMembers(op, base, mini, affected, removed) ==
    LET members == base.lineage.members
        kept == Ascending({p \in DOMAIN base.table :
                              KeepsRow(op, members, affected, removed, p)})
        Place(p) == Cardinality({q \in affected : q < p /\
                        KeepsRow(op, members, affected, removed, q)})
    IN  Done([i \in DOMAIN kept |->
                IF kept[i] \in affected THEN mini.table[Place(kept[i])]
                ELSE base.table[kept[i]]],
             [kind |-> "Group", len |-> Height(kept),
              members |-> [i \in DOMAIN kept |-> members[kept[i]]]])

\* The base's rows with the recomputed ones in the places of the groups that
\* changed: the mini result is in key order too, so the next one fits next.
Interleaved(op, base, mini, affected, removed) ==
    LET members == base.lineage.members
        kept == Ascending({p \in DOMAIN base.table :
                              KeepsRow(op, members, affected, removed, p)})
        Place(p) == Cardinality({q \in affected : q < p /\
                        KeepsRow(op, members, affected, removed, q)})
    IN  Done([i \in DOMAIN kept |->
                IF kept[i] \in affected THEN mini.table[Place(kept[i])]
                ELSE base.table[kept[i]]],
             [kind |-> "Group", len |-> Height(kept),
              members |-> [i \in DOMAIN kept |->
                IF kept[i] \in affected
                THEN mini.lineage.members[Place(kept[i])]
                ELSE members[kept[i]]]])
Derived(method, execution) ==
    IF execution.ok
    THEN [ok |-> TRUE, method |-> method, execution |-> execution]
    ELSE Failed

\* The part of exclude that recomputes the affected groups only.
Incremental(plan, base, a, removed, affected) ==
    LET members == base.steps[a].members
        mini == AggregateSubset(plan, a, base.tables[a - 1],
                                Survivors(members, affected, removed))
        new == Interleaved(plan[a], Done(base.tables[a], base.steps[a]), mini,
                           affected, removed)
    IN  IF mini.ok
        THEN RerunFrom(plan, base, a, new.table, new.lineage)
        ELSE Failed

\* exclude: `base` re-derived without the snapshot rows `rows`.
Exclude(plan, base, rows) ==
    LET a == TheAggregate(plan)
        removed == Forward(base.steps, rows, a - 1)
        affected == Forward(base.steps, rows, a)
    IN  IF rows = {} THEN Derived("unchanged", base)
        ELSE IF ~ IncrementalShape(plan)
        THEN Derived("rerun", Execute(plan, rows))
        ELSE IF removed = {} THEN Derived("unchanged", base)
        ELSE Derived("incremental",
                     Incremental(plan, base, a, removed, affected))

----------------------------------------------------------------------------
(* contributions, for one row of the output.                               *)

\* Where member m's number is among the sorted numbers of M.
RankOf(t, M, m) ==
    Cardinality({x \in Present(t, M) :
                    t[x].n < t[m].n \/ (t[x].n = t[m].n /\ x < m)})

\* s without its entry at `rank`.
SkipRank(s, rank) ==
    [k \in 0 .. Height(s) - 2 |-> IF k < rank THEN s[k] ELSE s[k + 1]]

SumWithout(t, M, m) ==
    LET total == SumOf(t, M)
        present == Present(t, M)
        s == IF m \in present THEN total - t[m].n ELSE total
    IN  IF present \ {m} = {} THEN Missing ELSE IF Fits(s) THEN s ELSE Missing

\* extreme_without: only removing the extreme itself changes it.
ExtremeWithout(s, best, second, rank) ==
    IF rank # best THEN s[best]
    ELSE IF second \in DOMAIN s THEN s[second] ELSE Missing

\* Mutant of PercentileWithout: the value at the removed rank is still picked.
PercentileWithout_OffByOne(s, p, rank) ==
    LET rest == Height(s) - 1
        r == PercentileRank(rest, p)
    IN  IF rest = 0 THEN Missing ELSE s[IF r <= rank THEN r ELSE r + 1]

PercentileWithout(s, p, rank) ==
    LET rest == Height(s) - 1
        r == PercentileRank(rest, p)
    IN  IF rest = 0 THEN Missing ELSE s[IF r < rank THEN r ELSE r + 1]

\* What the number becomes without member m of the group M of the
\* aggregate's input t.
Without(op, t, M, m) ==
    LET s == SortedNumbers(t, M)
        n == Height(s)
        rank == RankOf(t, M, m)
    IN  CASE op.func = "count" -> Cardinality(M) - 1
          [] op.func = "count_non_null" -> Cardinality(Present(t, M) \ {m})
          [] op.func = "sum" -> SumWithout(t, M, m)
          [] OTHER ->
                IF t[m].n = Missing THEN AggValue(op, t, M)
                ELSE CASE op.func = "median" -> MedianOfSorted(SkipRank(s, rank))
                       [] op.func = "min" -> ExtremeWithout(s, 0, 1, rank)
                       [] op.func = "max" -> ExtremeWithout(s, n - 1, n - 2, rank)
                       [] op.func = "percentile" -> PercentileWithout(s, op.p, rank)

\* The aggregate's group behind row `row` of the output.
GroupBehind(plan, base, row) ==
    CHOOSE g \in Backward(base.steps, OutputNode(plan), {row},
                          TheAggregate(plan)) : TRUE

\* One record per member: the snapshot row behind it, the number without it,
\* and whether the group goes with it.
Contributions(plan, base, row) ==
    LET a == TheAggregate(plan)
        M == base.steps[a].members[GroupBehind(plan, base, row)]
    IN  {[source_row |-> CHOOSE r \in SourceRows(base.steps, a - 1, {m}) : TRUE,
          without |-> Without(plan[a], base.tables[a - 1], M, m),
          removes_group |-> plan[a].grouped /\ Cardinality(M) = 1] : m \in M}
=============================================================================
