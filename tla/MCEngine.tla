------------------------------ MODULE MCEngine ------------------------------
(***************************************************************************)
(* A snapshot of six complaints, with ties, a missing value and a value    *)
(* that filters drop, and plans over it that take each of exclude's paths;  *)
(* a second snapshot whose sum only fits because a negative number         *)
(* balances it.                                                            *)
(***************************************************************************)
EXTENDS Engine, Sequences, TLC

CONSTANTS none, nobase

MCMissing == -99

Rows(s) == [i \in 0 .. Len(s) - 1 |-> [k |-> s[i + 1][1], n |-> s[i + 1][2], v |-> i]]

MCSnapshot ==
    "calls" :> Rows(<< <<1, 5>>, <<2, 3>>, <<1, -99>>, <<2, 5>>, <<3, -2>>, <<1, 3>> >>) @@
    "sums"  :> Rows(<< <<1, 5>>, <<1, 7>>, <<1, -7>>, <<2, 3>> >>)

Steps(s) == [i \in 0 .. Len(s) - 1 |-> s[i + 1]]

Scanned(s) == [op |-> "scan", snapshot |-> s]
AtLeast(c) == [op |-> "filter", least |-> c]
By(c, d) == [op |-> "sort", by |-> c, descending |-> d]
First(c) == [op |-> "limit", count |-> c]
Grouped(f) == [op |-> "aggregate", grouped |-> TRUE, func |-> f, p |-> 50]
Overall(f) == [op |-> "aggregate", grouped |-> FALSE, func |-> f, p |-> 50]
Mapped == [op |-> "map"]
Projected == [op |-> "project"]

\* Recomputed by group: a ranking, a single number, a filter on medians, and
\* percentiles of a new column.
TopGroups == Steps(<<Scanned("calls"), AtLeast(0), By("n", TRUE), Grouped("count"),
                     By("n", TRUE), First(2)>>)
OneNumber == Steps(<<Scanned("calls"), AtLeast(4), Overall("max")>>)
Medians == Steps(<<Scanned("calls"), Projected, Grouped("median"), AtLeast(8)>>)
Percentiles == Steps(<<Scanned("calls"), Mapped, By("k", FALSE), Grouped("percentile")>>)
Minima == Steps(<<Scanned("calls"), Grouped("min")>>)
PresentCounts == Steps(<<Scanned("calls"), Grouped("count_non_null"), Mapped>>)

\* Run again: a limit first, two aggregates, no aggregate.
Cut == Steps(<<Scanned("calls"), First(3), Grouped("count")>>)
Twice == Steps(<<Scanned("calls"), Grouped("count"), Overall("max")>>)
Listed == Steps(<<Scanned("calls"), AtLeast(3), First(2)>>)

Sums == Steps(<<Scanned("sums"), Grouped("sum")>>)

PathPlans == {TopGroups, OneNumber, Medians, Percentiles, Minima, PresentCounts,
              Cut, Twice, Listed, Sums}
TwoPlans == {TopGroups, Sums}
SumPlans == {Sums}

\* Nothing, single rows, rows that empty a group, rows past the end, all.
PathRows == {{}, {0}, {1, 3}, {2, 4}, {5, 9}, {0, 1, 2, 5}, 0 .. 5}
FewRows == {{0}, {1, 3}}
=============================================================================
