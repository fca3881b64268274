---------------------------- MODULE MCTraceCache ----------------------------
(***************************************************************************)
(* Two plans in one store: a scan of 4 rows, filtered to rows 1 2 3, sorted *)
(* to 3 1 2, grouped into {3, 2}, {} and {1}, limited to 2 groups; and a   *)
(* scan without row 1 of 3 snapshot rows, grouped with one row in no group. *)
(***************************************************************************)
EXTENDS TraceCache, TLC

CONSTANTS none

MCSteps ==
    0 :> [kind |-> "Source", len |-> 4] @@
    1 :> [kind |-> "Select", len |-> 3, rows |-> (0 :> 1 @@ 1 :> 2 @@ 2 :> 3)] @@
    2 :> [kind |-> "Select", len |-> 3, rows |-> (0 :> 2 @@ 1 :> 0 @@ 2 :> 1)] @@
    3 :> [kind |-> "Group", len |-> 3,
          members |-> (0 :> {0, 2} @@ 1 :> {} @@ 2 :> {1})] @@
    4 :> [kind |-> "Identity", len |-> 2] @@
    5 :> [kind |-> "SourceSubset", len |-> 2, source_len |-> 3,
          rows |-> (0 :> 0 @@ 1 :> 2)] @@
    6 :> [kind |-> "Group", len |-> 1, members |-> (0 :> {1})]

MCInputs == 0 :> none @@ 1 :> 0 @@ 2 :> 1 @@ 3 :> 2 @@ 4 :> 3 @@ 5 :> none @@ 6 :> 5

Click(n, r) == [node |-> n, row |-> r]

\* A group behind a limit, an empty group, a group of a partial scan and a
\* row that does not exist.
MCClicks == {Click(4, 0), Click(4, 1), Click(6, 0), Click(6, 1)}
=============================================================================
