--------------------------- MODULE MCForwardTrace ---------------------------
(***************************************************************************)
(* Two plans in one store: a scan of 4 rows, filtered to rows 1 2 3, sorted *)
(* to 3 1 2, grouped into {3, 2}, {} and {1}, limited to 2 groups; and a   *)
(* scan without row 1 of 3 snapshot rows, grouped with one row in no group. *)
(***************************************************************************)
EXTENDS ForwardTrace, TLC

CONSTANTS none

MCSteps ==
    0 :> [kind |-> "Source", len |-> 4] @@
    1 :> [kind |-> "Select", len |-> 3, rows |-> (0 :> 1 @@ 1 :> 2 @@ 2 :> 3)] @@
    2 :> [kind |-> "Select", len |-> 3, rows |-> (0 :> 2 @@ 1 :> 0 @@ 2 :> 1)] @@
    3 :> [kind |-> "Group", len |-> 3,
          members |-> (0 :> {0, 2} @@ 1 :> {} @@ 2 :> {1})] @@
    4 :> [kind |-> "Identity", len |-> 2] @@
    5 :> [kind |-> "SourceSubset", len |-> 2, source_len |-> 3,
          rows |-> (0 :> 0 @@ 1 :> 2)] @@
    6 :> [kind |-> "Group", len |-> 1, members |-> (0 :> {1})]

MCInputs == 0 :> none @@ 1 :> 0 @@ 2 :> 1 @@ 3 :> 2 @@ 4 :> 3 @@ 5 :> none @@ 6 :> 5

Question(s, r, n) == [scan |-> s, rows |-> r, node |-> n]

\* Rows kept, filtered out, cut by the limit, excluded, past the snapshot's
\* end; and the two misuses that panic.
MCQuestions ==
    {Question(0, {0, 3, 9}, 4), Question(0, {1}, 4), Question(0, {1, 2}, 3),
     Question(5, {0, 1, 2, 7}, 6), Question(0, {1}, 6), Question(1, {1}, 4)}
=============================================================================
