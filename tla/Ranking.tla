------------------------------- MODULE Ranking -------------------------------
(***************************************************************************)
(* Sets put in order.                                                      *)
(***************************************************************************)
EXTENDS Integers, FiniteSets

\* The elements of S from the first to the last, numbered from 0.
Ranked(S, Before(_, _)) ==
    [i \in 0 .. Cardinality(S) - 1 |->
        CHOOSE x \in S : Cardinality({y \in S : Before(y, x)}) = i]

Ascending(S) == Ranked(S, LAMBDA x, y : x < y)
=============================================================================
