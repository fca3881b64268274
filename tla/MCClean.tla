------------------------------- MODULE MCClean -------------------------------
(***************************************************************************)
(* Source rows that meet every rule: a key twice with the same values, one  *)
(* with conflicting copies of which one is also out of scope, the same     *)
(* record fetched twice, values to trim and to make null, records without  *)
(* a key, and an array in a record that has one and in one that hasn't.    *)
(***************************************************************************)
EXTENDS Clean

CONSTANTS none, bad, array

Rec(id, key, created, closed, text, location) ==
    [id |-> id, key |-> key, created |-> created, closed |-> closed,
     text |-> text, location |-> location]

Plain(v) == [value |-> v, padded |-> FALSE]
Padded(v) == [value |-> v, padded |-> TRUE]

MCRaw == <<
    Rec(1, 7, 3, 4, Padded(2), <<5, 5>>),
    Rec(2, 7, 3, 4, Padded(2), <<5, 5>>),
    Rec(3, 6, 1, bad, Plain(1), <<5, none>>),
    Rec(3, 6, 1, bad, Plain(1), <<5, none>>),
    Rec(4, 5, 3, none, Plain(0), <<none, none>>),
    Rec(5, 4, 2, none, Plain(1), <<5, 5>>),
    Rec(6, 4, 9, none, Plain(1), <<5, 5>>),
    Rec(7, none, 2, none, Plain(3), <<5, 5>>),
    Rec(8, 3, bad, bad, Plain(3), <<bad, 5>>),
    Rec(9, 2, 9, none, none, <<5, 5>>),
    Rec(10, 1, 2, none, array, <<5, 5>>),
    Rec(11, bad, 2, none, array, <<5, 5>>)
>>

MCInputs == {{1, 2, 3, 5, 8, 9}, {3, 4, 5, 6, 7, 8}, {1, 3, 5, 6, 9, 11}, {1, 6, 8, 10, 12}, {}}

\* Later ids have smaller fingerprints.
MCFingerprint(c) == 20 - c.id
=============================================================================
