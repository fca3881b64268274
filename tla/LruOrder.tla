------------------------------ MODULE LruOrder ------------------------------
(***************************************************************************)
(* What receipts-lineage's Lru promises to the threads that share it: the  *)
(* keys it holds, most recently used first, without stamps.                *)
(***************************************************************************)
EXTENDS Integers, Sequences

CONSTANTS Thread, Keys, Capacity, NoCall

VARIABLES
    recency,  \* the keys held
    call      \* the call each thread is about to make, [op, key] or NoCall

Held(k) == \E i \in DOMAIN recency : recency[i] = k

PlaceOf(k) == CHOOSE i \in DOMAIN recency : recency[i] = k

\* The keys other than k.
Without(k) ==
    IF Held(k) THEN SubSeq(recency, 1, PlaceOf(k) - 1)
                        \o SubSeq(recency, PlaceOf(k) + 1, Len(recency))
    ELSE recency

Init == recency = << >> /\ call = [t \in Thread |-> NoCall]

Calling(t, op, k) ==
    /\ call[t] = NoCall
    /\ call' = [call EXCEPT ![t] = [op |-> op, key |-> k]]
    /\ UNCHANGED recency

Done(t, op, k) ==
    /\ call[t] = [op |-> op, key |-> k]
    /\ call' = [call EXCEPT ![t] = NoCall]

\* `get`: a key that is held becomes the newest.
Get(t, k) ==
    /\ Done(t, "get", k)
    /\ recency' = IF Held(k) THEN <<k>> \o Without(k) ELSE recency

\* `insert`: the key is now the newest, and the oldest makes room for it.
Put(t, k) ==
    /\ Done(t, "put", k)
    /\ recency' = SubSeq(<<k>> \o Without(k), 1,
                         IF Len(Without(k)) < Capacity
                         THEN Len(Without(k)) + 1 ELSE Capacity)

Next == \E t \in Thread, k \in Keys :
    Calling(t, "get", k) \/ Calling(t, "put", k) \/ Get(t, k) \/ Put(t, k)

Spec == Init /\ [][Next]_<<recency, call>>
=============================================================================
