---------------------------- MODULE TraceService ----------------------------
(***************************************************************************)
(* What LineageStore::backward_row promises its callers: a click on a row  *)
(* of a step is answered once, by the trace of that row, and a row that    *)
(* does not exist panics.  Nothing is said of caches, loops or locks.      *)
(***************************************************************************)
CONSTANTS
    Thread,
    Clicks,         \* what threads ask for
    InRange(_),     \* whether a click names a row that exists
    IsTrace(_, _)   \* IsTrace(k, p): p is the trace of click k

VARIABLES
    status,   \* status[t] \in {"idle", "asked", "answered", "panicked"}
    key,      \* the click of t
    answer    \* the last trace t was given

Init ==
    /\ status = [t \in Thread |-> "idle"]
    /\ key \in [Thread -> Clicks]
    /\ answer = [t \in Thread |-> << >>]

Ask(t) ==
    /\ status[t] = "idle"
    /\ status' = [status EXCEPT ![t] = "asked"]
    /\ \E k \in Clicks : key' = [key EXCEPT ![t] = k]
    /\ UNCHANGED answer

Reply(t) ==
    /\ status[t] = "asked"
    /\ InRange(key[t])
    /\ status' = [status EXCEPT ![t] = "answered"]
    /\ answer' = [answer EXCEPT ![t] = answer'[t]]
    /\ IsTrace(key[t], answer'[t])
    /\ UNCHANGED key

Refuse(t) ==
    /\ status[t] = "asked"
    /\ ~ InRange(key[t])
    /\ status' = [status EXCEPT ![t] = "panicked"]
    /\ UNCHANGED <<key, answer>>

Return(t) ==
    /\ status[t] = "answered"
    /\ status' = [status EXCEPT ![t] = "idle"]
    /\ UNCHANGED <<key, answer>>

Next == \E t \in Thread : Ask(t) \/ Reply(t) \/ Refuse(t) \/ Return(t)

vars == <<status, key, answer>>

Spec == Init /\ [][Next]_vars
=============================================================================
