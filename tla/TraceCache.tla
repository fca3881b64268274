----------------------------- MODULE TraceCache -----------------------------
(***************************************************************************)
(* LineageStore::backward_row and the LRU it caches traces in              *)
(* (receipts-lineage/src/lib.rs and lru.rs), called by several threads.    *)
(*                                                                         *)
(* The cache's mutex is held for one `get` and, later, for one `insert`;   *)
(* the trace itself is composed in between with no lock held, one step of  *)
(* the plan per iteration.  Lookup and Insert are therefore atomic, Walk   *)
(* is one iteration, and two threads may compose the same trace.           *)
(***************************************************************************)
EXTENDS StepLineage, FiniteSets, Ranking

CONSTANTS
    Thread,
    Clicks,      \* the [node, row] keys threads ask for
    Capacity,    \* TRACE_CACHE_ENTRIES
    MaxAsks      \* bound: clicks per thread

ASSUME CacheAssumption ==
    /\ Capacity \in Nat \ {0}
    /\ MaxAsks \in Nat
    /\ Clicks \subseteq [node : Node, row : Nat]

VARIABLES
    entries,  \* the LRU's map: key -> [trace, used]
    clock,    \* the LRU's clock
    pc,       \* where in backward_row each thread is
    key,      \* the key it asked for
    at,       \* backward's loop: the step it has reached,
    rows,     \*   that step's rows behind the clicked row,
    path,     \*   and the path so far
    answer,   \* the last trace the thread was given
    asked     \* clicks so far

vars == <<entries, clock, pc, key, at, rows, path, answer, asked>>

TraceSteps == [node : Node, rows : SUBSET AllRows]

Service == INSTANCE TraceService WITH
    status <- [t \in Thread |->
                 IF pc[t] \in {"lookup", "start", "walk", "insert"}
                 THEN "asked" ELSE pc[t]]

\* The LRU's keys, most recently used first.
Recency ==
    LET order == Ranked(DOMAIN entries,
                        LAMBDA j, k : entries[j].used > entries[k].used)
    IN  [i \in 1 .. Cardinality(DOMAIN entries) |-> order[i - 1]]

NoCall == [op |-> "none"]

\* The call of the LRU that a thread is about to make.
NextCall(t) ==
    CASE pc[t] = "lookup" -> [op |-> "get", key |-> key[t]]
      [] pc[t] = "insert" -> [op |-> "put", key |-> key[t]]
      [] OTHER -> NoCall

Order == INSTANCE LruOrder WITH
    recency <- Recency, call <- [t \in Thread |-> NextCall(t)], Keys <- Clicks

----------------------------------------------------------------------------
(* The LRU, lru.rs.                                                        *)

\* Mutants of Touched: a get that does not stamp what it finds, and one that
\* stamps it with the clock of the call before.
Touched_Unstamped(k) == entries

Touched_OldClock(k) ==
    [entries EXCEPT ![k] = [trace |-> entries[k].trace, used |-> clock]]

\* Lru::get of a key that is present: stamp it with the bumped clock.
Touched(k) ==
    [entries EXCEPT ![k] = [trace |-> entries[k].trace, used |-> clock + 1]]

\* The entry that `min_by_key(used)` finds.
Oldest == CHOOSE k \in DOMAIN entries :
              \A j \in DOMAIN entries : entries[k].used <= entries[j].used

\* Mutant of Evicted: room is made one entry too late.
Evicted_TooLate(k) ==
    IF k \notin DOMAIN entries /\ Cardinality(DOMAIN entries) > Capacity
    THEN {Oldest} ELSE {}

\* Lru::insert: make room only for a new key, then write it.
Evicted(k) ==
    IF k \notin DOMAIN entries /\ Cardinality(DOMAIN entries) >= Capacity
    THEN {Oldest} ELSE {}

Inserted(k, trace) ==
    [j \in (DOMAIN entries \ Evicted(k)) \cup {k} |->
        IF j = k THEN [trace |-> trace, used |-> clock + 1] ELSE entries[j]]

----------------------------------------------------------------------------
Init ==
    /\ entries = [k \in {} |-> 0]
    /\ clock = 0
    /\ pc = [t \in Thread |-> "idle"]
    /\ key \in [Thread -> Clicks]
    /\ at = [t \in Thread |-> key[t].node]
    /\ rows = [t \in Thread |-> {}]
    /\ path = [t \in Thread |-> << >>]
    /\ answer = [t \in Thread |-> << >>]
    /\ asked = [t \in Thread |-> 0]

\* A caller asks for a row of a step.
Ask(t) ==
    /\ pc[t] = "idle"
    /\ asked[t] < MaxAsks
    /\ \E k \in Clicks : key' = [key EXCEPT ![t] = k]
    /\ pc' = [pc EXCEPT ![t] = "lookup"]
    /\ asked' = [asked EXCEPT ![t] = @ + 1]
    /\ UNCHANGED <<entries, clock, at, rows, path, answer>>

\* Mutant of Hit: the cached trace is found but not returned.
Hit_StaleAnswer(t) ==
    /\ pc[t] = "lookup"
    /\ key[t] \in DOMAIN entries
    /\ clock' = clock + 1
    /\ entries' = Touched(key[t])
    /\ pc' = [pc EXCEPT ![t] = "answered"]
    /\ UNCHANGED <<key, at, rows, path, answer, asked>>

\* `self.cache.lock().get(&key)`, found: the cached trace is the answer.
Hit(t) ==
    /\ pc[t] = "lookup"
    /\ key[t] \in DOMAIN entries
    /\ clock' = clock + 1
    /\ entries' = Touched(key[t])
    /\ answer' = [answer EXCEPT ![t] = entries[key[t]].trace]
    /\ pc' = [pc EXCEPT ![t] = "answered"]
    /\ UNCHANGED <<key, at, rows, path, asked>>

\* The same call, not found: the clock moves on all the same.
Miss(t) ==
    /\ pc[t] = "lookup"
    /\ key[t] \notin DOMAIN entries
    /\ clock' = clock + 1
    /\ pc' = [pc EXCEPT ![t] = "start"]
    /\ UNCHANGED <<entries, key, at, rows, path, answer, asked>>

\* Mutant of Start: the path of the call before is kept.
Start_StalePath(t) ==
    /\ pc[t] = "start"
    /\ InRange(key[t])
    /\ at' = [at EXCEPT ![t] = key[t].node]
    /\ rows' = [rows EXCEPT ![t] = {key[t].row}]
    /\ pc' = [pc EXCEPT ![t] = "walk"]
    /\ UNCHANGED <<entries, clock, key, path, answer, asked>>

\* backward's assertion that the row exists, and the state its loop starts in.
Start(t) ==
    /\ pc[t] = "start"
    /\ InRange(key[t])
    /\ at' = [at EXCEPT ![t] = key[t].node]
    /\ rows' = [rows EXCEPT ![t] = {key[t].row}]
    /\ path' = [path EXCEPT ![t] = << >>]
    /\ pc' = [pc EXCEPT ![t] = "walk"]
    /\ UNCHANGED <<entries, clock, key, answer, asked>>

\* The assertion fails: the call panics, with no lock held.
RangePanic(t) ==
    /\ pc[t] = "start"
    /\ ~ InRange(key[t])
    /\ pc' = [pc EXCEPT ![t] = "panicked"]
    /\ UNCHANGED <<entries, clock, key, at, rows, path, answer, asked>>

\* Mutant of Walk: the loop does not stop at a scan.
Walk_PastScan(t) ==
    /\ pc[t] = "walk"
    /\ path' = [path EXCEPT ![t] = Append(@, [node |-> at[t], rows |-> rows[t]])]
    /\ rows' = [rows EXCEPT ![t] = StepBack(at[t], @)]
    /\ at' = [at EXCEPT ![t] = Inputs[@]]
    /\ UNCHANGED <<entries, clock, pc, key, answer, asked>>

\* One iteration of backward's loop, at a step that reads another.
Walk(t) ==
    /\ pc[t] = "walk"
    /\ ~ IsScan(at[t])
    /\ path' = [path EXCEPT ![t] = Append(@, [node |-> at[t], rows |-> rows[t]])]
    /\ rows' = [rows EXCEPT ![t] = StepBack(at[t], @)]
    /\ at' = [at EXCEPT ![t] = Inputs[@]]
    /\ UNCHANGED <<entries, clock, pc, key, answer, asked>>

\* Mutants of WalkScan: the scan's entry lists positions in the subset, and a
\* partial scan is not recognised as the end.
WalkScan_Positions(t) ==
    /\ pc[t] = "walk"
    /\ IsScan(at[t])
    /\ path' = [path EXCEPT ![t] = Append(@, [node |-> at[t], rows |-> rows[t]])]
    /\ pc' = [pc EXCEPT ![t] = "insert"]
    /\ UNCHANGED <<entries, clock, key, at, rows, answer, asked>>

WalkScan_SourceOnly(t) ==
    /\ pc[t] = "walk"
    /\ Steps[at[t]].kind = "Source"
    /\ path' = [path EXCEPT ![t] =
                  Append(@, [node |-> at[t], rows |-> StepBack(at[t], rows[t])])]
    /\ pc' = [pc EXCEPT ![t] = "insert"]
    /\ UNCHANGED <<entries, clock, key, at, rows, answer, asked>>

\* The last iteration: the scan's entry lists snapshot rows.
WalkScan(t) ==
    /\ pc[t] = "walk"
    /\ IsScan(at[t])
    /\ path' = [path EXCEPT ![t] =
                  Append(@, [node |-> at[t], rows |-> StepBack(at[t], rows[t])])]
    /\ pc' = [pc EXCEPT ![t] = "insert"]
    /\ UNCHANGED <<entries, clock, key, at, rows, answer, asked>>

\* `self.cache.lock().insert(key, trace.clone())`, and the trace is returned.
Insert(t) ==
    /\ pc[t] = "insert"
    /\ clock' = clock + 1
    /\ entries' = Inserted(key[t], path[t])
    /\ answer' = [answer EXCEPT ![t] = path[t]]
    /\ pc' = [pc EXCEPT ![t] = "answered"]
    /\ UNCHANGED <<key, at, rows, path, asked>>

\* The caller has its answer and may ask again.
Return(t) ==
    /\ pc[t] = "answered"
    /\ pc' = [pc EXCEPT ![t] = "idle"]
    /\ UNCHANGED <<entries, clock, key, at, rows, path, answer, asked>>

\* What a thread inside backward_row does next, on its own.
Run(t) ==
    \/ Hit(t) \/ Miss(t) \/ Start(t) \/ RangePanic(t)
    \/ Walk(t) \/ WalkScan(t) \/ Insert(t) \/ Return(t)

Next == \E t \in Thread : Ask(t) \/ Run(t)

\* A thread inside a call keeps being scheduled, and the mutex is never held
\* across a step; nothing makes a caller ask.
Fairness == \A t \in Thread : WF_vars(Run(t))

Spec == Init /\ [][Next]_vars

FairSpec == Spec /\ Fairness

----------------------------------------------------------------------------
PCs == {"idle", "lookup", "start", "walk", "insert", "answered", "panicked"}

\* Type correctness of the store's cache and of every caller's locals.
TypeOK ==
    /\ DOMAIN entries \subseteq Clicks
    /\ \A k \in DOMAIN entries :
          entries[k] \in [trace : Seq(TraceSteps), used : Nat]
    /\ clock \in Nat
    /\ pc \in [Thread -> PCs]
    /\ key \in [Thread -> Clicks]
    /\ at \in [Thread -> Node]
    /\ rows \in [Thread -> SUBSET AllRows]
    /\ path \in [Thread -> Seq(TraceSteps)]
    /\ answer \in [Thread -> Seq(TraceSteps)]
    /\ asked \in [Thread -> 0 .. MaxAsks]

\* Every cached trace is the true trace of its key, whichever thread put it
\* there and whatever was evicted in the meantime (backward_row).
CacheCoherent ==
    \A k \in DOMAIN entries : IsTrace(k, entries[k].trace)

\* A caller is given the rows its number is made of, at every step down to
\* the snapshot: all of them and no others, from the cache or composed.
AnswersCorrect ==
    \A t \in Thread :
        pc[t] = "answered" => IsTrace(key[t], answer[t])

\* The cache never outgrows its capacity, however threads interleave their
\* lookups and inserts (Lru::insert checks room and inserts under one lock).
CacheBounded == Cardinality(DOMAIN entries) <= Capacity

\* No two entries carry the same stamp, so the entry evicted is the one used
\* longest ago and never depends on the order a HashMap iterates in.
StampsDistinct ==
    /\ \A j, k \in DOMAIN entries : entries[j].used = entries[k].used => j = k
    /\ \A k \in DOMAIN entries : entries[k].used <= clock

\* Callers cannot tell the cached, unlocked, step-by-step backward_row from
\* one that answers atomically with the true trace.
ImplementsService == Service!Spec

\* The stamped map behaves as a list of keys in order of use: a hit moves a
\* key to the front, an insert puts it there and drops the last key when the
\* list is full (Lru::get and Lru::insert implement an LRU).
ImplementsLruOrder == Order!Spec

\* A call comes back, or has panicked on a row that does not exist.
CallsReturn ==
    \A t \in Thread :
        (pc[t] = "lookup") ~> (pc[t] \in {"answered", "panicked"})
=============================================================================
