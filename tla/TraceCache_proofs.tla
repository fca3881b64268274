-------------------------- MODULE TraceCache_proofs --------------------------
(***************************************************************************)
(* Proofs about TraceCache, for any store, any threads and any capacity:   *)
(* types, the LRU's stamps, that cached and returned traces are the true   *)
(* ones, and that backward_row implements TraceService.                    *)
(***************************************************************************)
EXTENDS TraceCache, StepLineage_proofs, SequenceTheorems

LEMMA ClickTypes ==
    ASSUME NEW k \in Clicks
    PROVE  k.node \in Node /\ k.row \in Nat
BY CacheAssumption

LEMMA StepBackType ==
    ASSUME NEW n \in Node, NEW R \in SUBSET OutRows(n)
    PROVE  StepBack(n, R) \in SUBSET AllRows
BY StepBackInRange, RowsAreRows

\* The rows of the walk are rows of the step it is at.
WalkRowsInStep ==
    \A t \in Thread : pc[t] = "walk" => rows[t] \subseteq OutRows(at[t])

TypeInv == TypeOK /\ WalkRowsInStep

\* Type correctness, with the one fact about the walk it needs.
LEMMA TypeInvStep == TypeInv /\ [Next]_vars => TypeInv'
<1> SUFFICES ASSUME TypeInv, [Next]_vars PROVE TypeInv'
  OBVIOUS
<1> USE DEF TypeInv, TypeOK, PCs
<1>1. ASSUME NEW t \in Thread, Ask(t) PROVE TypeInv'
  BY <1>1, CacheAssumption DEF Ask, WalkRowsInStep
<1>2. ASSUME NEW t \in Thread, Hit(t) PROVE TypeInv'
  BY <1>2 DEF Hit, Touched, WalkRowsInStep
<1>3. ASSUME NEW t \in Thread, Miss(t) PROVE TypeInv'
  BY <1>3 DEF Miss, WalkRowsInStep
<1>4. ASSUME NEW t \in Thread, Start(t) PROVE TypeInv'
  <2>1. key[t].node \in Node /\ key[t].row \in OutRows(key[t].node)
    BY <1>4, ClickTypes DEF Start, InRange
  <2>2. key[t].row \in AllRows  BY <2>1, RowsAreRows
  <2>3. TypeOK'  BY <1>4, <2>1, <2>2 DEF Start
  <2>4. WalkRowsInStep'  BY <1>4, <2>1 DEF Start, WalkRowsInStep, OutRows
  <2> QED BY <2>3, <2>4
<1>5. ASSUME NEW t \in Thread, RangePanic(t) PROVE TypeInv'
  BY <1>5 DEF RangePanic, WalkRowsInStep
<1>6. ASSUME NEW t \in Thread, Walk(t) PROVE TypeInv'
  <2>1. at[t] \in Node /\ ~ IsScan(at[t]) /\ rows[t] \subseteq OutRows(at[t])
    BY <1>6 DEF Walk, WalkRowsInStep
  <2>2. Inputs[at[t]] \in Node
        /\ StepBack(at[t], rows[t]) \subseteq OutRows(Inputs[at[t]])
        /\ StepBack(at[t], rows[t]) \in SUBSET AllRows
    <3>1. Inputs[at[t]] \in Node /\ InRows(at[t]) = OutRows(Inputs[at[t]])
      BY <2>1, InputsAreNodes
    <3>2. rows[t] \in SUBSET OutRows(at[t])  BY <2>1
    <3>3. StepBack(at[t], rows[t]) \subseteq InRows(at[t])
      BY <2>1, <3>2, StepBackInRange
    <3>4. StepBack(at[t], rows[t]) \in SUBSET AllRows
      BY <2>1, <3>2, StepBackType
    <3> QED BY <3>1, <3>3, <3>4
  <2>3. [node |-> at[t], rows |-> rows[t]] \in TraceSteps
    BY <2>1 DEF TraceSteps
  <2>4. path' \in [Thread -> Seq(TraceSteps)]  BY <1>6, <2>3 DEF Walk
  <2>5. TypeOK'  BY <1>6, <2>2, <2>4 DEF Walk
  <2>6. WalkRowsInStep'
    BY <1>6, <2>2 DEF Walk, WalkRowsInStep, OutRows
  <2> QED BY <2>5, <2>6
<1>7. ASSUME NEW t \in Thread, WalkScan(t) PROVE TypeInv'
  <2>1. at[t] \in Node /\ rows[t] \subseteq OutRows(at[t])
    BY <1>7 DEF WalkScan, WalkRowsInStep
  <2>2. [node |-> at[t], rows |-> StepBack(at[t], rows[t])] \in TraceSteps
    BY <2>1, StepBackType DEF TraceSteps
  <2>3. path' \in [Thread -> Seq(TraceSteps)]  BY <1>7, <2>2 DEF WalkScan
  <2> QED BY <1>7, <2>3 DEF WalkScan, WalkRowsInStep
<1>8. ASSUME NEW t \in Thread, Insert(t) PROVE TypeInv'
  <2>1. DOMAIN entries' \subseteq Clicks
        /\ \A k \in DOMAIN entries' :
              entries'[k] \in [trace : Seq(TraceSteps), used : Nat]
    BY <1>8 DEF Insert, Inserted
  <2> QED BY <1>8, <2>1 DEF Insert, WalkRowsInStep
<1>9. ASSUME NEW t \in Thread, Return(t) PROVE TypeInv'
  BY <1>9 DEF Return, WalkRowsInStep
<1>10. CASE UNCHANGED vars
  BY <1>10 DEF vars, WalkRowsInStep
<1> QED
  BY <1>1, <1>2, <1>3, <1>4, <1>5, <1>6, <1>7, <1>8, <1>9, <1>10
  DEF Next, Run

LEMMA TypeInvHolds == Spec => []TypeInv
<1>1. Init => TypeInv
  <2> SUFFICES ASSUME Init PROVE TypeInv  OBVIOUS
  <2>1. \A t \in Thread : at[t] \in Node  BY ClickTypes DEF Init
  <2> QED BY <2>1, CacheAssumption DEF Init, TypeInv, TypeOK, WalkRowsInStep, PCs
<1> QED BY <1>1, TypeInvStep, PTL DEF Spec

\* Type correctness of the cache and of every thread's locals.
THEOREM TypeCorrect == Spec => []TypeOK
<1>1. TypeInv => TypeOK  BY DEF TypeInv
<1> QED BY <1>1, TypeInvHolds, PTL

----------------------------------------------------------------------------
(***************************************************************************)
(* The walk, as facts about constants.  OnWay(k, p, a, R): after the       *)
(* entries p, backward of key k stands at step a with the rows R.          *)
(***************************************************************************)
Chain(p, a) ==
    [i \in 1 .. Len(p) + 1 |-> IF i <= Len(p) THEN p[i].node ELSE a]

OnWay(k, p, a, R) ==
    /\ InRange(k)
    /\ Chain(p, a)[1] = k.node
    /\ \A i \in 1 .. Len(p) :
          /\ ~ IsScan(Chain(p, a)[i])
          /\ Chain(p, a)[i + 1] = Inputs[Chain(p, a)[i]]
          /\ p[i].rows = Ancestors(Chain(p, a), {k.row}, i)
    /\ R = Ancestors(Chain(p, a), {k.row}, Len(p) + 1)

LEMMA OnWayStart ==
    ASSUME NEW k \in Clicks, InRange(k)
    PROVE  OnWay(k, << >>, k.node, {k.row})
<1>1. k.row \in AllRows  BY ClickTypes, RowsAreRows DEF InRange
<1>2. Ancestors(Chain(<< >>, k.node), {k.row}, 1) = {k.row}
  BY <1>1, AncestorsFirst
<1> QED BY <1>2 DEF OnWay, Chain

\* The chain after one more entry is the old chain and one step more.
LEMMA ChainGrows ==
    ASSUME NEW p \in Seq(TraceSteps), NEW a \in Node, NEW b \in Node,
           NEW R \in SUBSET AllRows
    PROVE  LET q == Append(p, [node |-> a, rows |-> R]) IN
           /\ Len(q) = Len(p) + 1
           /\ q[Len(q)] = [node |-> a, rows |-> R]
           /\ \A i \in 1 .. Len(p) : q[i] = p[i]
           /\ \A i \in 1 .. Len(p) + 1 : Chain(q, b)[i] = Chain(p, a)[i]
           /\ Chain(q, b)[Len(p) + 1] = a
           /\ Chain(q, b)[Len(p) + 2] = b
<1> DEFINE e == [node |-> a, rows |-> R]
           q == Append(p, e)
<1>1. e \in TraceSteps  BY DEF TraceSteps
<1>2. /\ Len(q) = Len(p) + 1
      /\ q[Len(q)] = e
      /\ \A i \in 1 .. Len(p) : q[i] = p[i]
  BY <1>1
<1>3. e.node = a  OBVIOUS
<1> HIDE DEF q, e
<1>4. Len(p) \in Nat  OBVIOUS
<1>5. \A i \in 1 .. Len(p) + 1 : Chain(q, b)[i] = Chain(p, a)[i]
  BY <1>2, <1>3, <1>4 DEF Chain
<1>6. Chain(q, b)[Len(p) + 1] = a /\ Chain(q, b)[Len(p) + 2] = b
  BY <1>2, <1>3, <1>4 DEF Chain
<1> QED BY <1>2, <1>5, <1>6 DEF q, e

LEMMA OnWayStep ==
    ASSUME NEW k, NEW p \in Seq(TraceSteps), NEW a \in Node,
           NEW R \in SUBSET OutRows(a), ~ IsScan(a), OnWay(k, p, a, R)
    PROVE  OnWay(k, Append(p, [node |-> a, rows |-> R]), Inputs[a], StepBack(a, R))
<1> DEFINE b == Inputs[a]
           q == Append(p, [node |-> a, rows |-> R])
           c == Chain(p, a)
           d == Chain(q, b)
           n == Len(p) + 1
<1>1. b \in Node /\ R \in SUBSET AllRows /\ n \in Nat \ {0}
  BY InputsAreNodes, RowsAreRows
<1>2. /\ Len(q) = n
      /\ q[n] = [node |-> a, rows |-> R]
      /\ \A i \in 1 .. Len(p) : q[i] = p[i]
      /\ \A i \in 1 .. n : d[i] = c[i]
      /\ d[n] = a /\ d[n + 1] = b
  BY <1>1, ChainGrows
<1> HIDE DEF q, d, b
<1>3. /\ InRange(k) /\ c[1] = k.node
      /\ R = Ancestors(c, {k.row}, n)
      /\ \A i \in 1 .. Len(p) : /\ ~ IsScan(c[i])
                               /\ c[i + 1] = Inputs[c[i]]
                               /\ p[i].rows = Ancestors(c, {k.row}, i)
  BY DEF OnWay
<1> HIDE DEF c
<1>4. \A i \in 1 .. n : Ancestors(d, {k.row}, i) = Ancestors(c, {k.row}, i)
  <2> SUFFICES ASSUME NEW i \in 1 .. n
               PROVE  Ancestors(d, {k.row}, i) = Ancestors(c, {k.row}, i)
    OBVIOUS
  <2>1. \A j \in 1 .. i - 1 : d[j] = c[j]  BY <1>1, <1>2
  <2> QED BY <2>1, <1>1, AncestorsAgree
<1>5. R = Ancestors(d, {k.row}, n)
  <2>1. n \in 1 .. n  BY <1>1
  <2> QED BY <2>1, <1>3, <1>4
<1>6. StepBack(a, R) = Ancestors(d, {k.row}, n + 1)
  <2>1. Ancestors(d, {k.row}, n) \subseteq OutRows(d[n])  BY <1>2, <1>5
  <2> QED BY <1>1, <1>2, <1>5, <2>1, AncestorsStep
<1>7. \A i \in 1 .. n : /\ ~ IsScan(d[i])
                        /\ d[i + 1] = Inputs[d[i]]
                        /\ q[i].rows = Ancestors(d, {k.row}, i)
  <2> SUFFICES ASSUME NEW i \in 1 .. n
               PROVE  /\ ~ IsScan(d[i])
                      /\ d[i + 1] = Inputs[d[i]]
                      /\ q[i].rows = Ancestors(d, {k.row}, i)
    OBVIOUS
  <2>1. CASE i = n  BY <2>1, <1>2, <1>5 DEF b
  <2>2. CASE i \in 1 .. Len(p)
    <3>1. i + 1 \in 1 .. n  BY <2>2, <1>1
    <3> QED BY <2>2, <3>1, <1>2, <1>3, <1>4
  <2> QED BY <2>1, <2>2, <1>1
<1>8. d[1] = k.node  BY <1>1, <1>2, <1>3
<1>9. d = Chain(q, b)  BY DEF d
<1>10. OnWay(k, q, b, StepBack(a, R))
  BY <1>2, <1>3, <1>6, <1>7, <1>8, <1>9 DEF OnWay
<1> QED BY <1>10 DEF q, b

LEMMA OnWayEnd ==
    ASSUME NEW k, NEW p \in Seq(TraceSteps), NEW a \in Node,
           NEW R \in SUBSET OutRows(a), IsScan(a), OnWay(k, p, a, R)
    PROVE  IsTrace(k, Append(p, [node |-> a, rows |-> StepBack(a, R)]))
<1> DEFINE S == StepBack(a, R)
           q == Append(p, [node |-> a, rows |-> S])
           c == Chain(p, a)
           n == Len(p) + 1
<1>1. S \in SUBSET AllRows /\ n \in Nat \ {0}  BY StepBackType
<1> HIDE DEF S
<1>2. /\ Len(q) = n
      /\ q[n] = [node |-> a, rows |-> S]
      /\ \A i \in 1 .. Len(p) : q[i] = p[i]
  BY <1>1, ChainGrows
<1>3. q \in Seq(TraceSteps)
  <2>1. [node |-> a, rows |-> S] \in TraceSteps  BY <1>1 DEF TraceSteps
  <2> QED BY <2>1
<1> HIDE DEF q
<1>4. \A i \in 1 .. n : q[i].node = c[i]
  <2>1. \A i \in 1 .. n : i = n \/ i \in 1 .. Len(p)  BY <1>1
  <2> QED BY <2>1, <1>2 DEF Chain
<1>5. /\ InRange(k) /\ c[1] = k.node
      /\ R = Ancestors(c, {k.row}, n)
      /\ \A i \in 1 .. Len(p) : /\ ~ IsScan(c[i])
                               /\ c[i + 1] = Inputs[c[i]]
                               /\ p[i].rows = Ancestors(c, {k.row}, i)
  BY DEF OnWay
<1>6. c[n] = a  BY <1>1 DEF Chain
<1> HIDE DEF c
<1> DEFINE f == PathNodes(q)
<1>7. f = [i \in 1 .. n |-> q[i].node]  BY <1>2, <1>3 DEF PathNodes
<1>8. \A i \in 1 .. n : q[i].node \in Node
  <2>1. \A i \in 1 .. Len(q) : q[i] \in TraceSteps  BY <1>3
  <2>2. \A i \in 1 .. n : q[i] \in TraceSteps  BY <1>2, <2>1
  <2> QED BY <2>2 DEF TraceSteps
<1>9. f \in Seq(Node) /\ Len(f) = n  BY <1>1, <1>7, <1>8
<1>10. \A i \in 1 .. n : f[i] = c[i]  BY <1>4, <1>7
<1>11. IsChain(f)
  <2>1. \A i \in 1 .. Len(f) : f[i] \in Node  BY <1>7, <1>8, <1>9
  <2>2. ASSUME NEW i \in 1 .. Len(f) - 1
        PROVE  ~ IsScan(f[i]) /\ f[i + 1] = Inputs[f[i]]
    <3>1. i \in 1 .. Len(p) /\ i \in 1 .. n /\ i + 1 \in 1 .. n
      BY <1>1, <1>9
    <3> QED BY <3>1, <1>5, <1>10
  <2> QED BY <2>1, <2>2 DEF IsChain
<1>12. \A i \in 1 .. n : Ancestors(f, {k.row}, i) = Ancestors(c, {k.row}, i)
  <2> SUFFICES ASSUME NEW i \in 1 .. n
               PROVE  Ancestors(f, {k.row}, i) = Ancestors(c, {k.row}, i)
    OBVIOUS
  <2>1. \A j \in 1 .. i - 1 : f[j] = c[j]  BY <1>1, <1>10
  <2> HIDE DEF f
  <2> QED BY <2>1, <1>1, AncestorsAgree
<1> HIDE DEF f
<1>13. \A i \in 1 .. n - 1 : q[i].rows = Ancestors(f, {k.row}, i)
  <2> SUFFICES ASSUME NEW i \in 1 .. n - 1
               PROVE  q[i].rows = Ancestors(f, {k.row}, i)
    OBVIOUS
  <2>1. i \in 1 .. Len(p) /\ i \in 1 .. n  BY <1>1
  <2> QED BY <2>1, <1>2, <1>5, <1>12
<1>14. q[n].rows = StepBack(f[n], Ancestors(f, {k.row}, n))
  <2>1. n \in 1 .. n  BY <1>1
  <2>2. f[n] = a  BY <2>1, <1>6, <1>10
  <2>3. Ancestors(f, {k.row}, n) = R  BY <2>1, <1>5, <1>12
  <2> QED BY <2>2, <2>3, <1>2 DEF S
<1>15. f[1] = k.node /\ IsScan(f[n])
  <2>1. n \in 1 .. n /\ 1 \in 1 .. n  BY <1>1
  <2> QED BY <2>1, <1>5, <1>6, <1>10
<1>16. IsTrace(k, q)
  <2>1. n >= 1  BY <1>1
  <2>2. f = PathNodes(q)  BY DEF f
  <2> HIDE DEF n
  <2> QED BY <2>1, <2>2, <1>2, <1>11, <1>13, <1>14, <1>15 DEF IsTrace
<1> QED BY <1>16 DEF q, S

----------------------------------------------------------------------------
(***************************************************************************)
(* The inductive invariant: whoever is composing a trace is on the way to  *)
(* it, so what is inserted, cached and answered is the trace of its key.   *)
(***************************************************************************)
WalkersOnWay ==
    \A t \in Thread :
        pc[t] = "walk" => OnWay(key[t], path[t], at[t], rows[t])

InsertersDone ==
    \A t \in Thread :
        pc[t] = "insert" => InRange(key[t]) /\ IsTrace(key[t], path[t])

CachedInRange == \A k \in DOMAIN entries : InRange(k)

TraceInv ==
    /\ WalkersOnWay
    /\ InsertersDone
    /\ CachedInRange
    /\ CacheCoherent
    /\ AnswersCorrect

LEMMA TraceInvStep == TypeInv /\ TraceInv /\ [Next]_vars => TraceInv'
<1> SUFFICES ASSUME TypeInv, TraceInv, [Next]_vars PROVE TraceInv'
  OBVIOUS
<1> USE DEF TraceInv
<1> USE TypeInv DEF TypeInv, TypeOK
<1>1. ASSUME NEW t \in Thread, Ask(t) PROVE TraceInv'
  BY <1>1 DEF Ask, WalkersOnWay, InsertersDone, CachedInRange, CacheCoherent,
              AnswersCorrect
<1>2. ASSUME NEW t \in Thread, Hit(t) PROVE TraceInv'
  <2>1. /\ DOMAIN entries' = DOMAIN entries
        /\ \A k \in DOMAIN entries : entries'[k].trace = entries[k].trace
    BY <1>2 DEF Hit, Touched
  <2>2. CacheCoherent' /\ CachedInRange'
    BY <2>1 DEF CacheCoherent, CachedInRange
  <2>3. AnswersCorrect'
    BY <1>2 DEF Hit, AnswersCorrect, CacheCoherent
  <2>4. WalkersOnWay' /\ InsertersDone'
    BY <1>2 DEF Hit, WalkersOnWay, InsertersDone
  <2> QED BY <2>2, <2>3, <2>4
<1>3. ASSUME NEW t \in Thread, Miss(t) PROVE TraceInv'
  BY <1>3 DEF Miss, WalkersOnWay, InsertersDone, CachedInRange, CacheCoherent,
              AnswersCorrect
<1>4. ASSUME NEW t \in Thread, Start(t) PROVE TraceInv'
  <2>1. OnWay(key[t], << >>, key[t].node, {key[t].row})
    BY <1>4, OnWayStart DEF Start
  <2>2. WalkersOnWay'
    BY <1>4, <2>1 DEF Start, WalkersOnWay
  <2> QED
    BY <1>4, <2>2 DEF Start, InsertersDone, CachedInRange, CacheCoherent,
                      AnswersCorrect
<1>5. ASSUME NEW t \in Thread, RangePanic(t) PROVE TraceInv'
  BY <1>5 DEF RangePanic, WalkersOnWay, InsertersDone, CachedInRange,
              CacheCoherent, AnswersCorrect
<1>6. ASSUME NEW t \in Thread, Walk(t) PROVE TraceInv'
  <2>1. /\ path[t] \in Seq(TraceSteps) /\ at[t] \in Node /\ ~ IsScan(at[t])
        /\ rows[t] \in SUBSET OutRows(at[t])
        /\ OnWay(key[t], path[t], at[t], rows[t])
    BY <1>6 DEF Walk, WalkRowsInStep, WalkersOnWay
  <2>2. OnWay(key[t], Append(path[t], [node |-> at[t], rows |-> rows[t]]),
              Inputs[at[t]], StepBack(at[t], rows[t]))
    BY <2>1, OnWayStep
  <2>3. WalkersOnWay'
    BY <1>6, <2>2 DEF Walk, WalkersOnWay
  <2> QED
    BY <1>6, <2>3 DEF Walk, InsertersDone, CachedInRange, CacheCoherent,
                      AnswersCorrect
<1>7. ASSUME NEW t \in Thread, WalkScan(t) PROVE TraceInv'
  <2>1. /\ path[t] \in Seq(TraceSteps) /\ at[t] \in Node /\ IsScan(at[t])
        /\ rows[t] \in SUBSET OutRows(at[t])
        /\ OnWay(key[t], path[t], at[t], rows[t])
    BY <1>7 DEF WalkScan, WalkRowsInStep, WalkersOnWay
  <2>2. IsTrace(key[t],
                Append(path[t], [node |-> at[t],
                                 rows |-> StepBack(at[t], rows[t])]))
    BY <2>1, OnWayEnd
  <2>3. InRange(key[t])  BY <2>1 DEF OnWay
  <2>4. InsertersDone'
    BY <1>7, <2>2, <2>3 DEF WalkScan, InsertersDone
  <2> QED
    BY <1>7, <2>4 DEF WalkScan, WalkersOnWay, CachedInRange, CacheCoherent,
                      AnswersCorrect
<1>8. ASSUME NEW t \in Thread, Insert(t) PROVE TraceInv'
  <2>1. InRange(key[t]) /\ IsTrace(key[t], path[t])
    BY <1>8 DEF Insert, InsertersDone
  <2>2. \A k \in DOMAIN entries' :
            \/ k = key[t] /\ entries'[k].trace = path[t]
            \/ k \in DOMAIN entries /\ entries'[k].trace = entries[k].trace
    BY <1>8 DEF Insert, Inserted
  <2>3. CacheCoherent' /\ CachedInRange'
    BY <2>1, <2>2 DEF CacheCoherent, CachedInRange
  <2>4. AnswersCorrect'
    BY <1>8, <2>1 DEF Insert, AnswersCorrect
  <2>5. WalkersOnWay' /\ InsertersDone'
    BY <1>8 DEF Insert, WalkersOnWay, InsertersDone
  <2> QED BY <2>3, <2>4, <2>5
<1>9. ASSUME NEW t \in Thread, Return(t) PROVE TraceInv'
  BY <1>9 DEF Return, WalkersOnWay, InsertersDone, CachedInRange, CacheCoherent,
              AnswersCorrect
<1>10. CASE UNCHANGED vars
  BY <1>10 DEF vars, WalkersOnWay, InsertersDone, CachedInRange, CacheCoherent,
               AnswersCorrect
<1> QED
  BY <1>1, <1>2, <1>3, <1>4, <1>5, <1>6, <1>7, <1>8, <1>9, <1>10
  DEF Next, Run

LEMMA TraceInvHolds == Spec => [](TypeInv /\ TraceInv)
<1>1. Init => TraceInv
  BY DEF Init, TraceInv, WalkersOnWay, InsertersDone, CachedInRange,
         CacheCoherent, AnswersCorrect
<1> QED BY <1>1, TraceInvStep, TypeInvHolds, PTL DEF Spec

\* Whatever the cache holds is the true trace of its key.
THEOREM CacheIsCoherent == Spec => []CacheCoherent
<1>1. TraceInv => CacheCoherent  BY DEF TraceInv
<1> QED BY <1>1, TraceInvHolds, PTL

\* Whatever a caller is given is the true trace of the row it clicked.
THEOREM AnswersAreCorrect == Spec => []AnswersCorrect
<1>1. TraceInv => AnswersCorrect  BY DEF TraceInv
<1> QED BY <1>1, TraceInvHolds, PTL

----------------------------------------------------------------------------
(***************************************************************************)
(* The LRU: stamps are distinct, and the entry evicted exists, so an       *)
(* insert into a full cache removes one key for the one it adds.           *)
(***************************************************************************)
LruInv ==
    /\ StampsDistinct
    /\ IsFiniteSet(DOMAIN entries)
    /\ CacheBounded

LEMMA OldestExists ==
    ASSUME TypeInv, DOMAIN entries # {}
    PROVE  Oldest \in DOMAIN entries
<1> DEFINE used == [k \in DOMAIN entries |-> entries[k].used]
<1>1. \A k \in DOMAIN entries : used[k] \in Nat  BY DEF TypeInv, TypeOK
<1>2. \E k \in DOMAIN entries : \A j \in DOMAIN entries : used[k] <= used[j]
  BY <1>1, LeastStamp
<1>3. \E k \in DOMAIN entries :
          \A j \in DOMAIN entries : entries[k].used <= entries[j].used
  BY <1>2
<1> QED BY <1>3 DEF Oldest

LEMMA InsertBounded ==
    ASSUME TypeInv, LruInv, NEW t \in Thread, Insert(t)
    PROVE  IsFiniteSet(DOMAIN entries') /\ Cardinality(DOMAIN entries') <= Capacity
<1> DEFINE D == DOMAIN entries
           k == key[t]
           E == D \ Evicted(k)
<1>1. DOMAIN entries' = E \cup {k}  BY DEF Insert, Inserted
<1>2. IsFiniteSet(D) /\ Cardinality(D) \in Nat /\ Cardinality(D) <= Capacity
  BY FS_CardinalityType DEF LruInv, CacheBounded
<1>3. Capacity \in Nat /\ Capacity >= 1  BY CacheAssumption
<1>4. CASE k \in D
  <2>1. E \cup {k} = D  BY <1>4 DEF Evicted
  <2> QED BY <1>1, <1>2, <2>1
<1>5. CASE k \notin D /\ Cardinality(D) < Capacity
  <2>1. E = D  BY <1>5, <1>2, <1>3 DEF Evicted
  <2>2. IsFiniteSet(D \cup {k}) /\ Cardinality(D \cup {k}) = Cardinality(D) + 1
    BY <1>2, <1>5, FS_AddElement
  <2> QED BY <1>1, <1>2, <1>3, <1>5, <2>1, <2>2
<1>6. CASE k \notin D /\ Cardinality(D) >= Capacity
  <2>1. D # {}
    <3>1. Cardinality({}) = 0  BY FS_EmptySet
    <3> QED BY <3>1, <1>3, <1>6
  <2>2. Oldest \in D  BY <2>1, OldestExists
  <2>3. E = D \ {Oldest}  BY <1>6 DEF Evicted
  <2>4. IsFiniteSet(E) /\ Cardinality(E) = Cardinality(D) - 1
    BY <1>2, <2>2, <2>3, FS_RemoveElement
  <2>5. k \notin E  BY <1>6
  <2> HIDE DEF E, D, k
  <2>6. IsFiniteSet(E \cup {k}) /\ Cardinality(E \cup {k}) = Cardinality(E) + 1
    BY <2>4, <2>5, FS_AddElement
  <2> QED BY <1>1, <1>2, <1>3, <2>4, <2>6
<1> QED BY <1>2, <1>3, <1>4, <1>5, <1>6

LEMMA LruInvStep == TypeInv /\ LruInv /\ [Next]_vars => LruInv'
<1> SUFFICES ASSUME TypeInv, LruInv, [Next]_vars PROVE LruInv'
  OBVIOUS
<1>1. CASE UNCHANGED <<entries, clock>>
  BY <1>1 DEF LruInv, StampsDistinct, CacheBounded
<1>2. ASSUME NEW t \in Thread, Hit(t) PROVE LruInv'
  <2>1. DOMAIN entries' = DOMAIN entries  BY <1>2 DEF Hit, Touched
  <2>2. /\ entries'[key[t]].used = clock + 1
        /\ \A k \in DOMAIN entries : k # key[t] => entries'[k] = entries[k]
    BY <1>2 DEF Hit, Touched
  <2>3. /\ clock' = clock + 1 /\ clock \in Nat
        /\ \A k \in DOMAIN entries : entries[k].used \in Nat
    BY <1>2 DEF Hit, TypeInv, TypeOK
  <2>4. StampsDistinct'  BY <2>1, <2>2, <2>3 DEF LruInv, StampsDistinct
  <2> QED BY <2>1, <2>4 DEF LruInv, CacheBounded
<1>3. ASSUME NEW t \in Thread, Miss(t) PROVE LruInv'
  <2>1. /\ clock' = clock + 1 /\ clock \in Nat /\ entries' = entries
        /\ \A k \in DOMAIN entries : entries[k].used \in Nat
    BY <1>3 DEF Miss, TypeInv, TypeOK
  <2> QED BY <2>1 DEF LruInv, StampsDistinct, CacheBounded
<1>4. ASSUME NEW t \in Thread, Insert(t) PROVE LruInv'
  <2>1. /\ entries'[key[t]].used = clock + 1
        /\ DOMAIN entries' \subseteq DOMAIN entries \cup {key[t]}
        /\ \A k \in DOMAIN entries' : k # key[t] => entries'[k] = entries[k]
    BY <1>4 DEF Insert, Inserted
  <2>2. /\ clock' = clock + 1 /\ clock \in Nat
        /\ \A k \in DOMAIN entries : entries[k].used \in Nat
    BY <1>4 DEF Insert, TypeInv, TypeOK
  <2>3. StampsDistinct'  BY <2>1, <2>2 DEF LruInv, StampsDistinct
  <2> QED BY <1>4, <2>3, InsertBounded DEF LruInv, CacheBounded
<1> QED
  BY <1>1, <1>2, <1>3, <1>4
  DEF Next, Run, Ask, Start, RangePanic, Walk, WalkScan, Return, vars

LEMMA LruInvHolds == Spec => []LruInv
<1>1. Init => LruInv
  <2> SUFFICES ASSUME Init PROVE LruInv  OBVIOUS
  <2>1. DOMAIN entries = {}  BY DEF Init
  <2>2. IsFiniteSet({}) /\ Cardinality({}) = 0  BY FS_EmptySet
  <2> QED BY <2>1, <2>2, CacheAssumption DEF LruInv, StampsDistinct, CacheBounded
<1> QED BY <1>1, LruInvStep, TypeInvHolds, PTL DEF Spec

\* The cache never holds more than its capacity.
THEOREM CacheIsBounded == Spec => []CacheBounded
<1>1. LruInv => CacheBounded  BY DEF LruInv
<1> QED BY <1>1, LruInvHolds, PTL

\* Which entry is evicted does not depend on the map's iteration order.
THEOREM StampsAreDistinct == Spec => []StampsDistinct
<1>1. LruInv => StampsDistinct  BY DEF LruInv
<1> QED BY <1>1, LruInvHolds, PTL

----------------------------------------------------------------------------
(***************************************************************************)
(* backward_row implements TraceService: everything between a click and    *)
(* its answer is a stutter of the service.                                 *)
(***************************************************************************)
Status == [t \in Thread |->
             IF pc[t] \in {"lookup", "start", "walk", "insert"}
             THEN "asked" ELSE pc[t]]

\* A step of one thread that moves it from one location to another.
LEMMA StatusMoves ==
    ASSUME TypeInv, NEW t \in Thread, NEW l \in PCs,
           pc' = [pc EXCEPT ![t] = l]
    PROVE  Status' = [Status EXCEPT ![t] =
               IF l \in {"lookup", "start", "walk", "insert"} THEN "asked" ELSE l]
BY DEF Status, TypeInv, TypeOK

LEMMA ServiceStep ==
    TypeInv /\ TraceInv /\ [Next]_vars => [Service!Next]_(Service!vars)
<1> SUFFICES ASSUME TypeInv, TraceInv, [Next]_vars
             PROVE  Service!Next \/ UNCHANGED <<Status, key, answer>>
  BY DEF Service!vars, Status
<1> USE DEF PCs
<1>1. ASSUME NEW t \in Thread, Ask(t) PROVE Service!Ask(t)
  <2>1. Status[t] = "idle"  BY <1>1 DEF Ask, Status
  <2>2. Status' = [Status EXCEPT ![t] = "asked"]
    BY <1>1, StatusMoves DEF Ask
  <2> QED BY <1>1, <2>1, <2>2 DEF Ask, Service!Ask, Status
<1>2. ASSUME NEW t \in Thread, Hit(t) PROVE Service!Reply(t)
  <2>1. Status[t] = "asked"  BY <1>2 DEF Hit, Status
  <2>2. Status' = [Status EXCEPT ![t] = "answered"]
    BY <1>2, StatusMoves DEF Hit
  <2>3. InRange(key[t]) /\ IsTrace(key[t], entries[key[t]].trace)
    BY <1>2 DEF Hit, TraceInv, CachedInRange, CacheCoherent
  <2>4. answer'[t] = entries[key[t]].trace
    BY <1>2 DEF Hit, TypeInv, TypeOK
  <2> QED BY <1>2, <2>1, <2>2, <2>3, <2>4 DEF Hit, Service!Reply, Status
<1>3. ASSUME NEW t \in Thread, Insert(t) PROVE Service!Reply(t)
  <2>1. Status[t] = "asked"  BY <1>3 DEF Insert, Status
  <2>2. Status' = [Status EXCEPT ![t] = "answered"]
    BY <1>3, StatusMoves DEF Insert
  <2>3. InRange(key[t]) /\ IsTrace(key[t], path[t])
    BY <1>3 DEF Insert, TraceInv, InsertersDone
  <2>4. answer'[t] = path[t]  BY <1>3 DEF Insert, TypeInv, TypeOK
  <2> QED BY <1>3, <2>1, <2>2, <2>3, <2>4 DEF Insert, Service!Reply, Status
<1>4. ASSUME NEW t \in Thread, RangePanic(t) PROVE Service!Refuse(t)
  <2>1. Status[t] = "asked"  BY <1>4 DEF RangePanic, Status
  <2>2. Status' = [Status EXCEPT ![t] = "panicked"]
    BY <1>4, StatusMoves DEF RangePanic
  <2> QED BY <1>4, <2>1, <2>2 DEF RangePanic, Service!Refuse, Status
<1>5. ASSUME NEW t \in Thread, Return(t) PROVE Service!Return(t)
  <2>1. Status[t] = "answered"  BY <1>5 DEF Return, Status
  <2>2. Status' = [Status EXCEPT ![t] = "idle"]
    BY <1>5, StatusMoves DEF Return
  <2> QED BY <1>5, <2>1, <2>2 DEF Return, Service!Return, Status
<1>6. ASSUME NEW t \in Thread, Miss(t) \/ Start(t) \/ Walk(t) \/ WalkScan(t)
      PROVE  UNCHANGED <<Status, key, answer>>
  BY <1>6 DEF Miss, Start, Walk, WalkScan, Status, TypeInv, TypeOK
<1>7. CASE UNCHANGED vars  BY <1>7 DEF vars, Status
<1> QED
  BY <1>1, <1>2, <1>3, <1>4, <1>5, <1>6, <1>7 DEF Next, Run, Service!Next

\* The cached, unlocked, step-by-step trace is an atomic one to its callers.
THEOREM RefinesService == Spec => ImplementsService
<1>1. Init => Service!Init
  BY DEF Init, Service!Init
<1> QED
  BY <1>1, ServiceStep, TraceInvHolds, PTL
  DEF Spec, ImplementsService, Service!Spec

----------------------------------------------------------------------------
(***************************************************************************)
(* The stamped map implements LruOrder: stamps are a list in disguise.     *)
(***************************************************************************)

Held == DOMAIN entries

\* Which keys were used after which.
Newer == {pair \in Held \X Held : entries[pair[1]].used > entries[pair[2]].used}

\* The keys held, the newest first, numbered from 0.
ByUse == RankedIn(Held, Newer)

Size == Cardinality(Held)

\* The first n places of a numbered list, as a sequence.
Written(f, n) == [i \in 1 .. n |-> f[i - 1]]

LEMMA WrittenSeq ==
    ASSUME NEW n \in Nat, NEW S, NEW f \in [0 .. n - 1 -> S]
    PROVE  /\ Written(f, n) \in Seq(S) /\ Len(Written(f, n)) = n
           /\ \A i \in 1 .. n : Written(f, n)[i] = f[i - 1]
<1>1. \A i \in 1 .. n : i - 1 \in 0 .. n - 1 /\ f[i - 1] \in S  OBVIOUS
<1> QED BY <1>1 DEF Written

LEMMA UseOrders ==
    ASSUME TypeInv, LruInv
    PROVE  Orders(Newer, Held) /\ Asymmetric(Newer, Held)
<1>1. \A k \in Held : entries[k].used \in Nat  BY DEF TypeInv, TypeOK, Held
<1>2. \A j, k \in Held : entries[j].used = entries[k].used => j = k
  BY DEF LruInv, StampsDistinct, Held
<1>3. \A j, k \in Held : <<j, k>> \in Newer <=> entries[j].used > entries[k].used
  BY DEF Newer
<1> HIDE DEF Held
<1>4. Asymmetric(Newer, Held)  BY <1>1, <1>3 DEF Asymmetric
<1>5. \A x, y \in Held : x = y \/ <<x, y>> \in Newer \/ <<y, x>> \in Newer
  <2> SUFFICES ASSUME NEW x \in Held, NEW y \in Held, x # y
               PROVE  <<x, y>> \in Newer \/ <<y, x>> \in Newer
    OBVIOUS
  <2>1. entries[x].used # entries[y].used  BY <1>2
  <2>2. entries[x].used > entries[y].used \/ entries[y].used > entries[x].used
    BY <1>1, <2>1
  <2> QED BY <1>3, <2>2
<1>6. \A x, y, z \in Held :
        <<x, y>> \in Newer /\ <<y, z>> \in Newer => <<x, z>> \in Newer
  BY <1>1, <1>3
<1> QED BY <1>4, <1>5, <1>6 DEF Orders

LEMMA ByUseLists ==
    ASSUME TypeInv, LruInv
    PROVE  Lists(ByUse, Size, Held, Newer)
<1>1. IsFiniteSet(Held)  BY DEF LruInv, Held
<1> QED BY <1>1, UseOrders, RankedLists DEF ByUse, Size

LEMMA RecencyIsByUse ==
    ASSUME TypeInv, LruInv
    PROVE  /\ Recency = Written(ByUse, Size)
           /\ Recency \in Seq(Held) /\ Len(Recency) = Size /\ Size \in Nat
<1>1. Size \in Nat /\ \A i \in 0 .. Size - 1 : ByUse[i] \in Held
  BY ByUseLists DEF Lists
<1>2. Recency = [i \in 1 .. Size |-> ByUse[i - 1]]
  <2>1. \A x \in Held : {y \in Held : entries[y].used > entries[x].used}
                          = Earlier(x, Held, Newer)
    BY DEF Earlier, Newer
  <2> DEFINE newest(i) == CHOOSE x \in Held :
                  Cardinality({y \in Held : entries[y].used > entries[x].used}) = i
             ranked(i) == CHOOSE x \in Held : Cardinality(Earlier(x, Held, Newer)) = i
  <2>2. \A i : newest(i) = ranked(i)  BY <2>1
  <2>3. ByUse = [i \in 0 .. Size - 1 |-> ranked(i)]  BY DEF ByUse, RankedIn, Size
  <2>4. Recency = [i \in 1 .. Size |-> [j \in 0 .. Size - 1 |-> newest(j)][i - 1]]
    BY DEF Recency, Ranked, Size, Held
  <2> HIDE DEF newest, ranked, Size
  <2>5. [j \in 0 .. Size - 1 |-> newest(j)] = [j \in 0 .. Size - 1 |-> ranked(j)]
    BY <2>2
  <2> QED BY <2>3, <2>4, <2>5
<1>4. ByUse \in [0 .. Size - 1 -> Held]  BY ByUseLists DEF Lists
<1>5. Recency = Written(ByUse, Size)  BY <1>2 DEF Written
<1> HIDE DEF Size, Held, ByUse
<1> QED BY <1>1, <1>4, <1>5, WrittenSeq

\* What the step after it needs of the next state.
LEMMA UseFacts ==
    TypeInv /\ LruInv =>
        /\ Asymmetric(Newer, Held)
        /\ Recency = Written(ByUse, Size)
  BY UseOrders, RecencyIsByUse

\* k is stamped anew, and of the other keys those in E stay, in the order f.
LEMMA Restamped ==
    ASSUME TypeInv, LruInv, TypeInv', LruInv', NEW k, NEW E \in SUBSET Held,
           k \notin E, Held' = E \cup {k},
           \A j \in E : entries'[j].used = entries[j].used,
           entries'[k].used = clock + 1, NEW f, NEW m, Lists(f, m, E, Newer)
    PROVE  Recency' = Written(First(k, f, m), m + 1)
<1>1. \A j \in E : entries[j].used \in Nat /\ entries[j].used <= clock
  BY DEF TypeInv, TypeOK, LruInv, StampsDistinct, Held
<1>2. clock \in Nat  BY DEF TypeInv, TypeOK
<1>3. \A i, j \in E : <<i, j>> \in Newer => <<i, j>> \in Newer'  BY DEF Newer
<1>4. \A j \in E : <<k, j>> \in Newer'
  <2> TAKE j \in E
  <2>1. entries'[k].used > entries'[j].used  BY <1>1, <1>2
  <2> QED BY <2>1 DEF Newer
<1>5. Lists(First(k, f, m), m + 1, Held', Newer')  BY <1>3, <1>4, ListsFirst
<1>7. Asymmetric(Newer', Held')
  <2>1. (TypeInv /\ LruInv)' => Asymmetric(Newer, Held)'  BY UseFacts, PTL
  <2> QED BY <2>1 DEF Asymmetric
<1>8. First(k, f, m) = RankedIn(Held', Newer')  BY <1>5, <1>7, ListsUnique
<1>9. Cardinality(Held') = m + 1  BY <1>5, <1>7, ListsCount
<1>10. Recency' = Written(ByUse', Size')
  <2>1. (TypeInv /\ LruInv)' => (Recency = Written(ByUse, Size))'
    BY UseFacts, PTL
  <2> QED BY <2>1 DEF Written
<1>11. ByUse' = First(k, f, m) /\ Size' = m + 1  BY <1>8, <1>9 DEF ByUse, Size, RankedIn, Earlier
<1> QED BY <1>10, <1>11

\* Where a key is in the list.
LEMMA Places ==
    ASSUME TypeInv, LruInv, NEW k
    PROVE  /\ Order!Held(k) <=> k \in Held
           /\ k \in Held =>
                \E r \in 0 .. Size - 1 :
                   ByUse[r] = k /\ Order!PlaceOf(k) = r + 1
<1>1. Recency = Written(ByUse, Size) /\ Size \in Nat
  BY RecencyIsByUse
<1>2. Lists(ByUse, Size, Held, Newer) /\ Asymmetric(Newer, Held)
  BY ByUseLists, UseOrders
<1> HIDE DEF Size, ByUse, Held, Newer
<1>3. DOMAIN Recency = 1 .. Size /\ \A i \in 1 .. Size : Recency[i] = ByUse[i - 1]
  BY <1>1 DEF Written
<1>4. \A i \in 1 .. Size : i - 1 \in 0 .. Size - 1  BY <1>1
<1>5. \A r \in 0 .. Size - 1 : r + 1 \in 1 .. Size /\ (r + 1) - 1 = r  BY <1>1
<1>6. Order!Held(k) <=> k \in Held
  <2>1. ASSUME Order!Held(k) PROVE k \in Held
    <3>1. PICK i \in 1 .. Size : ByUse[i - 1] = k  BY <1>3, <2>1 DEF Order!Held
    <3> QED BY <1>2, <1>4, <3>1 DEF Lists
  <2>2. ASSUME k \in Held PROVE Order!Held(k)
    <3>1. PICK r \in 0 .. Size - 1 : ByUse[r] = k  BY <1>2, <2>2 DEF Lists
    <3>2. Recency[r + 1] = k  BY <1>3, <1>5, <3>1
    <3> QED BY <1>3, <1>5, <3>2 DEF Order!Held
  <2> QED BY <2>1, <2>2
<1>7. ASSUME k \in Held
      PROVE  \E r \in 0 .. Size - 1 : ByUse[r] = k /\ Order!PlaceOf(k) = r + 1
  <2>1. \E i \in DOMAIN Recency : Recency[i] = k  BY <1>6, <1>7 DEF Order!Held
  <2>2. Order!PlaceOf(k) \in DOMAIN Recency /\ Recency[Order!PlaceOf(k)] = k
    BY <2>1 DEF Order!PlaceOf
  <2> DEFINE i == Order!PlaceOf(k)
  <2>3. i \in 1 .. Size /\ ByUse[i - 1] = k  BY <1>3, <2>2
  <2> HIDE DEF i
  <2>4. i - 1 \in 0 .. Size - 1 /\ (i - 1) + 1 = i  BY <1>1, <2>3
  <2> QED BY <2>3, <2>4 DEF i
<1> QED BY <1>6, <1>7

\* A sequence without its place r + 1, and one with k in front.
Shortened(s, r) == SubSeq(s, 1, r) \o SubSeq(s, r + 2, Len(s))

Pushed(k, s) == <<k>> \o s

LEMMA WithoutPlace ==
    ASSUME NEW S, NEW s \in Seq(S), NEW r \in 0 .. Len(s) - 1
    PROVE  /\ Shortened(s, r) \in Seq(S) /\ Len(Shortened(s, r)) = Len(s) - 1
           /\ \A i \in 1 .. Len(s) - 1 :
                 Shortened(s, r)[i] = IF i <= r THEN s[i] ELSE s[i + 1]
<1> DEFINE n == Len(s)
           rest == Shortened(s, r)
<1>1. n \in Nat /\ \A i \in 1 .. n : s[i] \in S  OBVIOUS
<1> HIDE DEF n
<1> DEFINE a == SubSeq(s, 1, r)
           b == SubSeq(s, r + 2, n)
<1>2. r \in Nat /\ n - r - 1 \in Nat /\ r \in 0 .. n - 1  BY <1>1 DEF n
<1>3. a \in Seq(S) /\ Len(a) = r /\ \A i \in 1 .. r : a[i] = s[i]
  <2>1. \A i \in 1 .. r : s[i] \in S  BY <1>1
  <2>2. /\ a \in Seq(S) /\ Len(a) = IF 1 <= r THEN r - 1 + 1 ELSE 0
        /\ \A i \in 1 .. r - 1 + 1 : a[i] = s[1 + i - 1]
    BY <1>2, <2>1, SubSeqProperties
  <2>3. r - 1 + 1 = r /\ \A i \in 1 .. r : 1 + i - 1 = i  BY <1>2
  <2>4. Len(a) = r  BY <1>2, <2>2
  <2> HIDE DEF a
  <2>5. \A i \in 1 .. r : a[i] = s[i]  BY <2>2, <2>3
  <2> QED BY <2>2, <2>4, <2>5
<1>4. b \in Seq(S) /\ Len(b) = n - r - 1
      /\ \A i \in 1 .. n - r - 1 : b[i] = s[i + r + 1]
  <2>1. \A i \in r + 2 .. n : s[i] \in S  BY <1>1, <1>2
  <2>2. /\ b \in Seq(S) /\ Len(b) = IF r + 2 <= n THEN n - (r + 2) + 1 ELSE 0
        /\ \A i \in 1 .. n - (r + 2) + 1 : b[i] = s[(r + 2) + i - 1]
    BY <1>1, <1>2, <2>1, SubSeqProperties
  <2>3. n - (r + 2) + 1 = n - r - 1
        /\ \A i \in 1 .. n - r - 1 : (r + 2) + i - 1 = i + r + 1
    BY <1>1, <1>2
  <2> HIDE DEF b
  <2>4. Len(b) = n - r - 1  BY <1>1, <1>2, <2>2
  <2>5. \A i \in 1 .. n - r - 1 : b[i] = s[i + r + 1]  BY <2>2, <2>3
  <2> QED BY <2>2, <2>4, <2>5
<1>5. rest = a \o b  BY DEF Shortened, n
<1> HIDE DEF a, b, rest
<1>6. /\ rest \in Seq(S) /\ Len(rest) = r + (n - r - 1)
      /\ \A i \in 1 .. r + (n - r - 1) :
            rest[i] = IF i <= r THEN a[i] ELSE b[i - r]
  <2>1. a \in Seq(S) /\ b \in Seq(S)  BY <1>3, <1>4
  <2>2. /\ a \o b \in Seq(S) /\ Len(a \o b) = Len(a) + Len(b)
        /\ \A i \in 1 .. Len(a) + Len(b) :
              (a \o b)[i] = IF i <= Len(a) THEN a[i] ELSE b[i - Len(a)]
    BY ONLY <2>1, ConcatProperties
  <2>3. Len(a) = r /\ Len(b) = n - r - 1  BY <1>3, <1>4
  <2> QED BY ONLY <1>5, <2>2, <2>3
<1>7. r + (n - r - 1) = n - 1  BY <1>1, <1>2
<1>8. ASSUME NEW i \in 1 .. n - 1
      PROVE  rest[i] = IF i <= r THEN s[i] ELSE s[i + 1]
  <2>1. rest[i] = IF i <= r THEN a[i] ELSE b[i - r]  BY <1>6, <1>7
  <2>2. CASE i <= r
    <3>1. i \in 1 .. r  BY <1>1, <1>2, <2>2
    <3> QED BY <1>3, <2>1, <2>2, <3>1
  <2>3. CASE ~ (i <= r)
    <3>1. i - r \in 1 .. n - r - 1 /\ (i - r) + r + 1 = i + 1  BY <1>1, <1>2, <2>3
    <3>2. b[i - r] = s[(i - r) + r + 1]  BY <1>4, <3>1
    <3> QED BY <2>1, <2>3, <3>1, <3>2
  <2> QED BY <2>2, <2>3
<1> QED BY <1>6, <1>7, <1>8 DEF n, rest

LEMMA WithFirst ==
    ASSUME NEW S, NEW s \in Seq(S), NEW k \in S
    PROVE  /\ Pushed(k, s) \in Seq(S) /\ Len(Pushed(k, s)) = Len(s) + 1
           /\ Pushed(k, s)[1] = k
           /\ \A i \in 2 .. Len(s) + 1 : Pushed(k, s)[i] = s[i - 1]
<1> DEFINE t == Pushed(k, s)
<1>1. <<k>> \in Seq(S) /\ Len(<<k>>) = 1 /\ <<k>>[1] = k /\ Len(s) \in Nat  OBVIOUS
<1>2. /\ <<k>> \o s \in Seq(S) /\ Len(<<k>> \o s) = Len(<<k>>) + Len(s)
      /\ \A i \in 1 .. Len(<<k>>) + Len(s) :
            (<<k>> \o s)[i] = IF i <= Len(<<k>>) THEN <<k>>[i] ELSE s[i - Len(<<k>>)]
  BY <1>1, ConcatProperties
<1>3. /\ t \in Seq(S) /\ Len(t) = 1 + Len(s)
      /\ \A i \in 1 .. 1 + Len(s) : t[i] = IF i <= 1 THEN k ELSE s[i - 1]
  <2>1. \A i \in 1 .. 1 + Len(s) : i <= 1 => i = 1  BY <1>1
  <2> QED BY <1>1, <1>2, <2>1 DEF Pushed
<1> HIDE DEF t
<1>4. t[1] = k  BY <1>1, <1>3
<1>5. \A i \in 2 .. Len(s) + 1 : t[i] = s[i - 1]  BY <1>1, <1>3
<1> QED BY <1>1, <1>3, <1>4, <1>5 DEF t

\* A list without its place r and with k in front, as a sequence.
LEMMA MovedToFront ==
    ASSUME NEW n \in Nat, NEW r \in 0 .. n - 1, NEW S, NEW f, NEW R,
           Lists(f, n, S, R), NEW k \in S
    PROVE  /\ Shortened(Written(f, n), r) \in Seq(S)
           /\ Len(Shortened(Written(f, n), r)) = n - 1
           /\ Pushed(k, Shortened(Written(f, n), r))
                = Written(First(k, Skip(f, n, r), n - 1), n)
<1> DEFINE s == Written(f, n)
           rest == Shortened(s, r)
<1>1. /\ s \in Seq(S) /\ n = Len(s)
      /\ \A i \in 1 .. n : s[i] = f[i - 1]
  BY WrittenSeq DEF Lists
<1> HIDE DEF s
<1>3. s \in Seq(S) /\ n = Len(s)  BY <1>1
<1>4. /\ rest \in Seq(S) /\ Len(rest) = n - 1
      /\ \A i \in 1 .. n - 1 : rest[i] = IF i <= r THEN s[i] ELSE s[i + 1]
  BY <1>3, WithoutPlace
<1> HIDE DEF rest
<1> DEFINE t == Pushed(k, rest)
<1>5. rest \in Seq(S) /\ Len(rest) + 1 = n  BY <1>4
<1>6. /\ t \in Seq(S) /\ Len(t) = n /\ t[1] = k
      /\ \A i \in 2 .. n : t[i] = rest[i - 1]
  <2>1. rest \in Seq(S)  BY <1>5
  <2>2. /\ t \in Seq(S) /\ Len(t) = Len(rest) + 1 /\ t[1] = k
        /\ \A i \in 2 .. Len(rest) + 1 : t[i] = rest[i - 1]
    BY <2>1, WithFirst
  <2> QED BY <1>5, <2>2
<1> HIDE DEF t
<1> DEFINE g == Written(First(k, Skip(f, n, r), n - 1), n)
<1>7. \A i \in 1 .. n : t[i] = g[i]
  <2> TAKE i \in 1 .. n
  <2>1. i - 1 \in 0 .. n - 1 /\ g[i] = First(k, Skip(f, n, r), n - 1)[i - 1]
    BY DEF Written
  <2>2. g[i] = IF i = 1 THEN k ELSE Skip(f, n, r)[i - 2]
    BY <2>1 DEF First
  <2>3. CASE i = 1  BY <1>6, <2>2, <2>3
  <2>4. CASE i # 1
    <3>1. i \in 2 .. n /\ i - 2 \in 0 .. n - 2 /\ i - 1 \in 1 .. n - 1  BY <2>4
    <3>2. g[i] = IF i - 2 < r THEN f[i - 2] ELSE f[i - 1]
      <4>1. Skip(f, n, r)[i - 2] = IF i - 2 < r THEN f[i - 2] ELSE f[(i - 2) + 1]
        BY <3>1 DEF Skip
      <4>2. (i - 2) + 1 = i - 1  OBVIOUS
      <4> QED BY <2>2, <2>4, <4>1, <4>2
    <3>3. t[i] = rest[i - 1]  BY <1>6, <3>1
    <3>4. rest[i - 1] = IF i - 1 <= r THEN s[i - 1] ELSE s[(i - 1) + 1]  BY <1>4, <3>1
    <3>5. s[i - 1] = f[i - 2] /\ s[(i - 1) + 1] = f[i - 1]
      <4>1. i - 1 \in 1 .. n /\ (i - 1) - 1 = i - 2 /\ (i - 1) + 1 = i  BY <3>1
      <4> QED BY <1>1, <4>1
    <3>6. i - 2 < r <=> i - 1 <= r  BY <3>1
    <3> QED BY <3>2, <3>3, <3>4, <3>5, <3>6
  <2> QED BY <2>3, <2>4
<1>8. t = [i \in 1 .. n |-> t[i]]  BY <1>6
<1>9. g = [i \in 1 .. n |-> g[i]]  BY DEF Written
<1>10. t = g
  <2> HIDE DEF g
  <2> QED BY <1>7, <1>8, <1>9
<1> QED BY <1>4, <1>10 DEF t, rest, s

\* A key that is held becomes the newest.
LEMMA HeldMoves ==
    ASSUME TypeInv, LruInv, TypeInv', LruInv', NEW k \in Held, Held' = Held,
           \A j \in Held \ {k} : entries'[j] = entries[j],
           entries'[k].used = clock + 1
    PROVE  /\ Recency' = Pushed(k, Order!Without(k))
           /\ Order!Without(k) \in Seq(Held) /\ Len(Order!Without(k)) = Size - 1
<1>1. Lists(ByUse, Size, Held, Newer) /\ Asymmetric(Newer, Held)
  BY ByUseLists, UseOrders
<1>2. PICK r \in 0 .. Size - 1 : ByUse[r] = k /\ Order!PlaceOf(k) = r + 1
  BY Places
<1>3. Recency = Written(ByUse, Size) /\ Len(Recency) = Size /\ Size \in Nat
  BY RecencyIsByUse
<1>4. Lists(Skip(ByUse, Size, r), Size - 1, Held \ {k}, Newer)
  BY <1>1, <1>2, SkipLists
<1> DEFINE E == Held \ {k}
<1>5. Recency' = Written(First(k, Skip(ByUse, Size, r), Size - 1), (Size - 1) + 1)
  <2>1. E \in SUBSET Held /\ k \notin E /\ Held' = E \cup {k}  OBVIOUS
  <2>2. \A j \in E : entries'[j].used = entries[j].used  OBVIOUS
  <2>3. Lists(Skip(ByUse, Size, r), Size - 1, E, Newer)  BY <1>4
  <2> HIDE DEF E
  <2> QED BY <2>1, <2>2, <2>3, Restamped
<1>7. Order!Without(k) = Shortened(Recency, r)
  <2>1. Order!Held(k)  BY Places
  <2>2. (r + 1) - 1 = r /\ (r + 1) + 1 = r + 2  BY <1>3
  <2> QED BY <1>2, <2>1, <2>2 DEF Order!Without, Shortened
<1>8. (Size - 1) + 1 = Size  BY <1>3
<1>9. k \in Held /\ r \in 0 .. Size - 1 /\ Size \in Nat  BY <1>3
<1>10. Order!Without(k) = Shortened(Written(ByUse, Size), r)  BY <1>3, <1>7
<1> HIDE DEF Size, Held, ByUse
<1>11. /\ Shortened(Written(ByUse, Size), r) \in Seq(Held)
       /\ Len(Shortened(Written(ByUse, Size), r)) = Size - 1
       /\ Pushed(k, Shortened(Written(ByUse, Size), r))
            = Written(First(k, Skip(ByUse, Size, r), Size - 1), Size)
  BY ONLY <1>1, <1>9, MovedToFront
<1> QED BY ONLY <1>5, <1>8, <1>10, <1>11

\* A new key in front of a list, and the front of that.
LEMMA NewInFront ==
    ASSUME NEW n \in Nat, NEW S, NEW f, NEW R, Lists(f, n, S, R),
           NEW k, NEW m \in 0 .. n + 1
    PROVE  SubSeq(Pushed(k, Written(f, n)), 1, m) = Written(First(k, f, n), m)
<1> DEFINE T == S \cup {k}
<1>1. f \in [0 .. n - 1 -> T]  BY DEF Lists
<1> DEFINE s == Written(f, n)
           t == Pushed(k, s)
<1>2. s \in Seq(T) /\ Len(s) = n /\ \A i \in 1 .. n : s[i] = f[i - 1]
  BY <1>1, WrittenSeq
<1>3. s \in Seq(T) /\ Len(s) = n /\ k \in T  BY <1>2
<1> HIDE DEF s, T
<1>4. /\ t \in Seq(T) /\ Len(t) = n + 1 /\ t[1] = k
      /\ \A i \in 2 .. n + 1 : t[i] = s[i - 1]
  <2>1. s \in Seq(T) /\ k \in T  BY <1>3
  <2>2. /\ t \in Seq(T) /\ Len(t) = Len(s) + 1 /\ t[1] = k
        /\ \A i \in 2 .. Len(s) + 1 : t[i] = s[i - 1]
    BY <2>1, WithFirst
  <2> QED BY <1>3, <2>2
<1> HIDE DEF t
<1> DEFINE u == SubSeq(t, 1, m)
           g == Written(First(k, f, n), m)
<1>5. /\ u \in Seq(T) /\ Len(u) = m
      /\ \A i \in 1 .. m : u[i] = t[i]
  <2>1. \A i \in 1 .. m : t[i] \in T  BY <1>4
  <2>2. /\ u \in Seq(T) /\ Len(u) = IF 1 <= m THEN m - 1 + 1 ELSE 0
        /\ \A i \in 1 .. m - 1 + 1 : u[i] = t[1 + i - 1]
    BY <2>1, SubSeqProperties
  <2> HIDE DEF u
  <2>3. m - 1 + 1 = m /\ \A i \in 1 .. m : 1 + i - 1 = i  OBVIOUS
  <2> QED BY <2>2, <2>3
<1> HIDE DEF u
<1>6. \A i \in 1 .. m : u[i] = g[i]
  <2> TAKE i \in 1 .. m
  <2>1. i \in 1 .. n + 1 /\ i - 1 \in 0 .. n  OBVIOUS
  <2>2. g[i] = IF i - 1 = 0 THEN k ELSE f[i - 1 - 1]  BY <2>1 DEF Written, First
  <2>3. CASE i = 1  BY <1>4, <1>5, <2>2, <2>3
  <2>4. CASE i # 1
    <3>1. i \in 2 .. n + 1 /\ i - 1 \in 1 .. n  BY <2>1, <2>4
    <3>2. u[i] = s[i - 1]  BY <1>4, <1>5, <3>1
    <3> QED BY <1>2, <2>2, <2>4, <3>1, <3>2
  <2> QED BY <2>3, <2>4
<1>7. u = [i \in 1 .. m |-> u[i]]  BY <1>5
<1>8. g = [i \in 1 .. m |-> g[i]]  BY DEF Written
<1>9. u = g
  <2> HIDE DEF g
  <2> QED BY <1>6, <1>7, <1>8
<1> QED BY <1>9 DEF t, s, u

\* The entry that makes room is the last of the list.
LEMMA OldestIsLast ==
    ASSUME TypeInv, LruInv, NEW n \in Nat, n = Size - 1
    PROVE  Oldest = ByUse[Size - 1]
<1>1. Lists(ByUse, Size, Held, Newer)  BY ByUseLists
<1> DEFINE last == ByUse[Size - 1]
<1>2. Size - 1 \in 0 .. Size - 1 /\ last \in Held  BY <1>1 DEF Lists
<1>3. \A k \in Held : k # last => <<k, last>> \in Newer
  <2> TAKE k \in Held
  <2> HAVE k # last
  <2>1. PICK i \in 0 .. Size - 1 : ByUse[i] = k  BY <1>1 DEF Lists
  <2>2. i < Size - 1  BY <1>1, <2>1 DEF Lists
  <2> QED BY <1>1, <1>2, <2>1, <2>2 DEF Lists
<1>4. \A k \in Held : entries[k].used \in Nat  BY DEF TypeInv, TypeOK, Held
<1>5. \A k \in Held : entries[last].used <= entries[k].used
  <2> TAKE k \in Held
  <2>1. CASE k = last  BY <1>2, <1>4, <2>1
  <2>2. CASE k # last
    <3>1. entries[k].used > entries[last].used  BY <1>3, <2>2 DEF Newer
    <3> HIDE DEF last
    <3> QED BY <1>2, <1>4, <3>1
  <2> QED BY <2>1, <2>2
<1>6. Oldest \in Held /\ \A j \in Held : entries[Oldest].used <= entries[j].used
  BY <1>2, <1>5 DEF Oldest, Held
<1>7. entries[Oldest].used = entries[last].used  BY <1>2, <1>4, <1>5, <1>6
<1>8. \A j, k \in Held : entries[j].used = entries[k].used => j = k
  BY DEF LruInv, StampsDistinct, Held
<1> QED BY <1>2, <1>6, <1>7, <1>8

\* The clicked trace is in front, whether or not it was held, and the last
\* key makes room for one that was not.
LEMMA InsertPuts ==
    ASSUME TypeInv, LruInv, TypeInv', LruInv', NEW t \in Thread, Insert(t)
    PROVE  Recency' = SubSeq(Pushed(key[t], Order!Without(key[t])), 1,
                             IF Len(Order!Without(key[t])) < Capacity
                             THEN Len(Order!Without(key[t])) + 1 ELSE Capacity)
<1> DEFINE k == key[t]
           rest == Order!Without(k)
<1>1. /\ Held' = (Held \ Evicted(k)) \cup {k} /\ entries'[k].used = clock + 1
      /\ \A j \in Held \ Evicted(k) : j # k => entries'[j] = entries[j]
  BY DEF Insert, Inserted, Held
<1>2. Size \in Nat /\ Size <= Capacity /\ Capacity \in Nat \ {0}
  BY RecencyIsByUse, CacheAssumption DEF LruInv, CacheBounded, Size, Held
<1>3. CASE k \in Held
  <2>1. Held' = Held /\ \A j \in Held \ {k} : entries'[j] = entries[j]
    BY <1>1, <1>3 DEF Evicted, Held
  <2>2. /\ Recency' = Pushed(k, rest)
        /\ rest \in Seq(Held) /\ Len(rest) = Size - 1
    BY <1>1, <1>3, <2>1, HeldMoves
  <2> HIDE DEF k, rest, Held, Size
  <2>3. Pushed(k, rest) \in Seq(Held) /\ Len(Pushed(k, rest)) = Len(rest) + 1
    BY <1>3, <2>2, WithFirst
  <2>4. SubSeq(Pushed(k, rest), 1, Len(rest) + 1) = Pushed(k, rest)
    BY <2>3, SubSeqFull
  <2>5. Len(rest) < Capacity  BY <1>2, <2>2
  <2> QED BY <2>2, <2>4, <2>5 DEF k, rest
<1>4. ASSUME k \notin Held
      PROVE  rest = Written(ByUse, Size) /\ Len(rest) = Size
  <2>1. ~ Order!Held(k)  BY <1>4, Places
  <2> QED BY <2>1, RecencyIsByUse DEF Order!Without
<1>5. CASE k \notin Held /\ Size < Capacity
  <2>1. Evicted(k) = {}  BY <1>2, <1>5 DEF Evicted, Size, Held
  <2>2. Held \in SUBSET Held /\ Held' = Held \cup {k}
        /\ \A j \in Held : entries'[j].used = entries[j].used
    BY <1>1, <1>5, <2>1
  <2>3. Recency' = Written(First(k, ByUse, Size), Size + 1)
    BY <1>1, <1>5, <2>2, ByUseLists, Restamped
  <2>4. SubSeq(Pushed(k, rest), 1, Size + 1) = Written(First(k, ByUse, Size), Size + 1)
    <3>1. Size \in Nat /\ Size + 1 \in 0 .. Size + 1 /\ Lists(ByUse, Size, Held, Newer)
      BY <1>2, ByUseLists
    <3>2. rest = Written(ByUse, Size)  BY <1>4, <1>5
    <3> HIDE DEF k, rest, Held, Size, ByUse
    <3>3. SubSeq(Pushed(k, Written(ByUse, Size)), 1, Size + 1)
            = Written(First(k, ByUse, Size), Size + 1)
      BY ONLY <3>1, NewInFront
    <3> QED BY <3>2, <3>3
  <2>5. Len(rest) = Size  BY <1>4, <1>5
  <2> HIDE DEF rest, Size
  <2> QED BY <1>5, <2>3, <2>4, <2>5 DEF rest
<1>6. CASE k \notin Held /\ ~ (Size < Capacity)
  <2>1. Size = Capacity /\ Size - 1 \in 0 .. Size - 1  BY <1>2, <1>6
  <2>2. Evicted(k) = {Oldest}  BY <1>6, <2>1, <1>2 DEF Evicted, Size, Held
  <2>3. Oldest = ByUse[Size - 1]  BY <1>2, <2>1, OldestIsLast
  <2> DEFINE E == Held \ {Oldest}
             f == Skip(ByUse, Size, Size - 1)
  <2>4. Lists(f, Size - 1, E, Newer)
    BY <2>1, <2>3, ByUseLists, UseOrders, SkipLists
  <2>5. E \in SUBSET Held /\ k \notin E /\ Held' = E \cup {k}
        /\ \A j \in E : entries'[j].used = entries[j].used
    BY <1>1, <1>6, <2>2
  <2>6. Recency' = Written(First(k, f, Size - 1), (Size - 1) + 1)
    <3> HIDE DEF E, f
    <3> QED BY <1>1, <2>4, <2>5, Restamped
  <2>7. SubSeq(Pushed(k, rest), 1, Size) = Written(First(k, ByUse, Size), Size)
    <3>1. Size \in Nat /\ Size \in 0 .. Size + 1 /\ Lists(ByUse, Size, Held, Newer)
      BY <1>2, ByUseLists
    <3>2. rest = Written(ByUse, Size)  BY <1>4, <1>6
    <3> HIDE DEF k, rest, Held, Size, ByUse
    <3>3. SubSeq(Pushed(k, Written(ByUse, Size)), 1, Size)
            = Written(First(k, ByUse, Size), Size)
      BY ONLY <3>1, NewInFront
    <3> QED BY <3>2, <3>3
  <2>8. Written(First(k, ByUse, Size), Size) = Written(First(k, f, Size - 1), Size)
    <3> HIDE DEF Size, ByUse, k
    <3>1. ASSUME NEW i \in 1 .. Size
          PROVE  First(k, ByUse, Size)[i - 1] = First(k, f, Size - 1)[i - 1]
      <4>1. i - 1 \in 0 .. Size /\ i - 1 \in 0 .. Size - 1  BY <1>2
      <4>2. /\ First(k, ByUse, Size)[i - 1] = IF i - 1 = 0 THEN k ELSE ByUse[i - 1 - 1]
            /\ First(k, f, Size - 1)[i - 1] = IF i - 1 = 0 THEN k ELSE f[i - 1 - 1]
        BY <4>1 DEF First
      <4>3. i # 1 => f[i - 1 - 1] = ByUse[i - 1 - 1]
        <5>1. i # 1 => i - 1 - 1 \in 0 .. Size - 2 /\ i - 1 - 1 < Size - 1  BY <1>2
        <5> QED BY <5>1 DEF Skip
      <4> QED BY <4>2, <4>3
    <3> HIDE DEF f
    <3> QED BY <3>1 DEF Written
  <2>9. Len(rest) = Size /\ (Size - 1) + 1 = Size  BY <1>2, <1>4, <1>6
  <2> HIDE DEF rest, Size, f
  <2> QED BY <1>6, <2>1, <2>6, <2>7, <2>8, <2>9 DEF rest
<1> QED BY <1>3, <1>5, <1>6 DEF k

Calls == [t \in Thread |-> NextCall(t)]

\* A step of one thread that moves it to l with the key k.
LEMMA CallMoves ==
    ASSUME TypeInv, NEW t \in Thread, NEW l \in PCs, NEW k \in Clicks,
           pc' = [pc EXCEPT ![t] = l], key' = [key EXCEPT ![t] = k]
    PROVE  Calls' = [Calls EXCEPT ![t] =
               CASE l = "lookup" -> [op |-> "get", key |-> k]
                 [] l = "insert" -> [op |-> "put", key |-> k]
                 [] OTHER -> NoCall]
<1> DEFINE c == CASE l = "lookup" -> [op |-> "get", key |-> k]
                  [] l = "insert" -> [op |-> "put", key |-> k]
                  [] OTHER -> NoCall
<1>1. pc'[t] = l /\ key'[t] = k  BY DEF TypeInv, TypeOK
<1>2. \A u \in Thread : u # t => pc'[u] = pc[u] /\ key'[u] = key[u]
  BY DEF TypeInv, TypeOK
<1>3. Calls'[t] = c  BY <1>1 DEF Calls, NextCall, NoCall
<1>4. \A u \in Thread : u # t => Calls'[u] = Calls[u]
  BY <1>2 DEF Calls, NextCall, NoCall
<1>5. Calls = [u \in Thread |-> Calls[u]] /\ Calls' = [u \in Thread |-> Calls'[u]]
  BY DEF Calls
<1> HIDE DEF c, Calls
<1> QED BY <1>3, <1>4, <1>5 DEF c

\* The threads' keys are of the type a step keeps them in.
LEMMA KeyStays ==
    ASSUME TypeInv, NEW t \in Thread
    PROVE  key[t] \in Clicks /\ key = [key EXCEPT ![t] = key[t]]
BY DEF TypeInv, TypeOK

LEMMA OrderStep ==
    TypeInv /\ LruInv /\ TypeInv' /\ LruInv' /\ [Next]_vars =>
        [Order!Next]_<<Recency, Calls>>
<1> SUFFICES ASSUME TypeInv, LruInv, TypeInv', LruInv', [Next]_vars
             PROVE  Order!Next \/ UNCHANGED <<Recency, Calls>>
  OBVIOUS
<1>1. entries' = entries => Recency' = Recency  BY DEF Recency, Ranked
<1>2. ASSUME NEW t \in Thread, Ask(t) PROVE Order!Next
  <2>1. PICK k \in Clicks : key' = [key EXCEPT ![t] = k]  BY <1>2 DEF Ask
  <2>2. Calls' = [Calls EXCEPT ![t] = [op |-> "get", key |-> k]]
    BY <1>2, <2>1, CallMoves DEF Ask, PCs
  <2>3. Calls[t] = NoCall  BY <1>2 DEF Ask, Calls, NextCall
  <2>4. Order!Calling(t, "get", k)
    BY <1>1, <1>2, <2>2, <2>3 DEF Ask, Order!Calling, Calls
  <2> QED BY <2>4 DEF Order!Next
<1>3. ASSUME NEW t \in Thread, Hit(t) PROVE Order!Next
  <2>1. Calls' = [Calls EXCEPT ![t] = NoCall]
    BY <1>3, KeyStays, CallMoves DEF Hit, PCs
  <2>2. Calls[t] = [op |-> "get", key |-> key[t]]  BY <1>3 DEF Hit, Calls, NextCall
  <2>3. key[t] \in Held  BY <1>3 DEF Hit, Held
  <2>4. Recency' = <<key[t]>> \o Order!Without(key[t])
    <3>1. /\ Held' = Held /\ entries'[key[t]].used = clock + 1
          /\ \A j \in Held \ {key[t]} : entries'[j] = entries[j]
      BY <1>3 DEF Hit, Touched, Held
    <3> QED BY <2>3, <3>1, HeldMoves DEF Pushed
  <2>5. Order!Held(key[t])  BY <2>3, Places
  <2>6. Order!Get(t, key[t])
    BY <2>1, <2>2, <2>4, <2>5 DEF Order!Get, Order!Done, Calls
  <2> QED BY <2>6, KeyStays DEF Order!Next
<1>4. ASSUME NEW t \in Thread, Miss(t) PROVE Order!Next
  <2>1. Calls' = [Calls EXCEPT ![t] = NoCall]
    BY <1>4, KeyStays, CallMoves DEF Miss, PCs
  <2>2. Calls[t] = [op |-> "get", key |-> key[t]]  BY <1>4 DEF Miss, Calls, NextCall
  <2>3. ~ Order!Held(key[t])  BY <1>4, Places DEF Miss, Held
  <2>4. Order!Get(t, key[t])
    BY <1>1, <1>4, <2>1, <2>2, <2>3 DEF Miss, Order!Get, Order!Done, Calls
  <2> QED BY <2>4, KeyStays DEF Order!Next
<1>5. ASSUME NEW t \in Thread, WalkScan(t) PROVE Order!Next
  <2>1. Calls' = [Calls EXCEPT ![t] = [op |-> "put", key |-> key[t]]]
    BY <1>5, KeyStays, CallMoves DEF WalkScan, PCs
  <2>2. Calls[t] = NoCall  BY <1>5 DEF WalkScan, Calls, NextCall
  <2>3. Order!Calling(t, "put", key[t])
    BY <1>1, <1>5, <2>1, <2>2 DEF WalkScan, Order!Calling, Calls
  <2> QED BY <2>3, KeyStays DEF Order!Next
<1>6. ASSUME NEW t \in Thread, Insert(t) PROVE Order!Next
  <2>1. Calls' = [Calls EXCEPT ![t] = NoCall]
    BY <1>6, KeyStays, CallMoves DEF Insert, PCs
  <2>2. Calls[t] = [op |-> "put", key |-> key[t]]  BY <1>6 DEF Insert, Calls, NextCall
  <2>3. Order!Put(t, key[t])
    BY <1>6, <2>1, <2>2, InsertPuts DEF Order!Put, Order!Done, Calls, Pushed
  <2> QED BY <2>3, KeyStays DEF Order!Next
<1>7. ASSUME NEW t \in Thread, Start(t) \/ RangePanic(t) \/ Walk(t) \/ Return(t)
      PROVE  UNCHANGED <<Recency, Calls>>
  <2>1. entries' = entries /\ key' = key
    BY <1>7 DEF Start, RangePanic, Walk, Return
  <2>2. \A u \in Thread : NextCall(u)' = NextCall(u)
    BY <1>7 DEF Start, RangePanic, Walk, Return, NextCall, NoCall, TypeInv, TypeOK
  <2> QED BY <1>1, <2>1, <2>2 DEF Calls
<1>8. CASE UNCHANGED vars
  <2>1. entries' = entries /\ key' = key /\ pc' = pc  BY <1>8 DEF vars
  <2> QED BY <1>1, <2>1 DEF Calls, NextCall
<1> QED BY <1>2, <1>3, <1>4, <1>5, <1>6, <1>7, <1>8 DEF Next, Run

\* To its callers the map with stamps is the list of its keys in order of
\* use, for every capacity and any number of threads.
THEOREM RefinesLruOrder == Spec => ImplementsLruOrder
<1>1. Init => Order!Init
  <2> SUFFICES ASSUME Init PROVE Order!Init  OBVIOUS
  <2>1. DOMAIN entries = {} /\ Cardinality({}) = 0  BY FS_EmptySet DEF Init
  <2>2. Recency = << >>
    <3>1. Recency \in Seq({}) /\ Len(Recency) = 0  BY <2>1 DEF Recency, Ranked
    <3> QED BY <3>1, EmptySeq
  <2>3. [t \in Thread |-> NextCall(t)] = [t \in Thread |-> NoCall]
    BY DEF Init, NextCall
  <2> QED BY <2>2, <2>3 DEF Order!Init
<1>2. TypeInv /\ LruInv /\ TypeInv' /\ LruInv' /\ [Next]_vars =>
        [Order!Next]_<<Recency, [t \in Thread |-> NextCall(t)]>>
  BY OrderStep DEF Calls
<1> QED BY <1>1, <1>2, TypeInvHolds, LruInvHolds, PTL
        DEF Spec, ImplementsLruOrder, Order!Spec

=============================================================================
