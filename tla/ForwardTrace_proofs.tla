------------------------- MODULE ForwardTrace_proofs -------------------------
(***************************************************************************)
(* Proofs about ForwardTrace, for any store and any threads: types, that   *)
(* inverses are whole, and that forward is the converse of the parents a   *)
(* backward trace follows.                                                 *)
(***************************************************************************)
EXTENDS ForwardTrace, StepLineage_proofs

LEMMA QuestionTypes ==
    ASSUME NEW q \in Questions
    PROVE  q.scan \in Node /\ q.node \in Node /\ q.rows \subseteq Nat
BY QuestionAssumption

Inside == {"climb", "up", "build", "answered"}

\* The chain leads from the asked step towards the scan, and reaches it
\* before any row is followed.
ChainInv ==
    \A t \in Thread :
        /\ pc[t] \in Inside \cup {"check"} =>
              /\ Len(chain[t]) >= 1
              /\ IsChain(chain[t])
              /\ chain[t][1] = question[t].node
        /\ pc[t] \in {"up", "build", "answered"} =>
              /\ Last(chain[t]) = question[t].scan
        /\ pc[t] \in {"up", "build"} => pos[t] \in 0 .. Len(chain[t])
        /\ pc[t] = "build" => pos[t] >= 1 /\ NeedsInverse(Here(t))

\* The rows a thread holds are the descendants at the step below `pos`.
FlowInv ==
    \A t \in Thread :
        /\ pc[t] \in {"up", "build"} =>
              rows[t] = IF pos[t] = Len(chain[t]) THEN question[t].rows
                        ELSE Descendants(chain[t], question[t].rows, pos[t] + 1)
        /\ pc[t] = "answered" =>
              rows[t] = Descendants(chain[t], question[t].rows, 1)

IInv == TypeOK /\ ChainInv /\ InversesSound /\ FlowInv

LEMMA ChainOfOne ==
    ASSUME NEW n \in Node
    PROVE  IsChain(<<n>>) /\ Len(<<n>>) = 1 /\ <<n>>[1] = n /\ <<n>> \in Seq(Node)
BY DEF IsChain

LEMMA ChainLonger ==
    ASSUME NEW c \in Seq(Node), Len(c) >= 1, IsChain(c), ~ IsScan(Last(c))
    PROVE  LET d == Append(c, Inputs[Last(c)]) IN
           d \in Seq(Node) /\ Len(d) = Len(c) + 1 /\ IsChain(d) /\ d[1] = c[1]
<1> DEFINE n == Len(c)
           m == Inputs[Last(c)]
           d == Append(c, m)
<1>1. n \in Nat /\ n \in 1 .. n /\ c[n] \in Node  OBVIOUS
<1>2. m \in Node  BY <1>1, InputsAreNodes DEF Last
<1>3. /\ d \in Seq(Node) /\ Len(d) = n + 1 /\ d[n + 1] = m
      /\ \A i \in 1 .. n : d[i] = c[i]
  BY <1>2
<1>4. m = Inputs[c[n]] /\ ~ IsScan(c[n])  BY DEF Last
<1> HIDE DEF d, m
<1>5. ASSUME NEW i \in 1 .. Len(d) - 1
      PROVE  ~ IsScan(d[i]) /\ d[i + 1] = Inputs[d[i]]
  <2>1. CASE i = n  BY <2>1, <1>1, <1>3, <1>4
  <2>2. CASE i \in 1 .. n - 1
    <3>1. ~ IsScan(c[i]) /\ c[i + 1] = Inputs[c[i]]  BY <2>2 DEF IsChain
    <3>2. i \in 1 .. n /\ i + 1 \in 1 .. n  BY <2>2, <1>1
    <3> QED BY <3>1, <3>2, <1>3
  <2> QED BY <2>1, <2>2, <1>1, <1>3
<1>6. \A i \in 1 .. Len(d) : d[i] \in Node  BY <1>3
<1>7. IsChain(d)  BY <1>5, <1>6 DEF IsChain
<1>8. d[1] = c[1]  BY <1>1, <1>3
<1> QED BY <1>3, <1>7, <1>8 DEF d, m

\* One iteration of the loop, as a fact about constants.
LEMMA UpIsConverse ==
    ASSUME NEW c, NEW k, NEW S, NEW R, NEW inv,
           c \in Seq(Node), IsChain(c), k \in 1 .. Len(c),
           S \in SUBSET Nat, R \in SUBSET Nat,
           NeedsInverse(c[k]) => inv = InverseOf(c[k]),
           k = Len(c) => R = S,
           k # Len(c) => R = Descendants(c, S, k + 1)
    PROVE  /\ StepForward(c[k], R, inv) = Descendants(c, S, k)
           /\ Descendants(c, S, k) \in SUBSET Nat
<1>1. c[k] \in Node /\ Len(c) \in Nat  OBVIOUS
<1>2. StepForward(c[k], R, inv) =
          {o \in OutRows(c[k]) : Parents(c[k], o) \cap R # {}}
  BY <1>1, StepForwardConverse
<1>3. {o \in OutRows(c[k]) : Parents(c[k], o) \cap R # {}}
          = Descendants(c, S, k)
  <2>1. CASE k = Len(c)
    <3>1. R = S /\ c[Len(c)] \in Node  BY <2>1, <1>1
    <3>2. Descendants(c, S, Len(c)) =
              {o \in OutRows(c[Len(c)]) : Parents(c[Len(c)], o) \cap S # {}}
      BY <3>1, <1>1, DescendantsFirst
    <3> QED BY <2>1, <3>1, <3>2
  <2>2. CASE k # Len(c)
    <3>1. k \in 1 .. Len(c) - 1 /\ R = Descendants(c, S, k + 1)  BY <2>2
    <3> QED BY <1>1, <3>1, DescendantsStep
  <2> QED BY <2>1, <2>2
<1>4. Descendants(c, S, k) \in SUBSET Nat  BY DEF Descendants, OutRows
<1> QED BY <1>2, <1>3, <1>4

LEMMA IInvStep == IInv /\ [Next]_vars => IInv'
<1> SUFFICES ASSUME IInv, [Next]_vars PROVE IInv'
  OBVIOUS
<1> USE IInv DEF IInv, PCs, Inside
<1>1. ASSUME NEW t \in Thread, Call(t) PROVE IInv'
  <2>1. PICK q \in Questions : question' = [question EXCEPT ![t] = q]
                               /\ chain' = [chain EXCEPT ![t] = <<q.node>>]
    BY <1>1 DEF Call
  <2>2. q.node \in Node  BY QuestionTypes
  <2>3. TypeOK'
    BY <1>1, <2>1, <2>2, ChainOfOne, QuestionAssumption DEF Call, TypeOK
  <2>4. ChainInv'
    BY <1>1, <2>1, <2>2, ChainOfOne DEF Call, TypeOK, ChainInv, Here
  <2>5. InversesSound'
    BY <1>1, <2>1 DEF Call, TypeOK, InversesSound, Here
  <2>6. FlowInv'  BY <1>1, <2>1 DEF Call, TypeOK, FlowInv
  <2> QED BY <2>3, <2>4, <2>5, <2>6
<1>2. ASSUME NEW t \in Thread, Check(t) PROVE IInv'
  BY <1>2 DEF Check, TypeOK, ChainInv, InversesSound, FlowInv, Here
<1>3. ASSUME NEW t \in Thread, Climb(t) PROVE IInv'
  <2>1. chain[t] \in Seq(Node) /\ Len(chain[t]) >= 1 /\ IsChain(chain[t])
        /\ ~ IsScan(Last(chain[t])) /\ chain[t][1] = question[t].node
    BY <1>3 DEF Climb, TypeOK, ChainInv
  <2> DEFINE d == Append(chain[t], Inputs[Last(chain[t])])
  <2>2. d \in Seq(Node) /\ Len(d) >= 1 /\ IsChain(d) /\ d[1] = question[t].node
    BY <2>1, ChainLonger
  <2>3. chain' = [chain EXCEPT ![t] = d]  BY <1>3 DEF Climb
  <2> HIDE DEF d
  <2>4. TypeOK'  BY <1>3, <2>2, <2>3 DEF Climb, TypeOK
  <2>5. ChainInv'  BY <1>3, <2>2, <2>3 DEF Climb, TypeOK, ChainInv, Here
  <2>6. InversesSound'
    BY <1>3, <2>3 DEF Climb, TypeOK, InversesSound, Here
  <2>7. FlowInv'  BY <1>3, <2>3 DEF Climb, TypeOK, FlowInv
  <2> QED BY <2>4, <2>5, <2>6, <2>7
<1>4. ASSUME NEW t \in Thread, WrongScan(t) PROVE IInv'
  BY <1>4 DEF WrongScan, TypeOK, ChainInv, InversesSound, FlowInv, Here
<1>5. ASSUME NEW t \in Thread, Turn(t) PROVE IInv'
  <2>1. question[t].rows \subseteq Nat /\ Len(chain[t]) \in Nat
    BY QuestionTypes DEF TypeOK
  <2>2. TypeOK'  BY <1>5, <2>1 DEF Turn, TypeOK
  <2>3. ChainInv'  BY <1>5, <2>1 DEF Turn, TypeOK, ChainInv, Here
  <2>4. InversesSound'  BY <1>5 DEF Turn, TypeOK, InversesSound, Here
  <2>5. FlowInv'  BY <1>5, <2>1 DEF Turn, TypeOK, FlowInv
  <2> QED BY <2>2, <2>3, <2>4, <2>5
<1>6. ASSUME NEW t \in Thread, BeginBuild(t) PROVE IInv'
  <2>1. Here(t) \in Node
    BY <1>6 DEF BeginBuild, TypeOK, ChainInv, Here
  <2>2. TypeOK'  BY <1>6, <2>1 DEF BeginBuild, TypeOK
  <2>3. ChainInv'  BY <1>6 DEF BeginBuild, TypeOK, ChainInv, Here
  <2>4. InversesSound'
    BY <1>6, <2>1 DEF BeginBuild, TypeOK, InversesSound, Here
  <2>5. FlowInv'  BY <1>6 DEF BeginBuild, TypeOK, FlowInv
  <2> QED BY <2>2, <2>3, <2>4, <2>5
<1>7. ASSUME NEW t \in Thread, FinishBuild(t) PROVE IInv'
  <2>1. Here(t) \in Node
    BY <1>7 DEF FinishBuild, TypeOK, ChainInv, Here
  <2>2. TypeOK'  BY <1>7, <2>1 DEF FinishBuild, TypeOK
  <2>3. ChainInv'  BY <1>7 DEF FinishBuild, TypeOK, ChainInv, Here
  <2>4. InversesSound'
    BY <1>7, <2>1 DEF FinishBuild, TypeOK, InversesSound, Here
  <2>5. FlowInv'  BY <1>7 DEF FinishBuild, TypeOK, FlowInv
  <2> QED BY <2>2, <2>3, <2>4, <2>5
<1>8. ASSUME NEW t \in Thread, Up(t) PROVE IInv'
  <2>1. /\ chain[t] \in Seq(Node) /\ IsChain(chain[t])
        /\ pos[t] \in 1 .. Len(chain[t])
        /\ question[t].rows \in SUBSET Nat /\ rows[t] \in SUBSET Nat
        /\ rows[t] = IF pos[t] = Len(chain[t]) THEN question[t].rows
                     ELSE Descendants(chain[t], question[t].rows, pos[t] + 1)
    BY <1>8, QuestionTypes DEF Up, TypeOK, ChainInv, FlowInv
  <2>2. NeedsInverse(Here(t)) => inverses[Here(t)] = InverseOf(Here(t))
    BY <1>8, <2>1 DEF Up, InversesSound, Here
  <2> DEFINE R == StepForward(Here(t), rows[t], inverses[Here(t)])
  <2>3. R = Descendants(chain[t], question[t].rows, pos[t]) /\ R \in SUBSET Nat
    <3> DEFINE c == chain[t]
               k == pos[t]
               S == question[t].rows
               Q == rows[t]
               inv == inverses[Here(t)]
    <3>1. /\ c \in Seq(Node) /\ IsChain(c) /\ k \in 1 .. Len(c)
          /\ S \in SUBSET Nat /\ Q \in SUBSET Nat
          /\ k = Len(c) => Q = S
          /\ k # Len(c) => Q = Descendants(c, S, k + 1)
      BY <2>1
    <3>2. NeedsInverse(c[k]) => inv = InverseOf(c[k])  BY <2>2 DEF Here
    <3>3. R = StepForward(c[k], Q, inv)  BY DEF Here
    <3> HIDE DEF c, k, S, Q, inv, R
    <3>4. /\ StepForward(c[k], Q, inv) = Descendants(c, S, k)
          /\ Descendants(c, S, k) \in SUBSET Nat
      BY <3>1, <3>2, UpIsConverse
    <3> QED BY <3>3, <3>4 DEF c, k, S
  <2>4. rows' = [rows EXCEPT ![t] = R]  BY <1>8 DEF Up
  <2> HIDE DEF R
  <2>5. TypeOK'  BY <1>8, <2>1, <2>3, <2>4 DEF Up, TypeOK
  <2>6. ChainInv'  BY <1>8, <2>1 DEF Up, TypeOK, ChainInv, Here
  <2>7. InversesSound'  BY <1>8 DEF Up, TypeOK, InversesSound, Here
  <2>8. FlowInv'
    <3>1. pos'[t] = pos[t] - 1 /\ pos'[t] # Len(chain[t]) /\ pos'[t] + 1 = pos[t]
      BY <1>8, <2>1 DEF Up, TypeOK
    <3> QED BY <1>8, <2>3, <2>4, <3>1 DEF Up, TypeOK, FlowInv
  <2> QED BY <2>5, <2>6, <2>7, <2>8
<1>9. ASSUME NEW t \in Thread, Answer(t) PROVE IInv'
  <2>1. rows[t] = Descendants(chain[t], question[t].rows, 1)
    BY <1>9 DEF Answer, TypeOK, ChainInv, FlowInv
  <2>2. TypeOK' /\ ChainInv' /\ InversesSound'
    BY <1>9 DEF Answer, TypeOK, ChainInv, InversesSound, Here
  <2>3. FlowInv'  BY <1>9, <2>1 DEF Answer, TypeOK, FlowInv
  <2> QED BY <2>2, <2>3
<1>10. ASSUME NEW t \in Thread, Return(t) PROVE IInv'
  BY <1>10 DEF Return, TypeOK, ChainInv, InversesSound, FlowInv, Here
<1>11. CASE UNCHANGED vars
  BY <1>11 DEF vars, TypeOK, ChainInv, InversesSound, FlowInv, Here
<1> QED
  BY <1>1, <1>2, <1>3, <1>4, <1>5, <1>6, <1>7, <1>8, <1>9, <1>10, <1>11
  DEF Next, Run

LEMMA IInvHolds == Spec => []IInv
<1>1. Init => IInv
  BY QuestionAssumption
  DEF Init, IInv, TypeOK, ChainInv, InversesSound, FlowInv, PCs, Inside
<1> QED BY <1>1, IInvStep, PTL DEF Spec

\* Type correctness of the inverses and of every thread's locals.
THEOREM TypeCorrect == Spec => []TypeOK
<1>1. IInv => TypeOK  BY DEF IInv
<1> QED BY <1>1, IInvHolds, PTL

\* A built inverse is whole, and no two threads build the same one.
THEOREM InversesAreSound == Spec => []InversesSound
<1>1. IInv => InversesSound  BY DEF IInv
<1> QED BY <1>1, IInvHolds, PTL

\* forward answers exactly the rows whose backward trace holds an asked row.
THEOREM ForwardIsConverse == Spec => []ForwardInvertsBackward
<1>1. IInv => ForwardInvertsBackward
  BY DEF IInv, ForwardInvertsBackward, ChainInv, FlowInv, Inside
<1> QED BY <1>1, IInvHolds, PTL
=============================================================================
