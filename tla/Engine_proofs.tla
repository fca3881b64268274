---------------------------- MODULE Engine_proofs ----------------------------
(***************************************************************************)
(* What a session promises, for every snapshot, plan and set of rows left  *)
(* out: an execution that was re-derived without some rows shows the       *)
(* numbers, and the traces, of running the plan without them.              *)
(***************************************************************************)
EXTENDS Engine, NaturalSets

(***************************************************************************)
(* Executions, step by step.                                               *)
(***************************************************************************)

LEMMA PlanNodes ==
    ASSUME NEW plan, IsPlan(plan)
    PROVE  /\ OutputNode(plan) \in Nat
           /\ DOMAIN plan = 0 .. OutputNode(plan)
           /\ 0 \in DOMAIN plan
           /\ \A i \in DOMAIN plan \ {0} : i \in Nat /\ i - 1 \in DOMAIN plan
<1>1. DOMAIN plan = 0 .. OutputNode(plan) /\ 0 \in DOMAIN plan  BY DEF IsPlan
<1>2. Cardinality(DOMAIN plan) \in Nat  BY FS_CardinalityType DEF IsPlan
<1>3. OutputNode(plan) \in Nat  BY <1>1, <1>2 DEF OutputNode
<1> QED BY <1>1, <1>3

\* The results of the steps, for execute and for rerun_from.
IsRun(plan, ex, done, n) ==
    done = [i \in 0 .. n |-> IF i = 0 THEN Scan(plan[0], ex)
                             ELSE NextStep(plan, i, done[i - 1])]

LEMMA RunExists ==
    ASSUME NEW plan, NEW ex, NEW n \in Nat
    PROVE  \E done : IsRun(plan, ex, done, n)
<1> DEFINE S == {m \in Nat : \E done : IsRun(plan, ex, done, m)}
<1>1. 0 \in S
  <2> DEFINE f == [i \in 0 .. 0 |-> Scan(plan[0], ex)]
  <2>1. IsRun(plan, ex, f, 0)  BY DEF IsRun
  <2> QED BY <2>1
<1>2. ASSUME NEW m \in Nat, m \in S PROVE m + 1 \in S
  <2>1. PICK f : IsRun(plan, ex, f, m)  BY <1>2
  <2> DEFINE g == [i \in 0 .. m + 1 |-> IF i = m + 1 THEN NextStep(plan, i, f[m])
                                        ELSE f[i]]
  <2>2. \A i \in 0 .. m : f[i] = IF i = 0 THEN Scan(plan[0], ex)
                                 ELSE NextStep(plan, i, f[i - 1])
    BY <2>1 DEF IsRun
  <2>3. \A i \in 0 .. m + 1 : g[i] = IF i = 0 THEN Scan(plan[0], ex)
                                     ELSE NextStep(plan, i, g[i - 1])
    <3> TAKE i \in 0 .. m + 1
    <3>1. CASE i = m + 1
      <4>1. i # 0 /\ i - 1 = m /\ m # m + 1 /\ m \in 0 .. m + 1  BY <3>1
      <4> QED BY <3>1, <4>1
    <3>2. CASE i # m + 1
      <4>1. i \in 0 .. m /\ (i # 0 => i - 1 \in 0 .. m + 1 /\ i - 1 # m + 1)  BY <3>2
      <4> QED BY <2>2, <3>2, <4>1
    <3> QED BY <3>1, <3>2
  <2>4. IsRun(plan, ex, g, m + 1)
    <3>1. g = [i \in 0 .. m + 1 |-> g[i]]  OBVIOUS
    <3> HIDE DEF g
    <3> QED BY <2>3, <3>1 DEF IsRun
  <2> QED BY <2>4
<1>3. n \in S
  <2> HIDE DEF S
  <2> QED BY <1>1, <1>2, SetInduction
<1> QED BY <1>3

LEMMA ExecuteRuns ==
    ASSUME NEW plan, IsPlan(plan), NEW ex
    PROVE  \E done : /\ IsRun(plan, ex, done, OutputNode(plan))
                     /\ Execute(plan, ex) = Collected(done)
<1> DEFINE done == CHOOSE f : IsRun(plan, ex, f, OutputNode(plan))
<1>1. IsRun(plan, ex, done, OutputNode(plan))  BY PlanNodes, RunExists
<1>2. Execute(plan, ex) = Collected(done)
  BY PlanNodes DEF Execute, IsRun
<1> QED BY <1>1, <1>2

\* Step i of e is what the operator makes of the step before.
Follows(plan, e, i) ==
    LET r == RunStep(plan[i], e.tables[i - 1])
    IN  r.ok /\ r.table = e.tables[i] /\ r.lineage = e.steps[i]

LEMMA CollectedParts ==
    ASSUME NEW done, Collected(done).ok
    PROVE  /\ \A i \in DOMAIN done : done[i].ok
           /\ DOMAIN Collected(done).tables = DOMAIN done
           /\ DOMAIN Collected(done).steps = DOMAIN done
           /\ \A i \in DOMAIN done : /\ Collected(done).tables[i] = done[i].table
                                     /\ Collected(done).steps[i] = done[i].lineage
<1>1. \A i \in DOMAIN done : done[i].ok
  <2> SUFFICES ASSUME ~ (\A i \in DOMAIN done : done[i].ok) PROVE FALSE  OBVIOUS
  <2>1. Collected(done) = [ok |-> FALSE]  BY DEF Collected, Failed
  <2> QED BY <2>1
<1> QED BY <1>1 DEF Collected

LEMMA ExecutionSteps ==
    ASSUME NEW plan, IsPlan(plan), NEW ex, Execute(plan, ex).ok
    PROVE  LET e == Execute(plan, ex)
           IN  /\ DOMAIN e.tables = DOMAIN plan /\ DOMAIN e.steps = DOMAIN plan
               /\ e.tables[0] = Scan(plan[0], ex).table
               /\ e.steps[0] = Scan(plan[0], ex).lineage
               /\ \A i \in DOMAIN plan \ {0} : Follows(plan, e, i)
<1>1. PICK done : IsRun(plan, ex, done, OutputNode(plan)) /\ Execute(plan, ex) = Collected(done)
  BY ExecuteRuns
<1> DEFINE e == Execute(plan, ex)
<1>2. DOMAIN done = DOMAIN plan  BY <1>1, PlanNodes DEF IsRun
<1>3. \A i \in DOMAIN plan : /\ done[i].ok /\ e.tables[i] = done[i].table
                             /\ e.steps[i] = done[i].lineage
  BY <1>1, <1>2, CollectedParts
<1>4. done[0] = Scan(plan[0], ex)  BY <1>1, PlanNodes DEF IsRun
<1>5. ASSUME NEW i \in DOMAIN plan \ {0} PROVE Follows(plan, e, i)
  <2>1. i - 1 \in DOMAIN plan /\ i \in 0 .. OutputNode(plan) /\ i # 0  BY PlanNodes
  <2>2. done[i] = NextStep(plan, i, done[i - 1])  BY <1>1, <2>1 DEF IsRun
  <2>3. done[i - 1].ok /\ done[i - 1].table = e.tables[i - 1]  BY <1>3, <2>1
  <2>4. done[i] = RunStep(plan[i], e.tables[i - 1])  BY <2>2, <2>3 DEF NextStep
  <2> QED BY <1>3, <2>4 DEF Follows
<1>6. DOMAIN e.tables = DOMAIN plan /\ DOMAIN e.steps = DOMAIN plan
  BY <1>1, <1>2, CollectedParts
<1> HIDE DEF e
<1>7. 0 \in DOMAIN plan  BY PlanNodes
<1>8. e.tables[0] = Scan(plan[0], ex).table /\ e.steps[0] = Scan(plan[0], ex).lineage
  BY <1>3, <1>4, <1>7
<1> QED BY <1>5, <1>6, <1>8 DEF e

(***************************************************************************)
(* An execution with step `node` replaced.                                 *)
(***************************************************************************)

IsRerun(plan, base, node, new, done, n) ==
    done = [i \in 0 .. n |->
              IF i < node THEN Done(base.tables[i], base.steps[i])
              ELSE IF i = node THEN new
              ELSE NextStep(plan, i, done[i - 1])]

LEMMA RerunExists ==
    ASSUME NEW plan, NEW base, NEW node \in Nat, NEW new, NEW n \in Nat
    PROVE  \E done : IsRerun(plan, base, node, new, done, n)
<1> DEFINE Old(i) == Done(base.tables[i], base.steps[i])
           S == {m \in Nat : \E done : IsRerun(plan, base, node, new, done, m)}
<1>1. 0 \in S
  <2> DEFINE f == [i \in 0 .. 0 |-> IF i < node THEN Old(i) ELSE new]
  <2>1. IsRerun(plan, base, node, new, f, 0)  BY DEF IsRerun
  <2> QED BY <2>1
<1>2. ASSUME NEW m \in Nat, m \in S PROVE m + 1 \in S
  <2>1. PICK f : IsRerun(plan, base, node, new, f, m)  BY <1>2
  <2> DEFINE g == [i \in 0 .. m + 1 |->
                     IF i # m + 1 THEN f[i]
                     ELSE IF i < node THEN Old(i)
                     ELSE IF i = node THEN new
                     ELSE NextStep(plan, i, f[m])]
  <2>2. \A i \in 0 .. m : f[i] = IF i < node THEN Old(i)
                                 ELSE IF i = node THEN new
                                 ELSE NextStep(plan, i, f[i - 1])
    BY <2>1 DEF IsRerun
  <2>3. \A i \in 0 .. m + 1 : g[i] = IF i < node THEN Old(i)
                                     ELSE IF i = node THEN new
                                     ELSE NextStep(plan, i, g[i - 1])
    <3> TAKE i \in 0 .. m + 1
    <3>1. CASE i = m + 1
      <4>1. i - 1 = m /\ m # m + 1 /\ m \in 0 .. m + 1  BY <3>1
      <4> QED BY <3>1, <4>1
    <3>2. CASE i # m + 1
      <4>1. /\ i \in 0 .. m
            /\ (~ (i < node) /\ i # node => i - 1 \in 0 .. m + 1 /\ i - 1 # m + 1)
        BY <3>2
      <4> QED BY <2>2, <3>2, <4>1
    <3> QED BY <3>1, <3>2
  <2>4. IsRerun(plan, base, node, new, g, m + 1)
    <3>1. g = [i \in 0 .. m + 1 |-> g[i]]  OBVIOUS
    <3> HIDE DEF g
    <3> QED BY <2>3, <3>1 DEF IsRerun
  <2> QED BY <2>4
<1>3. n \in S
  <2> HIDE DEF S
  <2> QED BY <1>1, <1>2, SetInduction
<1> QED BY <1>3

LEMMA RerunRuns ==
    ASSUME NEW plan, IsPlan(plan), NEW base, NEW node \in Nat, NEW table, NEW lineage
    PROVE  \E done : /\ IsRerun(plan, base, node, Done(table, lineage), done, OutputNode(plan))
                     /\ RerunFrom(plan, base, node, table, lineage) = Collected(done)
<1> DEFINE done == CHOOSE f : IsRerun(plan, base, node, Done(table, lineage), f, OutputNode(plan))
<1>1. IsRerun(plan, base, node, Done(table, lineage), done, OutputNode(plan))
  BY PlanNodes, RerunExists
<1>2. RerunFrom(plan, base, node, table, lineage) = Collected(done)
  BY PlanNodes DEF RerunFrom, IsRerun
<1> QED BY <1>1, <1>2

\* d's steps after m are what the operators make, if none before failed.
Continues(plan, d, m, n) == \A i \in m + 1 .. n : d[i] = NextStep(plan, i, d[i - 1])

AgreeAt(d1, d2, m, i) ==
    /\ d1[i].ok <=> d2[i].ok
    /\ d1[i].ok => d1[i].table = d2[i].table
    /\ d1[i].ok /\ i # m => d1[i].lineage = d2[i].lineage

\* Two runs of the same steps that agree on step m's outcome agree from there.
LEMMA SameOutcomes ==
    ASSUME NEW plan, NEW d1, NEW d2, NEW m \in Nat, NEW n \in Nat,
           AgreeAt(d1, d2, m, m), Continues(plan, d1, m, n), Continues(plan, d2, m, n)
    PROVE  \A i \in m .. n : AgreeAt(d1, d2, m, i)
<1> DEFINE Same(i) == AgreeAt(d1, d2, m, i)
           S == {k \in Nat : m + k <= n => Same(m + k)}
<1>1. 0 \in S
  <2>1. m + 0 = m  OBVIOUS
  <2>2. Same(m + 0)  BY <2>1
  <2> QED BY <2>2
<1>2. ASSUME NEW k \in Nat, k \in S PROVE k + 1 \in S
  <2> SUFFICES ASSUME m + (k + 1) <= n PROVE Same(m + (k + 1))  OBVIOUS
  <2> DEFINE i == m + (k + 1)
  <2>1. i \in m + 1 .. n /\ i - 1 = m + k /\ m + k <= n /\ i # m  OBVIOUS
  <2>2. Same(i - 1)  BY <1>2, <2>1
  <2>3. d1[i] = NextStep(plan, i, d1[i - 1]) /\ d2[i] = NextStep(plan, i, d2[i - 1])
    BY <2>1 DEF Continues
  <2> HIDE DEF i
  <2>4. CASE d1[i - 1].ok
    <3>1. d1[i - 1].table = d2[i - 1].table /\ d2[i - 1].ok  BY <2>2, <2>4 DEF AgreeAt
    <3>2. d1[i] = d2[i]  BY <2>3, <2>4, <3>1 DEF NextStep
    <3> QED BY <3>2 DEF i, AgreeAt
  <2>5. CASE ~ d1[i - 1].ok
    <3>1. ~ d2[i - 1].ok  BY <2>2, <2>5 DEF AgreeAt
    <3>2. d1[i] = d1[i - 1] /\ d2[i] = d2[i - 1]  BY <2>3, <2>5, <3>1 DEF NextStep
    <3>3. ~ d1[i].ok /\ ~ d2[i].ok  BY <2>5, <3>1, <3>2
    <3> QED BY <3>3 DEF i, AgreeAt
  <2> QED BY <2>4, <2>5
<1>3. \A k \in Nat : k \in S
  <2> HIDE DEF S
  <2> QED BY <1>1, <1>2, SetInduction
<1>4. ASSUME NEW i \in m .. n PROVE Same(i)
  <2>1. i - m \in Nat /\ m + (i - m) = i /\ i <= n  OBVIOUS
  <2>2. i - m \in S  BY <1>3, <2>1
  <2> QED BY <2>1, <2>2
<1> QED BY <1>4

(***************************************************************************)
(* Traces, step by step.                                                   *)
(***************************************************************************)

IsBehind(steps, node, R, f) ==
    f = [j \in 0 .. node |-> IF j = node THEN R ELSE Store(steps)!StepBack(j + 1, f[j + 1])]

\* What is behind R at one step is behind what is one step behind R.
LEMMA BehindStep ==
    ASSUME NEW steps, NEW n \in Nat, NEW R, NEW f,
           IsBehind(steps, n, Store(steps)!StepBack(n + 1, R), f)
    PROVE  IsBehind(steps, n + 1, R, [j \in 0 .. n + 1 |-> IF j = n + 1 THEN R ELSE f[j]])
<1> DEFINE g == [j \in 0 .. n + 1 |-> IF j = n + 1 THEN R ELSE f[j]]
           Back(j, X) == Store(steps)!StepBack(j, X)
<1> HIDE DEF Back
<1>1. \A j \in 0 .. n : f[j] = IF j = n THEN Back(n + 1, R) ELSE Back(j + 1, f[j + 1])
  BY DEF IsBehind, Back
<1>2. \A j \in 0 .. n + 1 : g[j] = IF j = n + 1 THEN R ELSE Back(j + 1, g[j + 1])
  <2> TAKE j \in 0 .. n + 1
  <2>1. CASE j = n + 1  BY <2>1
  <2>2. CASE j = n
    <3>1. j \in 0 .. n /\ j # n + 1 /\ j + 1 = n + 1 /\ g[j + 1] = R  BY <2>2
    <3> QED BY <1>1, <2>2, <3>1
  <2>3. CASE j # n + 1 /\ j # n
    <3>1. j \in 0 .. n /\ j + 1 \in 0 .. n + 1 /\ j + 1 # n + 1  BY <2>3
    <3> QED BY <1>1, <2>3, <3>1
  <2> QED BY <2>1, <2>2, <2>3
<1>3. g = [j \in 0 .. n + 1 |-> g[j]]  OBVIOUS
<1> HIDE DEF g
<1>4. IsBehind(steps, n + 1, R, g)  BY <1>2, <1>3 DEF IsBehind, Back
<1> QED BY <1>4 DEF g

LEMMA BehindExists ==
    ASSUME NEW steps, NEW n \in Nat, NEW R
    PROVE  \E f : IsBehind(steps, n, R, f)
<1> DEFINE S == {m \in Nat : \A Q : \E f : IsBehind(steps, m, Q, f)}
<1>1. 0 \in S
  <2> SUFFICES ASSUME NEW Q PROVE \E f : IsBehind(steps, 0, Q, f)  OBVIOUS
  <2> DEFINE f == [j \in 0 .. 0 |-> Q]
  <2>1. IsBehind(steps, 0, Q, f)  BY DEF IsBehind
  <2> QED BY <2>1
<1>2. ASSUME NEW m \in Nat, m \in S PROVE m + 1 \in S
  <2> SUFFICES ASSUME NEW Q PROVE \E f : IsBehind(steps, m + 1, Q, f)  OBVIOUS
  <2>1. PICK f : IsBehind(steps, m, Store(steps)!StepBack(m + 1, Q), f)  BY <1>2
  <2> QED BY <2>1, BehindStep
<1>3. n \in S
  <2> HIDE DEF S
  <2> QED BY <1>1, <1>2, SetInduction
<1> QED BY <1>3

LEMMA BehindUnique ==
    ASSUME NEW steps, NEW n \in Nat, NEW R, NEW f, NEW g,
           IsBehind(steps, n, R, f), IsBehind(steps, n, R, g)
    PROVE  f = g
<1> DEFINE S == {k \in Nat : k <= n => f[n - k] = g[n - k]}
           Back(j, X) == Store(steps)!StepBack(j, X)
<1> HIDE DEF Back
<1>0. \A j \in 0 .. n : /\ f[j] = IF j = n THEN R ELSE Back(j + 1, f[j + 1])
                        /\ g[j] = IF j = n THEN R ELSE Back(j + 1, g[j + 1])
  BY DEF IsBehind, Back
<1>1. 0 \in S
  <2>1. n - 0 = n /\ n \in 0 .. n  OBVIOUS
  <2> QED BY <1>0, <2>1
<1>2. ASSUME NEW k \in Nat, k \in S PROVE k + 1 \in S
  <2> SUFFICES ASSUME k + 1 <= n PROVE f[n - (k + 1)] = g[n - (k + 1)]  OBVIOUS
  <2>1. /\ n - (k + 1) \in 0 .. n /\ n - (k + 1) # n /\ (n - (k + 1)) + 1 = n - k
        /\ f[n - k] = g[n - k]
    BY <1>2
  <2> QED BY <1>0, <2>1
<1>3. \A k \in Nat : k \in S
  <2> HIDE DEF S
  <2> QED BY <1>1, <1>2, SetInduction
<1>4. ASSUME NEW j \in 0 .. n PROVE f[j] = g[j]
  <2>1. n - j \in Nat /\ n - j <= n /\ n - (n - j) = j  OBVIOUS
  <2>2. n - j \in S  BY <1>3, <2>1
  <2> QED BY <2>1, <2>2
<1>5. f = [j \in 0 .. n |-> f[j]] /\ g = [j \in 0 .. n |-> g[j]]  BY DEF IsBehind
<1> QED BY <1>4, <1>5

LEMMA BackwardIs ==
    ASSUME NEW steps, NEW n \in Nat, NEW R, NEW f, IsBehind(steps, n, R, f), NEW i \in 0 .. n
    PROVE  Backward(steps, n, R, i) = f[i]
<1> DEFINE b == CHOOSE g : IsBehind(steps, n, R, g)
<1>1. IsBehind(steps, n, R, b)  OBVIOUS
<1>2. b = f  BY <1>1, BehindUnique
<1>3. Backward(steps, n, R, i) = b[i]  BY DEF Backward, IsBehind
<1> QED BY <1>2, <1>3

LEMMA SourceRowsScan ==
    ASSUME NEW steps, NEW R
    PROVE  SourceRows(steps, 0, R) = Store(steps)!StepBack(0, R)
<1>1. PICK f : IsBehind(steps, 0, R, f)  BY BehindExists
<1>2. f[0] = R  BY <1>1 DEF IsBehind
<1>3. Backward(steps, 0, R, 0) = R  BY <1>1, <1>2, BackwardIs
<1> QED BY <1>3 DEF SourceRows

LEMMA SourceRowsStep ==
    ASSUME NEW steps, NEW n \in Nat \ {0}, NEW R
    PROVE  SourceRows(steps, n, R) = SourceRows(steps, n - 1, Store(steps)!StepBack(n, R))
<1> DEFINE Q == Store(steps)!StepBack(n, R)
<1>0. n - 1 \in Nat /\ (n - 1) + 1 = n /\ 0 \in 0 .. n - 1 /\ 0 \in 0 .. n /\ 0 # n  OBVIOUS
<1>1. PICK f : IsBehind(steps, n - 1, Q, f)  BY <1>0, BehindExists
<1> DEFINE g == [j \in 0 .. n |-> IF j = n THEN R ELSE f[j]]
<1>2. IsBehind(steps, n, R, g)
  <2>1. IsBehind(steps, n - 1, Store(steps)!StepBack((n - 1) + 1, R), f)  BY <1>0, <1>1
  <2>2. IsBehind(steps, (n - 1) + 1, R,
                 [j \in 0 .. (n - 1) + 1 |-> IF j = (n - 1) + 1 THEN R ELSE f[j]])
    BY <1>0, <2>1, BehindStep
  <2> QED BY <1>0, <2>2
<1>3. g[0] = f[0]  BY <1>0
<1> HIDE DEF g, Q
<1>4. Backward(steps, n, R, 0) = Backward(steps, n - 1, Q, 0)
  BY <1>0, <1>1, <1>2, <1>3, BackwardIs
<1> QED BY <1>4 DEF SourceRows, Q

\* One step of forward, with the inverse that it takes.
FlowsOn(steps, i, R) ==
    Store(steps)!StepForward(i, R, IF Store(steps)!NeedsInverse(i)
                                   THEN Store(steps)!InverseOf(i) ELSE << >>)

IsFlow(steps, rows, n, f) ==
    f = [i \in 0 .. n |-> FlowsOn(steps, i, IF i = 0 THEN rows ELSE f[i - 1])]

LEMMA FlowStep ==
    ASSUME NEW steps, NEW rows, NEW n \in Nat, NEW f, IsFlow(steps, rows, n, f)
    PROVE  IsFlow(steps, rows, n + 1,
                  [i \in 0 .. n + 1 |-> IF i = n + 1 THEN FlowsOn(steps, i, f[n]) ELSE f[i]])
<1> DEFINE g == [i \in 0 .. n + 1 |-> IF i = n + 1 THEN FlowsOn(steps, i, f[n]) ELSE f[i]]
<1>1. \A i \in 0 .. n : f[i] = FlowsOn(steps, i, IF i = 0 THEN rows ELSE f[i - 1])
  BY DEF IsFlow
<1>2. \A i \in 0 .. n + 1 : g[i] = FlowsOn(steps, i, IF i = 0 THEN rows ELSE g[i - 1])
  <2> TAKE i \in 0 .. n + 1
  <2>1. CASE i = n + 1
    <3>1. i # 0 /\ i - 1 = n /\ n # n + 1 /\ n \in 0 .. n + 1  BY <2>1
    <3>2. g[i - 1] = f[n]  BY <3>1
    <3> QED BY <2>1, <3>1, <3>2
  <2>2. CASE i # n + 1
    <3>1. i \in 0 .. n /\ (i # 0 => i - 1 \in 0 .. n + 1 /\ i - 1 # n + 1)  BY <2>2
    <3>2. g[i] = f[i] /\ (i # 0 => g[i - 1] = f[i - 1])  BY <2>2, <3>1
    <3> HIDE DEF g
    <3> QED BY <1>1, <3>1, <3>2
  <2> QED BY <2>1, <2>2
<1>3. g = [i \in 0 .. n + 1 |-> g[i]]  OBVIOUS
<1> HIDE DEF g
<1>4. IsFlow(steps, rows, n + 1, g)  BY <1>2, <1>3 DEF IsFlow
<1> QED BY <1>4 DEF g

LEMMA FlowExists ==
    ASSUME NEW steps, NEW rows, NEW n \in Nat
    PROVE  \E f : IsFlow(steps, rows, n, f)
<1> DEFINE S == {m \in Nat : \E f : IsFlow(steps, rows, m, f)}
<1>1. 0 \in S
  <2> DEFINE f == [i \in 0 .. 0 |-> FlowsOn(steps, i, rows)]
  <2>1. IsFlow(steps, rows, 0, f)  BY DEF IsFlow
  <2> QED BY <2>1
<1>2. ASSUME NEW m \in Nat, m \in S PROVE m + 1 \in S
  <2>1. PICK f : IsFlow(steps, rows, m, f)  BY <1>2
  <2>2. \E g : IsFlow(steps, rows, m + 1, g)  BY <2>1, FlowStep
  <2> QED BY <2>2
<1>3. n \in S
  <2> HIDE DEF S
  <2> QED BY <1>1, <1>2, SetInduction
<1> QED BY <1>3

LEMMA FlowUnique ==
    ASSUME NEW steps, NEW rows, NEW n \in Nat, NEW f, NEW g,
           IsFlow(steps, rows, n, f), IsFlow(steps, rows, n, g)
    PROVE  f = g
<1> DEFINE S == {k \in Nat : k <= n => f[k] = g[k]}
<1>0. \A i \in 0 .. n : /\ f[i] = FlowsOn(steps, i, IF i = 0 THEN rows ELSE f[i - 1])
                        /\ g[i] = FlowsOn(steps, i, IF i = 0 THEN rows ELSE g[i - 1])
  BY DEF IsFlow
<1>1. 0 \in S
  <2>1. 0 \in 0 .. n  OBVIOUS
  <2> QED BY <1>0, <2>1
<1>2. ASSUME NEW k \in Nat, k \in S PROVE k + 1 \in S
  <2> SUFFICES ASSUME k + 1 <= n PROVE f[k + 1] = g[k + 1]  OBVIOUS
  <2>1. k + 1 \in 0 .. n /\ k + 1 # 0 /\ (k + 1) - 1 = k /\ f[k] = g[k]  BY <1>2
  <2>2. f[k + 1] = FlowsOn(steps, k + 1, f[k]) /\ g[k + 1] = FlowsOn(steps, k + 1, g[k])
    BY <1>0, <2>1
  <2> QED BY <2>1, <2>2
<1>3. \A k \in Nat : k \in S
  <2> HIDE DEF S
  <2> QED BY <1>1, <1>2, SetInduction
<1>4. ASSUME NEW i \in 0 .. n PROVE f[i] = g[i]
  <2>1. i \in S  BY <1>3
  <2> QED BY <2>1
<1>5. f = [i \in 0 .. n |-> f[i]] /\ g = [i \in 0 .. n |-> g[i]]  BY DEF IsFlow
<1> QED BY <1>4, <1>5

LEMMA ForwardIs ==
    ASSUME NEW steps, NEW rows, NEW n \in Nat, NEW f, IsFlow(steps, rows, n, f)
    PROVE  Forward(steps, rows, n) = f[n]
<1> DEFINE b == CHOOSE g : IsFlow(steps, rows, n, g)
<1>1. IsFlow(steps, rows, n, b)  OBVIOUS
<1>2. b = f  BY <1>1, FlowUnique
<1>3. Forward(steps, rows, n) = b[n]  BY DEF Forward, IsFlow, FlowsOn
<1> QED BY <1>2, <1>3

LEMMA ForwardScan ==
    ASSUME NEW steps, NEW rows
    PROVE  Forward(steps, rows, 0) = FlowsOn(steps, 0, rows)
<1>1. PICK f : IsFlow(steps, rows, 0, f)  BY FlowExists
<1>2. f[0] = FlowsOn(steps, 0, rows)  BY <1>1 DEF IsFlow
<1> QED BY <1>1, <1>2, ForwardIs

LEMMA ForwardStep ==
    ASSUME NEW steps, NEW rows, NEW n \in Nat \ {0}
    PROVE  Forward(steps, rows, n) = FlowsOn(steps, n, Forward(steps, rows, n - 1))
<1>1. n - 1 \in Nat /\ (n - 1) + 1 = n /\ n \in 0 .. n  OBVIOUS
<1>2. PICK f : IsFlow(steps, rows, n - 1, f)  BY <1>1, FlowExists
<1> DEFINE g == [i \in 0 .. n |-> IF i = n THEN FlowsOn(steps, i, f[n - 1]) ELSE f[i]]
<1>3. IsFlow(steps, rows, n, g)
  <2>1. IsFlow(steps, rows, (n - 1) + 1,
               [i \in 0 .. (n - 1) + 1 |-> IF i = (n - 1) + 1 THEN FlowsOn(steps, i, f[n - 1])
                                           ELSE f[i]])
    BY <1>1, <1>2, FlowStep
  <2> QED BY <1>1, <2>1
<1>4. g[n] = FlowsOn(steps, n, f[n - 1])  BY <1>1
<1> HIDE DEF g
<1> QED BY <1>1, <1>2, <1>3, <1>4, ForwardIs

\* A trace goes through the steps it passes only.
LEMMA StepBackSame ==
    ASSUME NEW s1, NEW s2, NEW i, s1[i] = s2[i], NEW R
    PROVE  Store(s1)!StepBack(i, R) = Store(s2)!StepBack(i, R)
<1>1. \A r : Store(s1)!Parents(i, r) = Store(s2)!Parents(i, r)  BY DEF Store!Parents
<1> QED BY <1>1 DEF Store!StepBack

LEMMA SourceRowsSame ==
    ASSUME NEW s1, NEW s2, NEW n \in Nat, \A i \in 0 .. n : s1[i] = s2[i], NEW R
    PROVE  SourceRows(s1, n, R) = SourceRows(s2, n, R)
<1> DEFINE S == {k \in Nat : k <= n => \A Q : SourceRows(s1, k, Q) = SourceRows(s2, k, Q)}
<1>1. 0 \in S
  <2>1. s1[0] = s2[0]  OBVIOUS
  <2> QED BY <2>1, SourceRowsScan, StepBackSame
<1>2. ASSUME NEW k \in Nat, k \in S PROVE k + 1 \in S
  <2> SUFFICES ASSUME k + 1 <= n, NEW Q
               PROVE SourceRows(s1, k + 1, Q) = SourceRows(s2, k + 1, Q)
    OBVIOUS
  <2>1. /\ k + 1 \in Nat \ {0} /\ (k + 1) - 1 = k /\ s1[k + 1] = s2[k + 1]
        /\ \A X : SourceRows(s1, k, X) = SourceRows(s2, k, X)
    BY <1>2
  <2>2. Store(s1)!StepBack(k + 1, Q) = Store(s2)!StepBack(k + 1, Q)  BY <2>1, StepBackSame
  <2> QED BY <2>1, <2>2, SourceRowsStep
<1>3. n \in S
  <2> HIDE DEF S
  <2> QED BY <1>1, <1>2, SetInduction
<1> QED BY <1>3

(***************************************************************************)
(* Tables and lineage records.                                             *)
(***************************************************************************)

\* The rows that row r of a step with lineage s is made of.
MadeOf(s, r) ==
    CASE s.kind \in {"Source", "Identity"}     -> {r}
      [] s.kind \in {"Select", "SourceSubset"} -> {s.rows[r]}
      [] s.kind = "Group"                      -> s.members[r]

LEMMA StepBackMadeOf ==
    ASSUME NEW steps, NEW i, NEW R
    PROVE  Store(steps)!StepBack(i, R) = UNION {MadeOf(steps[i], r) : r \in R}
<1>1. \A r : Store(steps)!Parents(i, r) = MadeOf(steps[i], r)  BY DEF Store!Parents, MadeOf
<1> QED BY <1>1 DEF Store!StepBack

\* s maps the rows below s.len to rows below m, no two rows to the same one.
MapsBelow(s, m) ==
    /\ s.len \in Nat
    /\ \A r \in 0 .. s.len - 1 : MadeOf(s, r) \subseteq 0 .. m - 1
    /\ \A r, q \in 0 .. s.len - 1 : MadeOf(s, r) \cap MadeOf(s, q) # {} => r = q

IsScanOf(s, m) ==
    /\ \/ s.kind = "Source" /\ s.len = m
       \/ s.kind = "SourceSubset" /\ s.source_len = m
    /\ MapsBelow(s, m)

IsStepOn(s, m) == s.kind \in {"Identity", "Select", "Group"} /\ MapsBelow(s, m)

\* Where forward goes on to: the rows made of one of R.
LEMMA FlowsAre ==
    ASSUME NEW steps, NEW i \in DOMAIN steps, NEW m \in Nat, NEW R \in SUBSET Nat,
           \/ IsScanOf(steps[i], m)
           \/ IsStepOn(steps[i], m) /\ steps[i - 1].len = m
    PROVE  FlowsOn(steps, i, R)
             = {o \in 0 .. steps[i].len - 1 : MadeOf(steps[i], o) \cap R # {}}
<1> DEFINE s == steps[i]
           in == Store(steps)!InRows(i)
           inv == Store(steps)!InverseOf(i)
<1>1. CASE s.kind \in {"Source", "Identity"}
  <2>1. FlowsOn(steps, i, R) = {r \in R : r < s.len}
    BY <1>1 DEF FlowsOn, Store!StepForward
  <2>2. \A o : MadeOf(s, o) = {o}  BY <1>1 DEF MadeOf
  <2>3. s.len \in Nat  BY DEF IsScanOf, IsStepOn, MapsBelow
  <2>4. \A r : r \in R /\ r < s.len <=> r \in 0 .. s.len - 1 /\ r \in R
    <3> HIDE DEF s
    <3> TAKE r
    <3>1. r \in R => r \in Nat  OBVIOUS
    <3> QED BY <2>3, <3>1
  <2> HIDE DEF s
  <2>5. {r \in R : r < s.len} = {o \in 0 .. s.len - 1 : {o} \cap R # {}}  BY <2>4
  <2> QED BY <2>1, <2>2, <2>5 DEF s
<1>2. CASE s.kind \in {"Select", "SourceSubset", "Group"}
  <2>1. FlowsOn(steps, i, R) = {inv[r] : r \in R \cap in} \ {-1}
    BY <1>2 DEF FlowsOn, Store!StepForward, Store!NeedsInverse, Store!Dropped
  <2>2. in = 0 .. m - 1
    <3>1. CASE s.kind = "SourceSubset"
      BY <3>1 DEF IsScanOf, IsStepOn, Store!InRows
    <3>2. CASE s.kind \in {"Select", "Group"}
      <4>1. in = Store(steps)!OutRows(i - 1)  BY <3>2 DEF Store!InRows
      <4> QED BY <3>2, <4>1 DEF IsScanOf, IsStepOn, Store!OutRows
    <3> QED BY <1>2, <3>1, <3>2
  <2>3. MapsBelow(s, m)  BY DEF IsScanOf, IsStepOn
  <2>4. \A r \in in : inv[r] =
            LET outs == {o \in 0 .. s.len - 1 : r \in MadeOf(s, o)}
            IN  IF outs = {} THEN -1 ELSE CHOOSE o \in outs : \A p \in outs : p <= o
    <3>1. \A o : Store(steps)!Parents(i, o) = MadeOf(s, o)  BY DEF Store!Parents, MadeOf
    <3>2. \A r : {o \in Store(steps)!OutRows(i) : r \in Store(steps)!Parents(i, o)}
                 = {o \in 0 .. s.len - 1 : r \in MadeOf(s, o)}
      BY <3>1 DEF Store!OutRows
    <3>3. \A r \in in : inv[r] =
            LET outs == {o \in Store(steps)!OutRows(i) : r \in Store(steps)!Parents(i, o)}
            IN  IF outs = {} THEN -1 ELSE CHOOSE o \in outs : \A p \in outs : p <= o
      BY DEF Store!InverseOf, Store!Dropped
    <3> HIDE DEF in, inv, s
    <3> QED BY <3>2, <3>3
  <2>5. ASSUME NEW r \in in, NEW o \in 0 .. s.len - 1, r \in MadeOf(s, o)
        PROVE  inv[r] = o
    <3> DEFINE outs == {p \in 0 .. s.len - 1 : r \in MadeOf(s, p)}
    <3>1. outs = {o}  BY <2>3, <2>5 DEF MapsBelow
    <3>2. o \in Int /\ o <= o  OBVIOUS
    <3>3. (CHOOSE p \in outs : \A q \in outs : q <= p) = o  BY <3>1, <3>2
    <3> QED BY <2>4, <3>1, <3>3
  <2>6. ASSUME NEW r \in in, inv[r] # -1
        PROVE  inv[r] \in 0 .. s.len - 1 /\ r \in MadeOf(s, inv[r])
    <3>1. PICK o \in 0 .. s.len - 1 : r \in MadeOf(s, o)  BY <2>4, <2>6
    <3>2. inv[r] = o  BY <2>5, <3>1
    <3> QED BY <3>1, <3>2
  <2>7. \A o \in 0 .. s.len - 1 : o # -1 /\ MadeOf(s, o) \subseteq in
    BY <2>2, <2>3 DEF MapsBelow
  <2> HIDE DEF s, in, inv
  <2>8. {inv[r] : r \in R \cap in} \ {-1} = {o \in 0 .. s.len - 1 : MadeOf(s, o) \cap R # {}}
    BY <2>5, <2>6, <2>7
  <2> QED BY <2>1, <2>8 DEF s
<1> QED BY <1>1, <1>2 DEF IsScanOf, IsStepOn

\* What is behind several rows is what is behind each of them.
LEMMA SourceRowsEach ==
    ASSUME NEW steps, NEW n \in Nat, NEW R
    PROVE  \A z : z \in SourceRows(steps, n, R)
                     <=> \E r \in R : z \in SourceRows(steps, n, {r})
<1> DEFINE Src(k, Q) == SourceRows(steps, k, Q)
           Back(k, Q) == Store(steps)!StepBack(k, Q)
           OfEach(k) == \A Q : \A z : z \in Src(k, Q) <=> \E r \in Q : z \in Src(k, {r})
           S == {k \in Nat : OfEach(k)}
<1>1. ASSUME NEW k, NEW Q
      PROVE  \A z : z \in Back(k, Q) <=> \E r \in Q : z \in Back(k, {r})
  <2>1. \A X : \A z : z \in Back(k, X) <=> \E r \in X : z \in MadeOf(steps[k], r)
    BY StepBackMadeOf
  <2> HIDE DEF Back
  <2> QED BY <2>1
<1>2. OfEach(0)
  <2>1. \A Q : Src(0, Q) = Back(0, Q)  BY SourceRowsScan
  <2>2. ASSUME NEW Q, NEW z
        PROVE  z \in Src(0, Q) <=> \E r \in Q : z \in Src(0, {r})
    <3>1. z \in Back(0, Q) <=> \E r \in Q : z \in Back(0, {r})  BY <1>1
    <3> HIDE DEF Src, Back
    <3> QED BY <2>1, <3>1
  <2> QED BY <2>2
<1>3. ASSUME NEW k \in Nat, OfEach(k) PROVE OfEach(k + 1)
  <2>1. \A X : Src(k + 1, X) = Src(k, Back(k + 1, X))
    <3>1. k + 1 \in Nat \ {0} /\ (k + 1) - 1 = k  OBVIOUS
    <3> QED BY <3>1, SourceRowsStep
  <2>2. \A X : \A z : z \in Src(k, X) <=> \E r \in X : z \in Src(k, {r})  BY <1>3
  <2> HIDE DEF Src, Back
  <2>3. ASSUME NEW Q, NEW z
        PROVE  z \in Src(k + 1, Q) <=> \E r \in Q : z \in Src(k + 1, {r})
    <3>1. z \in Src(k + 1, Q) <=> \E x \in Back(k + 1, Q) : z \in Src(k, {x})
      BY <2>1, <2>2
    <3>2. \A r : z \in Src(k + 1, {r}) <=> \E x \in Back(k + 1, {r}) : z \in Src(k, {x})
      BY <2>1, <2>2
    <3>3. \A x : x \in Back(k + 1, Q) <=> \E r \in Q : x \in Back(k + 1, {r})  BY <1>1
    <3> QED BY <3>1, <3>2, <3>3
  <2> QED BY <2>3
<1> HIDE DEF OfEach
<1>4. n \in S
  <2>1. 0 \in S  BY <1>2
  <2>2. \A k \in Nat : k \in S => k + 1 \in S  BY <1>3
  <2> HIDE DEF S
  <2> QED BY <2>1, <2>2, SetInduction
<1>5. OfEach(n)  BY <1>4
<1> QED BY <1>5 DEF OfEach

LEMMA SourceRowsOfEach ==
    ASSUME NEW steps, NEW n \in Nat, NEW R
    PROVE  SourceRows(steps, n, R) = UNION {SourceRows(steps, n, {r}) : r \in R}
<1> DEFINE Src(X) == SourceRows(steps, n, X)
<1>1. \A z : z \in Src(R) <=> \E r \in R : z \in Src({r})  BY SourceRowsEach
<1> HIDE DEF Src
<1>2. Src(R) = UNION {Src({r}) : r \in R}  BY <1>1
<1> QED BY <1>2 DEF Src

\* Each row of R is made of the same snapshot rows in two executions.
SameBehind(s1, s2, n, R) ==
    \A r \in R : SourceRows(s1, n, {r}) = SourceRows(s2, n, {r})

LEMMA SameOfEach ==
    ASSUME NEW s1, NEW s2, NEW n \in Nat, NEW R, SameBehind(s1, s2, n, R)
    PROVE  SourceRows(s1, n, R) = SourceRows(s2, n, R)
<1>1. \A z : z \in SourceRows(s1, n, R) <=> \E r \in R : z \in SourceRows(s1, n, {r})
  BY SourceRowsEach
<1>2. \A z : z \in SourceRows(s2, n, R) <=> \E r \in R : z \in SourceRows(s2, n, {r})
  BY SourceRowsEach
<1> QED BY <1>1, <1>2 DEF SameBehind

LEMMA HeightIs ==
    ASSUME NEW t, NEW n \in Nat, DOMAIN t = 0 .. n - 1
    PROVE  Height(t) = n /\ IsFiniteSet(DOMAIN t)
<1>1. 0 \in Int /\ n - 1 \in Int  OBVIOUS
<1> QED BY <1>1, FS_Interval DEF Height

LEMMA TableRows ==
    ASSUME NEW t, IsTable(t)
    PROVE  /\ Height(t) \in Nat /\ DOMAIN t = 0 .. Height(t) - 1
           /\ IsFiniteSet(DOMAIN t) /\ Cardinality(DOMAIN t) = Height(t)
           /\ \A r \in DOMAIN t : t[r].k \in Int /\ t[r].n \in Int
  BY FS_CardinalityType DEF IsTable, IsRow, Height

LEMMA GatherTable ==
    ASSUME NEW t, IsTable(t), NEW m \in Nat, NEW f \in [0 .. m - 1 -> DOMAIN t]
    PROVE  /\ IsTable(Gather(t, f)) /\ Height(Gather(t, f)) = m
           /\ DOMAIN Gather(t, f) = 0 .. m - 1
           /\ \A i \in 0 .. m - 1 : Gather(t, f)[i] = t[f[i]]
<1>1. DOMAIN Gather(t, f) = 0 .. m - 1 /\ \A i \in 0 .. m - 1 : Gather(t, f)[i] = t[f[i]]
  BY DEF Gather
<1>2. Height(Gather(t, f)) = m /\ IsFiniteSet(DOMAIN Gather(t, f))  BY <1>1, HeightIs
<1>3. Gather(t, f) = [i \in DOMAIN Gather(t, f) |-> Gather(t, f)[i]]  BY DEF Gather
<1>4. \A i \in 0 .. m - 1 : IsRow(t[f[i]])  BY DEF IsTable
<1> QED BY <1>1, <1>2, <1>3, <1>4 DEF IsTable

\* The outcome r takes from table t its rows f, in that order.
Takes(r, t, f, m) ==
    /\ r.ok /\ r.table = Gather(t, f)
    /\ m \in Nat /\ f \in [0 .. m - 1 -> DOMAIN t]
    /\ \A i, j \in 0 .. m - 1 : f[i] = f[j] => i = j
    /\ r.lineage.kind \in {"Identity", "Select"} /\ r.lineage.len = m
    /\ \A i \in 0 .. m - 1 : MadeOf(r.lineage, i) = {f[i]}

LEMMA TakesTyped ==
    ASSUME NEW r, NEW t, IsTable(t), NEW f, NEW m, Takes(r, t, f, m)
    PROVE  /\ IsTable(r.table) /\ Height(r.table) = m
           /\ IsStepOn(r.lineage, Height(t)) /\ r.lineage.len = m
<1>1. IsTable(r.table) /\ Height(r.table) = m  BY GatherTable DEF Takes
<1>2. MapsBelow(r.lineage, Height(t))
  <2>1. \A i \in 0 .. m - 1 : MadeOf(r.lineage, i) \subseteq 0 .. Height(t) - 1
    BY TableRows DEF Takes
  <2>2. \A i, j \in 0 .. m - 1 : MadeOf(r.lineage, i) \cap MadeOf(r.lineage, j) # {} => i = j
    <3>1. \A i, j \in 0 .. m - 1 : {f[i]} \cap {f[j]} # {} => i = j  BY DEF Takes
    <3> QED BY <3>1 DEF Takes
  <2> QED BY <2>1, <2>2 DEF MapsBelow, Takes
<1> QED BY <1>1, <1>2 DEF IsStepOn, Takes

LEMMA GatherAll ==
    ASSUME NEW t, IsTable(t)
    PROVE  /\ Ascending(DOMAIN t) = [i \in DOMAIN t |-> i]
           /\ Gather(t, [i \in DOMAIN t |-> i]) = t
<1>1. Ascending(DOMAIN t) = [i \in DOMAIN t |-> i]  BY TableRows, AscendingBelow
<1>2. t = [r \in DOMAIN t |-> t[r]]  BY DEF IsTable
<1>3. Gather(t, [i \in DOMAIN t |-> i]) = [r \in DOMAIN t |-> t[r]]  BY DEF Gather
<1> QED BY <1>1, <1>2, <1>3

\* The rows that a filter keeps.
Passing(op, t) == {r \in DOMAIN t : Holds(op, t[r])}

LEMMA FilterTakes ==
    ASSUME NEW op, NEW t, IsTable(t)
    PROVE  Takes(Filter(op, t), t, Ascending(Passing(op, t)), Cardinality(Passing(op, t)))
<1> DEFINE H == Passing(op, t)
           f == Ascending(H)
           m == Cardinality(H)
<1>1. H \subseteq DOMAIN t /\ H \in SUBSET Int /\ IsFiniteSet(H)
  <2>1. H \subseteq DOMAIN t  BY DEF Passing
  <2>2. DOMAIN t \subseteq Int  BY TableRows
  <2> QED BY <2>1, <2>2, TableRows, FS_Subset
<1>2. Lists(f, m, H, Less)  BY <1>1, AscendingLists
<1>3. m \in Nat /\ f \in [0 .. m - 1 -> DOMAIN t]  BY <1>1, <1>2 DEF Lists
<1>4. \A i, j \in 0 .. m - 1 : f[i] = f[j] => i = j
  <2>1. Asymmetric(Less, H)  BY <1>1, LessOrders DEF Orders
  <2> QED BY <1>2, <2>1, ListsInjective
<1>5. Height(f) = m  BY <1>3, HeightIs
<1>6. Filter(op, t) = IF Height(f) = Height(t) THEN Done(t, Identity(Height(t)))
                      ELSE Done(Gather(t, f), Select(f))
  BY DEF Filter, Passing
<1>7. CASE m = Height(t)
  <2>1. H = DOMAIN t  BY <1>1, <1>7, TableRows, FS_Subset
  <2>2. f = [i \in DOMAIN t |-> i] /\ Gather(t, f) = t  BY <2>1, GatherAll
  <2>3. Filter(op, t) = Done(t, Identity(m))  BY <1>5, <1>6, <1>7
  <2>4. 0 .. m - 1 = DOMAIN t  BY <1>7, TableRows
  <2>5. \A i \in 0 .. m - 1 : MadeOf(Identity(m), i) = {f[i]}
    BY <2>2, <2>4 DEF MadeOf, Identity
  <2>6. Takes(Filter(op, t), t, f, m)
    <3> HIDE DEF f, m, H
    <3> QED BY <1>3, <1>4, <2>2, <2>3, <2>5 DEF Takes, Done, Identity
  <2> QED BY <2>6
<1>8. CASE m # Height(t)
  <2>1. Filter(op, t) = Done(Gather(t, f), Select(f))  BY <1>5, <1>6, <1>8
  <2>2. \A i \in 0 .. m - 1 : MadeOf(Select(f), i) = {f[i]}  BY DEF MadeOf, Select
  <2>3. Takes(Filter(op, t), t, f, m)
    <3> HIDE DEF f, m, H
    <3> QED BY <1>3, <1>4, <1>5, <2>1, <2>2 DEF Takes, Done, Select
  <2> QED BY <2>3
<1> QED BY <1>7, <1>8

\* The order a sort puts rows in.
SortOrder(op, t) ==
    {pair \in (DOMAIN t) \X (DOMAIN t) :
        LET a == t[pair[1]][op.by]
            b == t[pair[2]][op.by]
        IN  \/ a = b /\ pair[1] < pair[2]
            \/ IF op.descending THEN a > b ELSE a < b}

LEMMA SortOrders ==
    ASSUME NEW op, IsStep(op), op.op = "sort", NEW t, IsTable(t)
    PROVE  /\ Orders(SortOrder(op, t), DOMAIN t)
           /\ SortPermutation(op, t) = RankedIn(DOMAIN t, SortOrder(op, t))
<1> DEFINE R == SortOrder(op, t)
           c(x) == t[x][op.by]
           Before(x, y) == \/ c(x) = c(y) /\ x < y
                           \/ IF op.descending THEN c(x) > c(y) ELSE c(x) < c(y)
<1>1. \A x \in DOMAIN t : x \in Int /\ c(x) \in Int
  <2>1. op.by \in {"k", "n"}  BY DEF IsStep
  <2> QED BY <2>1, TableRows
<1>2. \A x, y \in DOMAIN t : <<x, y>> \in R <=> Before(x, y)
  <2> DEFINE P(pair) == Before(pair[1], pair[2])
  <2>1. R = {pair \in (DOMAIN t) \X (DOMAIN t) : P(pair)}  BY DEF SortOrder
  <2>2. \A x, y : P(<<x, y>>) <=> Before(x, y)
    <3> HIDE DEF Before
    <3> QED OBVIOUS
  <2> HIDE DEF P, R, Before
  <2>3. \A z : z \in R <=> z \in (DOMAIN t) \X (DOMAIN t) /\ P(z)  BY <2>1
  <2>4. ASSUME NEW x \in DOMAIN t, NEW y \in DOMAIN t
        PROVE  <<x, y>> \in R <=> Before(x, y)
    <3>1. <<x, y>> \in (DOMAIN t) \X (DOMAIN t)  OBVIOUS
    <3>2. P(<<x, y>>) <=> Before(x, y)  BY <2>2
    <3> QED BY <2>3, <3>1, <3>2
  <2> QED BY <2>4
<1>3. Orders(R, DOMAIN t)
  <2> HIDE DEF R, c
  <2>1. op.descending \in BOOLEAN  BY DEF IsStep
  <2>2. CASE op.descending  BY <1>1, <1>2, <2>2 DEF Orders, Asymmetric
  <2>3. CASE ~ op.descending  BY <1>1, <1>2, <2>3 DEF Orders, Asymmetric
  <2> QED BY <2>1, <2>2, <2>3
<1>4. SortPermutation(op, t) = RankedIn(DOMAIN t, R)
  <2>1. \A x \in DOMAIN t : {y \in DOMAIN t : Before(y, x)} = Earlier(x, DOMAIN t, R)
    <3> HIDE DEF R, c
    <3> QED BY <1>2 DEF Earlier
  <2>2. SortPermutation(op, t)
          = [i \in 0 .. Cardinality(DOMAIN t) - 1 |->
               CHOOSE x \in DOMAIN t : Cardinality({y \in DOMAIN t : Before(y, x)}) = i]
    BY DEF SortPermutation, Ranked
  <2>3. \A i : (CHOOSE x \in DOMAIN t : Cardinality({y \in DOMAIN t : Before(y, x)}) = i)
               = (CHOOSE x \in DOMAIN t : Cardinality(Earlier(x, DOMAIN t, R)) = i)
    BY <2>1
  <2> HIDE DEF R, Before
  <2> QED BY <2>2, <2>3 DEF RankedIn
<1> QED BY <1>3, <1>4

LEMMA SortTakes ==
    ASSUME NEW op, IsStep(op), op.op = "sort", NEW t, IsTable(t)
    PROVE  /\ Takes(Sort(op, t), t, SortPermutation(op, t), Height(t))
           /\ Lists(SortPermutation(op, t), Height(t), DOMAIN t, SortOrder(op, t))
<1> DEFINE f == SortPermutation(op, t)
           m == Height(t)
<1>1. Lists(f, m, DOMAIN t, SortOrder(op, t))  BY SortOrders, RankedLists, TableRows
<1>2. \A i, j \in 0 .. m - 1 : f[i] = f[j] => i = j
  BY <1>1, SortOrders, ListsInjective DEF Orders
<1>3. m \in Nat /\ f \in [0 .. m - 1 -> DOMAIN t]  BY <1>1 DEF Lists
<1>4. Height(f) = m  BY <1>3, HeightIs
<1>5. Sort(op, t) = Done(Gather(t, f), Select(f))  BY DEF Sort
<1>6. \A i \in 0 .. m - 1 : MadeOf(Select(f), i) = {f[i]}  BY DEF MadeOf, Select
<1> HIDE DEF f, m
<1>7. Takes(Sort(op, t), t, f, m)
  BY <1>2, <1>3, <1>4, <1>5, <1>6 DEF Takes, Done, Select
<1> QED BY <1>1, <1>7 DEF f, m

\* The numbers of rows, in the order medians and percentiles take them.
NumberOrder(t) ==
    {pair \in (DOMAIN t) \X (DOMAIN t) :
        \/ t[pair[1]].n < t[pair[2]].n
        \/ t[pair[1]].n = t[pair[2]].n /\ pair[1] < pair[2]}

NumbersSorted(t, M) == RankedIn(Present(t, M), NumberOrder(t))

LEMMA PresentRows ==
    ASSUME NEW t, IsTable(t), NEW M \in SUBSET DOMAIN t
    PROVE  /\ Present(t, M) \subseteq M /\ Present(t, M) \in SUBSET Int
           /\ IsFiniteSet(M) /\ IsFiniteSet(Present(t, M))
           /\ Cardinality(Present(t, M)) \in Nat /\ Cardinality(M) \in Nat
<1>1. Present(t, M) \subseteq M  BY DEF Present
<1>2. DOMAIN t \subseteq Int  BY TableRows
<1> QED BY <1>1, <1>2, TableRows, FS_Subset, FS_CardinalityType

LEMMA NumbersAreSorted ==
    ASSUME NEW t, IsTable(t), NEW M \in SUBSET DOMAIN t
    PROVE  /\ \A x, y \in DOMAIN t : <<x, y>> \in NumberOrder(t) <=>
                    t[x].n < t[y].n \/ (t[x].n = t[y].n /\ x < y)
           /\ Orders(NumberOrder(t), Present(t, M))
           /\ Lists(NumbersSorted(t, M), Cardinality(Present(t, M)), Present(t, M),
                    NumberOrder(t))
           /\ SortedNumbers(t, M) = [i \in DOMAIN NumbersSorted(t, M) |->
                                        t[NumbersSorted(t, M)[i]].n]
<1> DEFINE R == NumberOrder(t)
           P == Present(t, M)
           Before(x, y) == \/ t[x].n < t[y].n
                           \/ t[x].n = t[y].n /\ x < y
<1>1. \A x, y \in DOMAIN t : <<x, y>> \in R <=> Before(x, y)
  <2> SUFFICES ASSUME NEW x \in DOMAIN t, NEW y \in DOMAIN t
               PROVE  <<x, y>> \in R <=> Before(x, y)
    OBVIOUS
  <2>1. <<x, y>> \in (DOMAIN t) \X (DOMAIN t)  OBVIOUS
  <2> QED BY <2>1 DEF NumberOrder
<1>2. P \subseteq DOMAIN t /\ IsFiniteSet(P)  BY PresentRows
<1>3. \A x \in P : x \in Int /\ t[x].n \in Int  BY <1>2, TableRows
<1>4. \A x, y \in P : <<x, y>> \in R <=> Before(x, y)  BY <1>1, <1>2
<1>5. Orders(R, P)
  <2> HIDE DEF R, P
  <2> QED BY <1>3, <1>4 DEF Orders, Asymmetric
<1>6. \A x \in P : {y \in P : Before(y, x)} = Earlier(x, P, R)
  <2> HIDE DEF R, P, Before
  <2> QED BY <1>4 DEF Earlier
<1>7. Ranked(P, Before) = RankedIn(P, R)
  <2>1. \A i : (CHOOSE x \in P : Cardinality({y \in P : Before(y, x)}) = i)
               = (CHOOSE x \in P : Cardinality(Earlier(x, P, R)) = i)
    BY <1>6
  <2>2. Ranked(P, Before)
          = [i \in 0 .. Cardinality(P) - 1 |->
               CHOOSE x \in P : Cardinality({y \in P : Before(y, x)}) = i]
    BY DEF Ranked
  <2> HIDE DEF R, P, Before
  <2> QED BY <2>1, <2>2 DEF RankedIn
<1>8. SortedNumbers(t, M) = [i \in DOMAIN Ranked(P, Before) |-> t[Ranked(P, Before)[i]].n]
  BY DEF SortedNumbers
<1>9. Lists(RankedIn(P, R), Cardinality(P), P, R)  BY <1>2, <1>5, RankedLists
<1> HIDE DEF R, P, Before
<1>10. SortedNumbers(t, M) = [i \in DOMAIN RankedIn(P, R) |-> t[RankedIn(P, R)[i]].n]
  BY <1>7, <1>8
<1>11. NumbersSorted(t, M) = RankedIn(P, R)  BY DEF NumbersSorted, P, R
<1>12. Lists(NumbersSorted(t, M), Cardinality(P), P, R)  BY <1>9, <1>11
<1>13. SortedNumbers(t, M) = [i \in DOMAIN NumbersSorted(t, M) |-> t[NumbersSorted(t, M)[i]].n]
  BY <1>10, <1>11
<1>14. \A x, y \in DOMAIN t : <<x, y>> \in R <=>
          t[x].n < t[y].n \/ (t[x].n = t[y].n /\ x < y)
  BY <1>1 DEF Before
<1> QED BY <1>5, <1>12, <1>13, <1>14 DEF R, P

LEMMA PercentileRankIn ==
    ASSUME NEW n \in Nat \ {0}, NEW p \in 1 .. 99
    PROVE  PercentileRank(n, p) \in 0 .. n - 1
<1>1. n * p \in Nat /\ n * p <= n * 100 - n
  <2>1. n * (99 - p) \in Nat /\ n * (99 - p) = n * 99 - n * p  OBVIOUS
  <2> QED BY <2>1
<1>2. \A x \in Nat : x <= n * 100 - n => (x + 99) \div 100 \in 0 .. n  OBVIOUS
<1> QED BY <1>1, <1>2 DEF PercentileRank

\* A group's value is a number: a sum that does not fit fails instead.
LEMMA AggValueInt ==
    ASSUME NEW op, IsStep(op), op.op = "aggregate", NEW t, IsTable(t),
           NEW M \in SUBSET DOMAIN t, op.func = "sum" => Fits(SumOf(t, M))
    PROVE  AggValue(op, t, M) \in Int
<1> DEFINE s == SortedNumbers(t, M)
           n == Cardinality(Present(t, M))
<1>1. n \in Nat /\ Cardinality(M) \in Nat  BY PresentRows
<1>2. DOMAIN s = 0 .. n - 1 /\ \A i \in 0 .. n - 1 : s[i] \in Int
  <2>1. NumbersSorted(t, M) \in [0 .. n - 1 -> DOMAIN t]
    BY NumbersAreSorted, PresentRows DEF Lists
  <2>2. s = [i \in DOMAIN NumbersSorted(t, M) |-> t[NumbersSorted(t, M)[i]].n]
    BY NumbersAreSorted
  <2> HIDE DEF s
  <2> QED BY <2>1, <2>2, TableRows
<1>3. Height(s) = n  BY <1>1, <1>2, HeightIs
<1> HIDE DEF s, n
<1>4. MedianOfSorted(s) \in Int
  <2>1. Missing \in Int  BY ExecAssumption
  <2>2. CASE n = 0  BY <1>3, <2>1, <2>2 DEF MedianOfSorted
  <2>3. CASE n # 0 /\ n % 2 = 1
    <3>1. n \div 2 \in 0 .. n - 1  BY <1>1, <2>3
    <3>2. MedianOfSorted(s) = 2 * s[n \div 2]  BY <1>3, <2>3 DEF MedianOfSorted
    <3> QED BY <1>2, <3>1, <3>2
  <2>4. CASE n # 0 /\ n % 2 # 1
    <3>1. n \div 2 \in 0 .. n - 1 /\ n \div 2 - 1 \in 0 .. n - 1  BY <1>1, <2>4
    <3>2. MedianOfSorted(s) = s[n \div 2 - 1] + s[n \div 2]
      BY <1>3, <2>4 DEF MedianOfSorted
    <3> QED BY <1>2, <3>1, <3>2
  <2> QED BY <2>2, <2>3, <2>4
<1>5. CASE op.func = "count"  BY <1>1, <1>5 DEF AggValue
<1>6. CASE op.func = "count_non_null"  BY <1>1, <1>3, <1>6 DEF AggValue, s
<1>7. CASE op.func \notin {"count", "count_non_null"} /\ n = 0
  BY <1>3, <1>7, ExecAssumption DEF AggValue, s
<1>8. CASE op.func = "sum" /\ n # 0
  <2>1. AggValue(op, t, M) = SumOf(t, M)  BY <1>3, <1>8 DEF AggValue, s
  <2>2. SumOf(t, M) \in - MaxInt .. MaxInt  BY <1>8 DEF Fits
  <2>3. MaxInt \in Int  BY ExecAssumption
  <2> QED BY <2>1, <2>2, <2>3
<1>9. CASE op.func = "median" /\ n # 0
  BY <1>3, <1>4, <1>9 DEF AggValue, s
<1>10. CASE op.func \in {"min", "max"} /\ n # 0
  <2>1. 0 \in 0 .. n - 1 /\ n - 1 \in 0 .. n - 1  BY <1>1, <1>10
  <2>2. AggValue(op, t, M) \in {s[0], s[n - 1]}  BY <1>3, <1>10 DEF AggValue, s
  <2> QED BY <1>2, <2>1, <2>2
<1>11. CASE op.func = "percentile" /\ n # 0
  <2>1. PercentileRank(n, op.p) \in 0 .. n - 1
    BY <1>1, <1>11, PercentileRankIn DEF IsStep
  <2>2. AggValue(op, t, M) = s[PercentileRank(n, op.p)]  BY <1>3, <1>11 DEF AggValue, s
  <2> QED BY <1>2, <2>1, <2>2
<1> QED BY <1>5, <1>6, <1>7, <1>8, <1>9, <1>10, <1>11 DEF IsStep

LEMMA GroupKeysInOrder ==
    ASSUME NEW op, IsStep(op), op.op = "aggregate", NEW t, IsTable(t)
    PROVE  /\ GroupKeys(op, t) \in SUBSET Int /\ IsFiniteSet(GroupKeys(op, t))
           /\ Lists(Ascending(GroupKeys(op, t)), Cardinality(GroupKeys(op, t)),
                    GroupKeys(op, t), Less)
           /\ \A g : Members(op, t, g) \in SUBSET DOMAIN t
           /\ \A i, j \in DOMAIN Ascending(GroupKeys(op, t)) :
                 LET keys == Ascending(GroupKeys(op, t))
                 IN  Members(op, t, keys[i]) \cap Members(op, t, keys[j]) # {} => i = j
<1> DEFINE G == GroupKeys(op, t)
           keys == Ascending(G)
<1>1. G \in SUBSET Int /\ IsFiniteSet(G)
  <2>1. CASE op.grouped
    <3> DEFINE f == [r \in DOMAIN t |-> t[r].k]
    <3>1. G = {f[r] : r \in DOMAIN t}  BY <2>1 DEF GroupKeys
    <3>2. \A r \in DOMAIN t : f[r] \in Int  BY TableRows
    <3> HIDE DEF f
    <3>3. IsFiniteSet(G)
      <4>1. f \in Surjection(DOMAIN t, G)
        <5>1. f = [r \in DOMAIN t |-> f[r]]  BY DEF f
        <5>2. f \in [DOMAIN t -> G]
          <6> HIDE DEF G
          <6> QED BY <3>1, <5>1
        <5>3. \A x \in G : \E r \in DOMAIN t : f[r] = x  BY <3>1
        <5> HIDE DEF G
        <5> QED BY <5>2, <5>3 DEF Surjection
      <4> QED BY <4>1, TableRows, FS_Surjection
    <3> QED BY <3>1, <3>2, <3>3
  <2>2. CASE ~ op.grouped
    <3>1. G = {0}  BY <2>2 DEF GroupKeys
    <3>2. IsFiniteSet({0})  BY FS_Singleton
    <3> HIDE DEF G
    <3> QED BY <3>1, <3>2
  <2> QED BY <2>1, <2>2 DEF IsStep
<1>2. Lists(keys, Cardinality(G), G, Less)  BY <1>1, AscendingLists
<1>3. \A g : Members(op, t, g) \in SUBSET DOMAIN t  BY DEF Members
<1>4. ASSUME NEW i \in DOMAIN keys, NEW j \in DOMAIN keys,
             Members(op, t, keys[i]) \cap Members(op, t, keys[j]) # {}
      PROVE  i = j
  <2>1. keys[i] \in G /\ keys[j] \in G /\ DOMAIN keys = 0 .. Cardinality(G) - 1
    BY <1>2 DEF Lists
  <2>2. keys[i] = keys[j]
    <3>1. CASE op.grouped  BY <1>4, <3>1 DEF Members
    <3>2. CASE ~ op.grouped  BY <2>1, <3>2 DEF GroupKeys
    <3> QED BY <3>1, <3>2 DEF IsStep
  <2>3. Asymmetric(Less, G)  BY <1>1, LessOrders DEF Orders
  <2> QED BY <1>2, <2>1, <2>2, <2>3, ListsInjective
<1> QED BY <1>1, <1>2, <1>3, <1>4

\* What an aggregate that succeeds makes.
LEMMA Aggregated ==
    ASSUME NEW op, NEW t, Aggregate(op, t).ok
    PROVE  LET keys == Ascending(GroupKeys(op, t))
               r == Aggregate(op, t)
           IN  /\ op.func = "sum" =>
                     \A i \in DOMAIN keys : Fits(SumOf(t, Members(op, t, keys[i])))
               /\ r.table = [i \in DOMAIN keys |-> GroupRow(op, t, keys[i])]
               /\ r.lineage.kind = "Group" /\ r.lineage.len = Height(keys)
               /\ r.lineage.members = [i \in DOMAIN keys |-> Members(op, t, keys[i])]
<1> DEFINE keys == Ascending(GroupKeys(op, t))
           Over == op.func = "sum" /\ \E i \in DOMAIN keys :
                                         ~ Fits(SumOf(t, Members(op, t, keys[i])))
           made == Done([i \in DOMAIN keys |-> GroupRow(op, t, keys[i])],
                        [kind |-> "Group", len |-> Height(keys),
                         members |-> [i \in DOMAIN keys |-> Members(op, t, keys[i])]])
<1>1. Aggregate(op, t) = IF Over THEN Failed ELSE made  BY DEF Aggregate
<1>2. ~ Over
  <2> SUFFICES ASSUME Over PROVE FALSE  OBVIOUS
  <2>1. Aggregate(op, t) = [ok |-> FALSE]  BY <1>1 DEF Failed
  <2> QED BY <2>1
<1>3. Aggregate(op, t) = made  BY <1>1, <1>2
<1> HIDE DEF keys
<1>4. /\ made.table = [i \in DOMAIN keys |-> GroupRow(op, t, keys[i])]
      /\ made.lineage.kind = "Group" /\ made.lineage.len = Height(keys)
      /\ made.lineage.members = [i \in DOMAIN keys |-> Members(op, t, keys[i])]
  BY DEF Done
<1>5. op.func = "sum" => \A i \in DOMAIN keys : Fits(SumOf(t, Members(op, t, keys[i])))
  BY <1>2
<1> HIDE DEF made
<1> QED BY <1>3, <1>4, <1>5 DEF keys

\* A result that the next step, and a lineage store, can be given.
Typed(r, t) ==
    /\ IsTable(r.table)
    /\ IsStepOn(r.lineage, Height(t)) /\ r.lineage.len = Height(r.table)

LEMMA AggregateTyped ==
    ASSUME NEW op, IsStep(op), op.op = "aggregate", NEW t, IsTable(t),
           Aggregate(op, t).ok
    PROVE  Typed(Aggregate(op, t), t)
<1> DEFINE G == GroupKeys(op, t)
           keys == Ascending(G)
           n == Cardinality(G)
           r == Aggregate(op, t)
           s == r.lineage
<1>1. Lists(keys, n, G, Less)  BY GroupKeysInOrder
<1>2. n \in Nat /\ DOMAIN keys = 0 .. n - 1 /\ \A i \in 0 .. n - 1 : keys[i] \in Int
  <2>1. G \in SUBSET Int  BY GroupKeysInOrder
  <2> HIDE DEF keys, n, G
  <2> QED BY <1>1, <2>1 DEF Lists
<1>3. Height(keys) = n  BY <1>2, HeightIs
<1>4. /\ op.func = "sum" => \A i \in 0 .. n - 1 : Fits(SumOf(t, Members(op, t, keys[i])))
      /\ r.table = [i \in 0 .. n - 1 |-> GroupRow(op, t, keys[i])]
      /\ s.kind = "Group" /\ s.len = n
      /\ s.members = [i \in 0 .. n - 1 |-> Members(op, t, keys[i])]
  BY <1>2, <1>3, Aggregated
<1>5. \A i \in 0 .. n - 1 : IsRow(GroupRow(op, t, keys[i]))
  <2> TAKE i \in 0 .. n - 1
  <2>1. AggValue(op, t, Members(op, t, keys[i])) \in Int
    BY <1>4, GroupKeysInOrder, AggValueInt
  <2> HIDE DEF keys
  <2> QED BY <1>2, <2>1 DEF GroupRow, IsRow
<1>6. \A i \in 0 .. n - 1 : MadeOf(s, i) = Members(op, t, keys[i])  BY <1>4 DEF MadeOf
<1>7. MapsBelow(s, Height(t))
  <2>1. \A i \in 0 .. n - 1 : MadeOf(s, i) \subseteq 0 .. Height(t) - 1
    BY <1>6, GroupKeysInOrder, TableRows
  <2>2. \A i, j \in 0 .. n - 1 : MadeOf(s, i) \cap MadeOf(s, j) # {} => i = j
    BY <1>2, <1>6, GroupKeysInOrder
  <2> QED BY <1>2, <1>4, <2>1, <2>2 DEF MapsBelow
<1> HIDE DEF r, n, keys
<1>8. IsTable(r.table) /\ Height(r.table) = n
  <2>1. DOMAIN r.table = 0 .. n - 1  BY <1>4
  <2>2. Height(r.table) = n /\ IsFiniteSet(DOMAIN r.table)  BY <1>2, <2>1, HeightIs
  <2> QED BY <1>4, <1>5, <2>1, <2>2 DEF IsTable
<1> QED BY <1>4, <1>7, <1>8 DEF Typed, IsStepOn, r

LEMMA MapTyped ==
    ASSUME NEW t, IsTable(t)
    PROVE  /\ Map(t).ok /\ Typed(Map(t), t) /\ Height(Map(t).table) = Height(t)
           /\ DOMAIN Map(t).table = DOMAIN t
           /\ Map(t).lineage = Identity(Height(t))
<1> DEFINE new(r) == [t[r] EXCEPT !.n = IF @ = Missing THEN Missing ELSE - @]
<1>1. Map(t) = Done([r \in DOMAIN t |-> new(r)], Identity(Height(t)))  BY DEF Map
<1>2. \A r \in DOMAIN t : IsRow(new(r))
  <2> TAKE r \in DOMAIN t
  <2>1. t[r] = [k |-> t[r].k, n |-> t[r].n, v |-> t[r].v] /\ t[r].k \in Int /\ t[r].n \in Int
    BY DEF IsTable, IsRow
  <2>2. (IF t[r].n = Missing THEN Missing ELSE - t[r].n) \in Int
    BY <2>1, ExecAssumption
  <2>3. new(r) = [k |-> t[r].k, n |-> IF t[r].n = Missing THEN Missing ELSE - t[r].n,
                  v |-> t[r].v]
    BY <2>1
  <2> HIDE DEF new
  <2> QED BY <2>1, <2>2, <2>3 DEF IsRow
<1> HIDE DEF new
<1>3. /\ Map(t).ok /\ Map(t).table = [r \in DOMAIN t |-> new(r)]
      /\ Map(t).lineage = Identity(Height(t))
  BY <1>1 DEF Done
<1>4. DOMAIN Map(t).table = DOMAIN t /\ Height(Map(t).table) = Height(t)
  BY <1>3 DEF Height
<1>5. IsTable(Map(t).table)  BY <1>2, <1>3, <1>4, TableRows DEF IsTable
<1>6. IsStepOn(Identity(Height(t)), Height(t))
  <2>1. \A r : MadeOf(Identity(Height(t)), r) = {r}  BY DEF MadeOf, Identity
  <2> QED BY <2>1, TableRows DEF IsStepOn, MapsBelow, Identity
<1>7. Identity(Height(t)).len = Height(t)  BY DEF Identity
<1> QED BY <1>3, <1>4, <1>5, <1>6, <1>7 DEF Typed

LEMMA ProjectTyped ==
    ASSUME NEW t, IsTable(t)
    PROVE  /\ Project(t).ok /\ Typed(Project(t), t) /\ Project(t).table = t
           /\ Project(t).lineage = Identity(Height(t))
<1>1. Project(t).ok /\ Project(t).table = t /\ Project(t).lineage = Identity(Height(t))
  BY DEF Project, Done
<1>2. IsStepOn(Identity(Height(t)), Height(t))
  <2>1. \A r : MadeOf(Identity(Height(t)), r) = {r}  BY DEF MadeOf, Identity
  <2> QED BY <2>1, TableRows DEF IsStepOn, MapsBelow, Identity
<1>3. Identity(Height(t)).len = Height(t)  BY DEF Identity
<1> QED BY <1>1, <1>2, <1>3 DEF Typed

LEMMA LimitTyped ==
    ASSUME NEW op, op.count \in Nat, NEW t, IsTable(t)
    PROVE  Limit(op, t).ok /\ Typed(Limit(op, t), t)
<1> DEFINE n == IF op.count < Height(t) THEN op.count ELSE Height(t)
<1>1. n \in Nat /\ n <= Height(t)  BY TableRows
<1>2. Limit(op, t) = Done([r \in 0 .. n - 1 |-> t[r]], Identity(n))  BY DEF Limit
<1> HIDE DEF n
<1>3. /\ Limit(op, t).ok /\ Limit(op, t).table = [r \in 0 .. n - 1 |-> t[r]]
      /\ Limit(op, t).lineage = Identity(n)
  BY <1>2 DEF Done
<1>4. 0 .. n - 1 \subseteq DOMAIN t  BY <1>1, TableRows
<1>5. IsTable(Limit(op, t).table) /\ Height(Limit(op, t).table) = n
  <2>1. DOMAIN Limit(op, t).table = 0 .. n - 1  BY <1>3
  <2>2. Height(Limit(op, t).table) = n /\ IsFiniteSet(DOMAIN Limit(op, t).table)
    BY <1>1, <2>1, HeightIs
  <2>3. \A r \in 0 .. n - 1 : IsRow(t[r])  BY <1>4 DEF IsTable
  <2> QED BY <1>3, <2>1, <2>2, <2>3 DEF IsTable
<1>6. IsStepOn(Identity(n), Height(t)) /\ Identity(n).len = n
  <2>1. \A r : MadeOf(Identity(n), r) = {r}  BY DEF MadeOf, Identity
  <2>2. \A r \in 0 .. n - 1 : r \in 0 .. Height(t) - 1  BY <1>1, TableRows
  <2> QED BY <1>1, <2>1, <2>2 DEF IsStepOn, MapsBelow, Identity
<1> QED BY <1>3, <1>5, <1>6 DEF Typed

LEMMA StepTyped ==
    ASSUME NEW op, IsStep(op), NEW t, IsTable(t), RunStep(op, t).ok
    PROVE  Typed(RunStep(op, t), t)
<1>1. CASE op.op = "map"  BY <1>1, MapTyped DEF RunStep
<1>2. CASE op.op = "project"  BY <1>2, ProjectTyped DEF RunStep
<1>3. CASE op.op = "filter"
  <2>1. RunStep(op, t) = Filter(op, t)  BY <1>3 DEF RunStep
  <2> QED BY <2>1, FilterTakes, TakesTyped DEF Typed
<1>4. CASE op.op = "sort"
  <2>1. RunStep(op, t) = Sort(op, t)  BY <1>4 DEF RunStep
  <2> QED BY <1>4, <2>1, SortTakes, TakesTyped DEF Typed
<1>5. CASE op.op = "limit"
  <2>1. RunStep(op, t) = Limit(op, t) /\ op.count \in Nat  BY <1>5 DEF RunStep, IsStep
  <2> QED BY <2>1, LimitTyped
<1>6. CASE op.op = "aggregate"
  <2>1. RunStep(op, t) = Aggregate(op, t)  BY <1>6 DEF RunStep
  <2> QED BY <1>6, <2>1, AggregateTyped
<1> QED BY <1>1, <1>2, <1>3, <1>4, <1>5, <1>6 DEF IsStep

\* The rows of a snapshot that a scan keeps.
Scanned(plan, ex) == DOMAIN Snapshot[plan[0].snapshot] \ ex

LEMMA ScanTyped ==
    ASSUME NEW plan, IsPlan(plan), NEW ex
    PROVE  LET t == Snapshot[plan[0].snapshot]
               r == Scan(plan[0], ex)
               K == Scanned(plan, ex)
           IN  /\ IsTable(t) /\ r.ok
               /\ IsTable(r.table) /\ IsScanOf(r.lineage, Height(t))
               /\ r.lineage.len = Height(r.table)
               /\ ex # NoExclusion =>
                     /\ K \in SUBSET Int /\ IsFiniteSet(K)
                     /\ r.table = Gather(t, Ascending(K))
                     /\ \A i \in 0 .. Cardinality(K) - 1 :
                           MadeOf(r.lineage, i) = {Ascending(K)[i]}
<1> DEFINE t == Snapshot[plan[0].snapshot]
           r == Scan(plan[0], ex)
           s == r.lineage
           K == Scanned(plan, ex)
           f == Ascending(K)
           m == Cardinality(K)
<1>1. IsTable(t)  BY ExecAssumption DEF IsPlan
<1>2. CASE ex = NoExclusion
  <2>1. r = Done(t, [kind |-> "Source", len |-> Height(t)])  BY <1>2 DEF Scan
  <2> HIDE DEF r, t
  <2>2. r.ok /\ r.table = t /\ s.kind = "Source" /\ s.len = Height(t)  BY <2>1 DEF Done
  <2>3. \A i : MadeOf(s, i) = {i}  BY <2>2 DEF MadeOf
  <2>4. IsScanOf(s, Height(t))  BY <1>1, <2>2, <2>3, TableRows DEF IsScanOf, MapsBelow
  <2> QED BY <1>1, <1>2, <2>2, <2>4 DEF r, t
<1>3. CASE ex # NoExclusion
  <2>1. K \subseteq DOMAIN t /\ K \in SUBSET Int /\ IsFiniteSet(K)
    <3>1. K \subseteq DOMAIN t  BY DEF Scanned
    <3>2. DOMAIN t \subseteq Int /\ IsFiniteSet(DOMAIN t)  BY <1>1, TableRows
    <3> HIDE DEF K, t
    <3> QED BY <3>1, <3>2, FS_Subset
  <2>2. Lists(f, m, K, Less)  BY <2>1, AscendingLists
  <2>3. m \in Nat /\ f \in [0 .. m - 1 -> DOMAIN t]
    <3> HIDE DEF f, m, K, t
    <3> QED BY <2>1, <2>2 DEF Lists
  <2>4. \A i, j \in 0 .. m - 1 : f[i] = f[j] => i = j
    <3>1. Asymmetric(Less, K)  BY <2>1, LessOrders DEF Orders
    <3> HIDE DEF f, m, K
    <3> QED BY <2>2, <3>1, ListsInjective
  <2>5. Height(f) = m  BY <2>3, HeightIs
  <2>6. r = Done(Gather(t, f), [kind |-> "SourceSubset", len |-> Height(f),
                                source_len |-> Height(t), rows |-> f])
    BY <1>3 DEF Scan, Scanned
  <2> HIDE DEF r, f, m, t
  <2>7. /\ r.ok /\ r.table = Gather(t, f) /\ s.kind = "SourceSubset" /\ s.len = m
        /\ s.source_len = Height(t) /\ s.rows = f
    BY <2>5, <2>6 DEF Done
  <2>8. \A i : MadeOf(s, i) = {f[i]}  BY <2>7 DEF MadeOf
  <2>9. IsTable(r.table) /\ Height(r.table) = m  BY <1>1, <2>3, <2>7, GatherTable
  <2>10. IsScanOf(s, Height(t))
    <3>1. \A i \in 0 .. m - 1 : f[i] \in 0 .. Height(t) - 1  BY <1>1, <2>3, TableRows
    <3> HIDE DEF s
    <3> QED BY <2>3, <2>4, <2>7, <2>8, <3>1 DEF IsScanOf, MapsBelow
  <2> QED BY <1>1, <1>3, <2>1, <2>7, <2>8, <2>9, <2>10 DEF r, f, m, t
<1> QED BY <1>2, <1>3

LEMMA ScanAll ==
    ASSUME NEW plan
    PROVE  LET r == Scan(plan[0], NoExclusion)
           IN  /\ r.table = Snapshot[plan[0].snapshot]
               /\ \A i : MadeOf(r.lineage, i) = {i}
<1> DEFINE t == Snapshot[plan[0].snapshot]
           r == Scan(plan[0], NoExclusion)
<1>1. r = Done(t, [kind |-> "Source", len |-> Height(t)])  BY DEF Scan
<1> HIDE DEF r, t
<1>2. r.table = t /\ r.lineage.kind = "Source"  BY <1>1 DEF Done
<1>3. \A i : MadeOf(r.lineage, i) = {i}  BY <1>2 DEF MadeOf
<1> QED BY <1>2, <1>3 DEF r, t

\* An execution that later steps, and a lineage store, can be built on.
IsExecution(plan, e) ==
    /\ DOMAIN e.tables = DOMAIN plan /\ DOMAIN e.steps = DOMAIN plan
    /\ \A i \in DOMAIN plan : /\ IsTable(e.tables[i])
                              /\ e.steps[i].len = Height(e.tables[i])
    /\ IsScanOf(e.steps[0], Height(Snapshot[plan[0].snapshot]))
    /\ \A i \in DOMAIN plan \ {0} : IsStepOn(e.steps[i], Height(e.tables[i - 1]))

\* From step m on, e has what the operators make.
LEMMA TypedFrom ==
    ASSUME NEW plan, IsPlan(plan), NEW e, NEW m \in DOMAIN plan,
           IsTable(e.tables[m]),
           \A i \in m + 1 .. OutputNode(plan) : Follows(plan, e, i)
    PROVE  /\ \A i \in m .. OutputNode(plan) : IsTable(e.tables[i])
           /\ \A i \in m + 1 .. OutputNode(plan) :
                 /\ e.steps[i].len = Height(e.tables[i])
                 /\ IsStepOn(e.steps[i], Height(e.tables[i - 1]))
<1> DEFINE n == OutputNode(plan)
           S == {k \in Nat : m + k <= n => IsTable(e.tables[m + k])}
<1>0. m \in Nat /\ n \in Nat /\ DOMAIN plan = 0 .. n  BY PlanNodes
<1> HIDE DEF n
<1>1. ASSUME NEW i \in m + 1 .. n, IsTable(e.tables[i - 1])
      PROVE  /\ IsTable(e.tables[i]) /\ e.steps[i].len = Height(e.tables[i])
             /\ IsStepOn(e.steps[i], Height(e.tables[i - 1]))
  <2>1. Follows(plan, e, i)  BY DEF n
  <2>2. i \in DOMAIN plan \ {0}  BY <1>0
  <2>3. IsStep(plan[i])  BY <2>2 DEF IsPlan
  <2>4. Typed(RunStep(plan[i], e.tables[i - 1]), e.tables[i - 1])
    BY <1>1, <2>1, <2>3, StepTyped DEF Follows
  <2> QED BY <2>1, <2>4 DEF Follows, Typed
<1>2. 0 \in S
  <2>1. m + 0 = m  BY <1>0
  <2> QED BY <2>1
<1>3. ASSUME NEW k \in Nat, k \in S PROVE k + 1 \in S
  <2> SUFFICES ASSUME m + (k + 1) <= n PROVE IsTable(e.tables[m + (k + 1)])  OBVIOUS
  <2>1. m + (k + 1) \in m + 1 .. n /\ (m + (k + 1)) - 1 = m + k /\ m + k <= n  BY <1>0
  <2> QED BY <1>1, <1>3, <2>1
<1>4. \A k \in Nat : k \in S
  <2> HIDE DEF S
  <2> QED BY <1>2, <1>3, SetInduction
<1>5. ASSUME NEW i \in m .. n PROVE IsTable(e.tables[i])
  <2>1. i - m \in Nat /\ m + (i - m) = i /\ i <= n  BY <1>0
  <2>2. i - m \in S  BY <1>4, <2>1
  <2> QED BY <2>1, <2>2
<1>6. \A i \in m + 1 .. n : i - 1 \in m .. n  BY <1>0
<1> QED BY <1>1, <1>5, <1>6 DEF n

LEMMA ExecutionTyped ==
    ASSUME NEW plan, IsPlan(plan), NEW ex, Execute(plan, ex).ok
    PROVE  IsExecution(plan, Execute(plan, ex))
<1> DEFINE e == Execute(plan, ex)
<1>1. /\ DOMAIN e.tables = DOMAIN plan /\ DOMAIN e.steps = DOMAIN plan
      /\ e.tables[0] = Scan(plan[0], ex).table
      /\ e.steps[0] = Scan(plan[0], ex).lineage
      /\ \A i \in DOMAIN plan \ {0} : Follows(plan, e, i)
  BY ExecutionSteps
<1> HIDE DEF e
<1>2. /\ IsTable(e.tables[0]) /\ e.steps[0].len = Height(e.tables[0])
      /\ IsScanOf(e.steps[0], Height(Snapshot[plan[0].snapshot]))
  <2> DEFINE r == Scan(plan[0], ex)
  <2>1. /\ IsTable(r.table) /\ r.lineage.len = Height(r.table)
        /\ IsScanOf(r.lineage, Height(Snapshot[plan[0].snapshot]))
    BY ScanTyped
  <2> HIDE DEF r
  <2>2. e.tables[0] = r.table /\ e.steps[0] = r.lineage  BY <1>1 DEF r
  <2> QED BY <2>1, <2>2
<1>3. 0 \in DOMAIN plan /\ DOMAIN plan = 0 .. OutputNode(plan) /\ OutputNode(plan) \in Nat
  BY PlanNodes
<1>4. \A i \in DOMAIN plan \ {0} : i \in 0 + 1 .. OutputNode(plan)  BY <1>3
<1>5. \A i \in 0 + 1 .. OutputNode(plan) : Follows(plan, e, i)  BY <1>1, <1>3
<1>6. /\ \A i \in 0 .. OutputNode(plan) : IsTable(e.tables[i])
      /\ \A i \in 0 + 1 .. OutputNode(plan) :
            /\ e.steps[i].len = Height(e.tables[i])
            /\ IsStepOn(e.steps[i], Height(e.tables[i - 1]))
  BY <1>2, <1>3, <1>5, TypedFrom
<1> QED BY <1>1, <1>2, <1>3, <1>4, <1>6 DEF IsExecution, e

\* Following rows forward leads to the rows whose traces name one of them.
LEMMA ForwardIsSourced ==
    ASSUME NEW plan, IsPlan(plan), NEW e, IsExecution(plan, e),
           NEW n \in DOMAIN plan, NEW R \in SUBSET Nat
    PROVE  Forward(e.steps, R, n)
             = {o \in DOMAIN e.tables[n] : SourceRows(e.steps, n, {o}) \cap R # {}}
<1> DEFINE From(k) == {o \in DOMAIN e.tables[k] : SourceRows(e.steps, k, {o}) \cap R # {}}
           S == {k \in Nat : k \in DOMAIN plan => Forward(e.steps, R, k) = From(k)}
           height == Height(Snapshot[plan[0].snapshot])
<1>0. \A k \in DOMAIN plan : DOMAIN e.tables[k] = 0 .. e.steps[k].len - 1
  BY TableRows DEF IsExecution
<1>1. 0 \in S
  <2>1. height \in Nat  BY ExecAssumption, TableRows DEF IsPlan
  <2>2. IsScanOf(e.steps[0], height) /\ 0 \in DOMAIN e.steps  BY PlanNodes DEF IsExecution
  <2>3. Forward(e.steps, R, 0)
          = {o \in 0 .. e.steps[0].len - 1 : MadeOf(e.steps[0], o) \cap R # {}}
    BY <2>1, <2>2, FlowsAre, ForwardScan
  <2>4. \A o : SourceRows(e.steps, 0, {o}) = MadeOf(e.steps[0], o)
    <3> TAKE o
    <3>1. SourceRows(e.steps, 0, {o}) = UNION {MadeOf(e.steps[0], r) : r \in {o}}
      BY SourceRowsScan, StepBackMadeOf
    <3> QED BY <3>1
  <2>5. Forward(e.steps, R, 0) = From(0)
    <3>1. DOMAIN e.tables[0] = 0 .. e.steps[0].len - 1  BY <1>0, PlanNodes
    <3> QED BY <2>3, <2>4, <3>1
  <2> HIDE DEF From
  <2> QED BY <2>5
<1>2. ASSUME NEW k \in Nat, k \in S PROVE k + 1 \in S
  <2> SUFFICES ASSUME k + 1 \in DOMAIN plan PROVE Forward(e.steps, R, k + 1) = From(k + 1)
    <3> HIDE DEF From
    <3> QED OBVIOUS
  <2>1. /\ k \in DOMAIN plan /\ k + 1 \in DOMAIN plan \ {0} /\ (k + 1) - 1 = k
        /\ k + 1 \in Nat \ {0}
    BY PlanNodes
  <2>2. Forward(e.steps, R, k) = From(k)
    <3> HIDE DEF From
    <3> QED BY <1>2, <2>1
  <2>3. /\ IsStepOn(e.steps[k + 1], Height(e.tables[k]))
        /\ e.steps[k].len = Height(e.tables[k]) /\ Height(e.tables[k]) \in Nat
        /\ k + 1 \in DOMAIN e.steps
    BY <2>1, TableRows DEF IsExecution
  <2>4. From(k) \in SUBSET Nat
    <3>1. DOMAIN e.tables[k] \subseteq Nat  BY <2>1, TableRows DEF IsExecution
    <3> QED BY <3>1
  <2>5. Forward(e.steps, R, k + 1)
          = {o \in 0 .. e.steps[k + 1].len - 1 : MadeOf(e.steps[k + 1], o) \cap From(k) # {}}
    <3> HIDE DEF From
    <3>1. Forward(e.steps, R, k + 1) = FlowsOn(e.steps, k + 1, From(k))
      BY <2>1, <2>2, ForwardStep
    <3> QED BY <2>1, <2>3, <2>4, <3>1, FlowsAre
  <2>6. ASSUME NEW o \in DOMAIN e.tables[k + 1]
        PROVE  MadeOf(e.steps[k + 1], o) \cap From(k) # {}
                  <=> SourceRows(e.steps, k + 1, {o}) \cap R # {}
    <3> DEFINE P == MadeOf(e.steps[k + 1], o)
    <3>1. SourceRows(e.steps, k + 1, {o}) = SourceRows(e.steps, k, P)
      <4>1. Store(e.steps)!StepBack(k + 1, {o}) = P
        <5>1. UNION {MadeOf(e.steps[k + 1], r) : r \in {o}} = P  OBVIOUS
        <5> HIDE DEF P
        <5> QED BY <5>1, StepBackMadeOf
      <4> QED BY <2>1, <4>1, SourceRowsStep
    <3>2. SourceRows(e.steps, k, P) = UNION {SourceRows(e.steps, k, {r}) : r \in P}
      BY SourceRowsOfEach
    <3>3. P \subseteq DOMAIN e.tables[k]
      BY <1>0, <2>1, <2>3, TableRows DEF IsStepOn, MapsBelow, IsExecution
    <3> HIDE DEF P
    <3>4. P \cap From(k) # {} <=> \E p \in P : SourceRows(e.steps, k, {p}) \cap R # {}
      BY <3>3
    <3>5. SourceRows(e.steps, k, P) \cap R # {}
             <=> \E p \in P : SourceRows(e.steps, k, {p}) \cap R # {}
      <4>1. \A z : z \in SourceRows(e.steps, k, P)
                     <=> \E p \in P : z \in SourceRows(e.steps, k, {p})
        BY <3>2
      <4> QED BY <4>1
    <3> QED BY <3>1, <3>4, <3>5 DEF P
  <2> HIDE DEF From
  <2>7. DOMAIN e.tables[k + 1] = 0 .. e.steps[k + 1].len - 1  BY <1>0, <2>1
  <2>8. From(k + 1) = {o \in 0 .. e.steps[k + 1].len - 1 :
                          SourceRows(e.steps, k + 1, {o}) \cap R # {}}
    BY <2>7 DEF From
  <2> QED BY <2>5, <2>6, <2>7, <2>8
<1>3. n \in S
  <2>1. n \in Nat  BY PlanNodes
  <2> HIDE DEF S
  <2> QED BY <1>1, <1>2, <2>1, SetInduction
<1> QED BY <1>3

(***************************************************************************)
(* The steps before the aggregate: a run without some rows has the base's  *)
(* rows but those made of one that is left out, in the same order.         *)
(***************************************************************************)

LEMMA AscendingGrows ==
    ASSUME NEW K \in SUBSET Int, IsFiniteSet(K)
    PROVE  LET a == Ascending(K)
               p == Cardinality(K)
           IN  /\ p \in Nat /\ a \in [0 .. p - 1 -> K] /\ Lists(a, p, K, Less)
               /\ \A x \in K : \E i \in 0 .. p - 1 : a[i] = x
               /\ \A i, j \in 0 .. p - 1 : i < j <=> a[i] < a[j]
               /\ \A i, j \in 0 .. p - 1 : a[i] = a[j] => i = j
<1> DEFINE a == Ascending(K)
           p == Cardinality(K)
<1>1. Lists(a, p, K, Less)  BY AscendingLists
<1>2. Asymmetric(Less, K)  BY LessOrders DEF Orders
<1>3. \A i, j \in 0 .. p - 1 : a[i] = a[j] => i = j  BY <1>1, <1>2, ListsInjective
<1> HIDE DEF a, p
<1>4. /\ p \in Nat /\ a \in [0 .. p - 1 -> K]
      /\ \A x \in K : \E i \in 0 .. p - 1 : a[i] = x
  BY <1>1 DEF Lists
<1>5. ASSUME NEW i \in 0 .. p - 1, NEW j \in 0 .. p - 1, i < j PROVE a[i] < a[j]
  <2>1. <<a[i], a[j]>> \in Less  BY <1>1, <1>5 DEF Lists
  <2> QED BY <2>1 DEF Less
<1>6. ASSUME NEW i \in 0 .. p - 1, NEW j \in 0 .. p - 1, a[i] < a[j] PROVE i < j
  <2>1. a[i] \in Int /\ a[j] \in Int  BY <1>4
  <2>2. j < i => a[j] < a[i]  BY <1>5
  <2>3. i # j  BY <1>6, <2>1
  <2> QED BY <1>6, <2>1, <2>2, <2>3
<1> QED BY <1>1, <1>3, <1>4, <1>5, <1>6 DEF a, p

\* fB and fE list the same members of a set in the same order, fE those in
\* K only and by their places in K.
Picks(K, fB, q, fE, q2) ==
    \E H, Q, Q2 :
        /\ Lists(fB, q, H, Q) /\ Asymmetric(Q, H)
        /\ Lists(fE, q2, {j \in 0 .. Cardinality(K) - 1 : Ascending(K)[j] \in H}, Q2)
        /\ \A x, y \in 0 .. Cardinality(K) - 1 :
              <<x, y>> \in Q2 <=> <<Ascending(K)[x], Ascending(K)[y]>> \in Q

\* Taking rows from what is left is taking them first and leaving out then.
LEMMA TakesLeft ==
    ASSUME NEW tB, IsTable(tB), NEW K \in SUBSET DOMAIN tB,
           NEW rB, NEW fB, NEW q, Takes(rB, tB, fB, q),
           NEW tE, tE = Gather(tB, Ascending(K)),
           NEW rE, NEW fE, NEW q2, Takes(rE, tE, fE, q2), Picks(K, fB, q, fE, q2)
    PROVE  LET L == {x \in 0 .. q - 1 : fB[x] \in K}
           IN  /\ L \in SUBSET DOMAIN rB.table /\ Cardinality(L) = q2
               /\ rE.table = Gather(rB.table, Ascending(L))
               /\ \A x \in 0 .. q2 - 1 : /\ Ascending(K)[fE[x]] = fB[Ascending(L)[x]]
                                         /\ fE[x] \in 0 .. Cardinality(K) - 1
                                         /\ Ascending(L)[x] \in 0 .. q - 1
<1> DEFINE a == Ascending(K)
           p == Cardinality(K)
           L == {x \in 0 .. q - 1 : fB[x] \in K}
           kept == Ascending(L)
<1>1. K \in SUBSET Int /\ IsFiniteSet(K)
  <2>1. DOMAIN tB \subseteq Int /\ IsFiniteSet(DOMAIN tB)  BY TableRows
  <2> QED BY <2>1, FS_Subset
<1>2. p \in Nat /\ a \in [0 .. p - 1 -> K] /\ Lists(a, p, K, Less)  BY <1>1, AscendingGrows
<1>3. q \in Nat /\ fB \in [0 .. q - 1 -> DOMAIN tB] /\ rB.table = Gather(tB, fB)
  BY DEF Takes
<1>4. L \in SUBSET Int /\ IsFiniteSet(L)
  <2>1. L \subseteq 0 .. q - 1 /\ 0 .. q - 1 \subseteq Int  BY <1>3
  <2>2. IsFiniteSet(0 .. q - 1)  BY <1>3, 0 \in Int, q - 1 \in Int, FS_Interval
  <2> HIDE DEF L
  <2> QED BY <2>1, <2>2, FS_Subset
<1>5. /\ Lists(kept, Cardinality(L), L, Less) /\ kept \in [0 .. Cardinality(L) - 1 -> L]
      /\ Cardinality(L) \in Nat
  <2> HIDE DEF L
  <2> QED BY <1>4, AscendingGrows
<1>6. q2 = Cardinality(L) /\ \A i \in 0 .. Cardinality(L) - 1 : a[fE[i]] = fB[kept[i]]
  <2>0. PICK H, Q, Q2 :
          /\ Lists(fB, q, H, Q) /\ Asymmetric(Q, H)
          /\ Lists(fE, q2, {j \in 0 .. p - 1 : a[j] \in H}, Q2)
          /\ \A x, y \in 0 .. p - 1 : <<x, y>> \in Q2 <=> <<a[x], a[y]>> \in Q
    BY DEF Picks
  <2> HIDE DEF kept, a, p
  <2>1. Lists(kept, Cardinality(L), {x \in 0 .. q - 1 : fB[x] \in K}, Less)  BY <1>5
  <2> HIDE DEF L
  <2> QED BY <1>2, <2>0, <2>1, ListsOfBoth
<1>7. L \subseteq 0 .. q - 1  OBVIOUS
<1> HIDE DEF L, a, p, kept
<1>8. DOMAIN tE = 0 .. p - 1 /\ \A i \in 0 .. p - 1 : tE[i] = tB[a[i]]
  BY <1>2 DEF Gather, a
<1>9. /\ q2 \in Nat /\ fE \in [0 .. q2 - 1 -> 0 .. p - 1] /\ rE.table = Gather(tE, fE)
  BY <1>8 DEF Takes
<1>10. DOMAIN rB.table = 0 .. q - 1 /\ \A i \in 0 .. q - 1 : rB.table[i] = tB[fB[i]]
  BY <1>3 DEF Gather
<1>11. rE.table = Gather(rB.table, kept)
  <2>1. \A i \in 0 .. q2 - 1 : tE[fE[i]] = rB.table[kept[i]]
    <3> TAKE i \in 0 .. q2 - 1
    <3>1. tE[fE[i]] = tB[a[fE[i]]]  BY <1>8, <1>9
    <3>2. rB.table[kept[i]] = tB[fB[kept[i]]]  BY <1>5, <1>6, <1>7, <1>10
    <3> QED BY <1>6, <3>1, <3>2
  <2>2. DOMAIN fE = 0 .. q2 - 1 /\ DOMAIN kept = 0 .. q2 - 1  BY <1>5, <1>6, <1>9
  <2> QED BY <1>9, <2>1, <2>2 DEF Gather
<1>12. L \in SUBSET DOMAIN rB.table  BY <1>7, <1>10
<1>13. \A x \in 0 .. q2 - 1 : /\ a[fE[x]] = fB[kept[x]] /\ fE[x] \in 0 .. p - 1
                              /\ kept[x] \in 0 .. q - 1
  BY <1>5, <1>6, <1>7, <1>9
<1> QED BY <1>6, <1>11, <1>12, <1>13 DEF L, a, p, kept

LEMMA SourceRowsOf ==
    ASSUME NEW steps, NEW i \in Nat \ {0}, NEW r
    PROVE  SourceRows(steps, i, {r}) = SourceRows(steps, i - 1, MadeOf(steps[i], r))
<1>1. UNION {MadeOf(steps[i], x) : x \in {r}} = MadeOf(steps[i], r)  OBVIOUS
<1>2. Store(steps)!StepBack(i, {r}) = MadeOf(steps[i], r)  BY <1>1, StepBackMadeOf
<1> QED BY <1>2, SourceRowsStep

\* A row made of rows that are made of the same.
LEMMA SameStep ==
    ASSUME NEW s1, NEW s2, NEW i \in Nat \ {0}, NEW x, NEW R,
           MadeOf(s1[i], x) = R, MadeOf(s2[i], x) = R, SameBehind(s1, s2, i - 1, R)
    PROVE  SameBehind(s1, s2, i, {x})
<1>1. SourceRows(s1, i, {x}) = SourceRows(s1, i - 1, R)  BY SourceRowsOf
<1>2. SourceRows(s2, i, {x}) = SourceRows(s2, i - 1, R)  BY SourceRowsOf
<1>3. i - 1 \in Nat  OBVIOUS
<1>4. SourceRows(s1, i - 1, R) = SourceRows(s2, i - 1, R)  BY <1>3, SameOfEach
<1> QED BY <1>1, <1>2, <1>4 DEF SameBehind

\* The rows of step i of b that are made of none of `rows`.
Kept(b, rows, i) ==
    {r \in DOMAIN b.tables[i] : SourceRows(b.steps, i, {r}) \cap rows = {}}

\* Step i of e has the rows of b's that are made of none of `rows`, in the
\* same order and made of the same snapshot rows.
Shows(b, e, rows, i) ==
    LET a == Ascending(Kept(b, rows, i))
    IN  /\ e.tables[i] = Gather(b.tables[i], a)
        /\ \A x \in 0 .. Cardinality(Kept(b, rows, i)) - 1 :
              SourceRows(e.steps, i, {x}) = SourceRows(b.steps, i, {a[x]})

LEMMA KeptRows ==
    ASSUME NEW b, NEW rows, NEW i, IsTable(b.tables[i])
    PROVE  /\ Kept(b, rows, i) \in SUBSET DOMAIN b.tables[i]
           /\ Kept(b, rows, i) \in SUBSET Int /\ IsFiniteSet(Kept(b, rows, i))
<1>1. DOMAIN b.tables[i] \subseteq Int /\ IsFiniteSet(DOMAIN b.tables[i])  BY TableRows
<1>2. Kept(b, rows, i) \subseteq DOMAIN b.tables[i]  BY DEF Kept
<1> QED BY <1>1, <1>2, FS_Subset

\* Both take rows: those that L, the places in b's of rows that are kept,
\* says.
LEMMA TakesShows ==
    ASSUME NEW b, NEW e, NEW rows, NEW i \in Nat \ {0},
           IsTable(b.tables[i - 1]), Shows(b, e, rows, i - 1),
           NEW rB, NEW fB, NEW q, Takes(rB, b.tables[i - 1], fB, q),
           rB.table = b.tables[i], rB.lineage = b.steps[i],
           NEW rE, NEW fE, NEW q2, Takes(rE, e.tables[i - 1], fE, q2),
           rE.table = e.tables[i], rE.lineage = e.steps[i],
           Picks(Kept(b, rows, i - 1), fB, q, fE, q2)
    PROVE  Shows(b, e, rows, i)
<1> DEFINE K == Kept(b, rows, i - 1)
           L == {x \in 0 .. q - 1 : fB[x] \in K}
           a == Ascending(K)
           kept == Ascending(L)
<1>1. K \in SUBSET DOMAIN b.tables[i - 1]  BY KeptRows
<1>2. e.tables[i - 1] = Gather(b.tables[i - 1], a)  BY DEF Shows
<1>3. /\ Cardinality(L) = q2 /\ rE.table = Gather(rB.table, kept)
      /\ \A x \in 0 .. q2 - 1 : /\ a[fE[x]] = fB[kept[x]]
                                /\ fE[x] \in 0 .. Cardinality(K) - 1
                                /\ kept[x] \in 0 .. q - 1
  <2>1. Picks(K, fB, q, fE, q2)  OBVIOUS
  <2> HIDE DEF K
  <2> QED BY <1>1, <1>2, <2>1, TakesLeft
<1>4. \A x \in 0 .. q - 1 : SourceRows(b.steps, i, {x}) = SourceRows(b.steps, i - 1, {fB[x]})
  <2> TAKE x \in 0 .. q - 1
  <2>1. MadeOf(b.steps[i], x) = {fB[x]}  BY DEF Takes
  <2>2. SourceRows(b.steps, i, {x}) = SourceRows(b.steps, i - 1, MadeOf(b.steps[i], x))
    BY SourceRowsOf
  <2> QED BY <2>1, <2>2
<1>5. \A x \in 0 .. q2 - 1 : SourceRows(e.steps, i, {x}) = SourceRows(e.steps, i - 1, {fE[x]})
  <2> TAKE x \in 0 .. q2 - 1
  <2>1. MadeOf(e.steps[i], x) = {fE[x]}  BY DEF Takes
  <2>2. SourceRows(e.steps, i, {x}) = SourceRows(e.steps, i - 1, MadeOf(e.steps[i], x))
    BY SourceRowsOf
  <2> QED BY <2>1, <2>2
<1>6. Kept(b, rows, i) = L
  <2>1. /\ DOMAIN b.tables[i] = 0 .. q - 1
        /\ \A x \in 0 .. q - 1 : fB[x] \in DOMAIN b.tables[i - 1]
    BY DEF Takes, Gather
  <2>2. \A x \in 0 .. q - 1 : fB[x] \in K
                                <=> SourceRows(b.steps, i - 1, {fB[x]}) \cap rows = {}
    BY <2>1 DEF Kept
  <2> HIDE DEF K
  <2> QED BY <1>4, <2>1, <2>2 DEF Kept
<1>7. \A x \in 0 .. Cardinality(K) - 1 :
         SourceRows(e.steps, i - 1, {x}) = SourceRows(b.steps, i - 1, {a[x]})
  BY DEF Shows
<1> HIDE DEF K, L, a, kept
<1>8. \A x \in 0 .. q2 - 1 : SourceRows(e.steps, i, {x}) = SourceRows(b.steps, i, {kept[x]})
  <2> TAKE x \in 0 .. q2 - 1
  <2>1. SourceRows(e.steps, i, {x}) = SourceRows(e.steps, i - 1, {fE[x]})  BY <1>5
  <2>2. SourceRows(e.steps, i - 1, {fE[x]}) = SourceRows(b.steps, i - 1, {a[fE[x]]})
    BY <1>3, <1>7
  <2>3. SourceRows(b.steps, i, {kept[x]}) = SourceRows(b.steps, i - 1, {fB[kept[x]]})
    BY <1>3, <1>4
  <2>4. a[fE[x]] = fB[kept[x]]  BY <1>3
  <2> QED BY <2>1, <2>2, <2>3, <2>4
<1>9. e.tables[i] = Gather(b.tables[i], kept)  BY <1>3
<1> QED BY <1>3, <1>6, <1>8, <1>9 DEF Shows, kept

\* What is left of a table, and where its rows were.
LEMMA LeftRows ==
    ASSUME NEW t, IsTable(t), NEW K \in SUBSET DOMAIN t
    PROVE  LET a == Ascending(K)
               p == Cardinality(K)
               left == Gather(t, a)
           IN  /\ IsTable(left) /\ Height(left) = p /\ DOMAIN left = 0 .. p - 1
               /\ p \in Nat /\ a \in [0 .. p - 1 -> K]
               /\ \A x \in 0 .. p - 1 : left[x] = t[a[x]] /\ a[x] \in K
               /\ \A x \in K : \E i \in 0 .. p - 1 : a[i] = x
               /\ \A i, j \in 0 .. p - 1 : i < j <=> a[i] < a[j]
               /\ \A i, j \in 0 .. p - 1 : a[i] = a[j] => i = j
<1> DEFINE a == Ascending(K)
           p == Cardinality(K)
<1>1. K \in SUBSET Int /\ IsFiniteSet(K)
  <2>1. DOMAIN t \subseteq Int /\ IsFiniteSet(DOMAIN t)  BY TableRows
  <2> QED BY <2>1, FS_Subset
<1>2. /\ p \in Nat /\ a \in [0 .. p - 1 -> K]
      /\ \A x \in K : \E i \in 0 .. p - 1 : a[i] = x
      /\ \A i, j \in 0 .. p - 1 : i < j <=> a[i] < a[j]
      /\ \A i, j \in 0 .. p - 1 : a[i] = a[j] => i = j
  BY <1>1, AscendingGrows
<1> HIDE DEF a, p
<1>3. a \in [0 .. p - 1 -> DOMAIN t] /\ \A x \in 0 .. p - 1 : a[x] \in K  BY <1>2
<1>4. /\ IsTable(Gather(t, a)) /\ Height(Gather(t, a)) = p
      /\ DOMAIN Gather(t, a) = 0 .. p - 1
      /\ \A x \in 0 .. p - 1 : Gather(t, a)[x] = t[a[x]]
  BY <1>2, <1>3, GatherTable
<1> QED BY <1>2, <1>3, <1>4 DEF a, p

LEMMA FilterPicks ==
    ASSUME NEW op, NEW t, IsTable(t), NEW K \in SUBSET DOMAIN t
    PROVE  LET left == Gather(t, Ascending(K))
           IN  Picks(K, Ascending(Passing(op, t)), Cardinality(Passing(op, t)),
                     Ascending(Passing(op, left)), Cardinality(Passing(op, left)))
<1> DEFINE a == Ascending(K)
           p == Cardinality(K)
           left == Gather(t, a)
           H == Passing(op, t)
           J == Passing(op, left)
<1>1. /\ IsTable(left) /\ DOMAIN left = 0 .. p - 1 /\ a \in [0 .. p - 1 -> K] /\ p \in Nat
      /\ \A x \in 0 .. p - 1 : left[x] = t[a[x]] /\ a[x] \in K
      /\ \A i, j \in 0 .. p - 1 : i < j <=> a[i] < a[j]
  BY LeftRows
<1> HIDE DEF left, a, p
<1>2. J = {j \in 0 .. p - 1 : a[j] \in H}
  <2>1. \A j \in 0 .. p - 1 : a[j] \in DOMAIN t  BY <1>1
  <2> QED BY <1>1, <2>1 DEF Passing
<1>3. H \in SUBSET Int /\ IsFiniteSet(H) /\ J \in SUBSET Int /\ IsFiniteSet(J)
  <2>1. \A s, P : IsTable(s) /\ P \subseteq DOMAIN s => P \in SUBSET Int /\ IsFiniteSet(P)
    <3> TAKE s, P
    <3> HAVE IsTable(s) /\ P \subseteq DOMAIN s
    <3>1. DOMAIN s \subseteq Int /\ IsFiniteSet(DOMAIN s)  BY TableRows
    <3> QED BY <3>1, FS_Subset
  <2>2. H \subseteq DOMAIN t /\ J \subseteq DOMAIN left  BY DEF Passing
  <2> HIDE DEF H, J
  <2> QED BY <1>1, <2>1, <2>2
<1> HIDE DEF H, J
<1>4. Lists(Ascending(H), Cardinality(H), H, Less) /\ Asymmetric(Less, H)
  BY <1>3, AscendingLists, LessOrders DEF Orders
<1>5. Lists(Ascending(J), Cardinality(J), {j \in 0 .. p - 1 : a[j] \in H}, Less)
  BY <1>2, <1>3, AscendingLists
<1>6. \A x, y \in 0 .. p - 1 : <<x, y>> \in Less <=> <<a[x], a[y]>> \in Less
  <2> TAKE x, y \in 0 .. p - 1
  <2>1. x \in Int /\ y \in Int /\ a[x] \in Int /\ a[y] \in Int  BY <1>1, TableRows
  <2>2. x < y <=> a[x] < a[y]  BY <1>1
  <2> QED BY <2>1, <2>2 DEF Less
<1>7. Picks(K, Ascending(H), Cardinality(H), Ascending(J), Cardinality(J))
  BY <1>4, <1>5, <1>6 DEF Picks, a, p
<1> QED BY <1>7 DEF H, J, left, a

LEMMA SortPicks ==
    ASSUME NEW op, IsStep(op), op.op = "sort", NEW t, IsTable(t), NEW K \in SUBSET DOMAIN t
    PROVE  LET left == Gather(t, Ascending(K))
           IN  Picks(K, SortPermutation(op, t), Height(t),
                     SortPermutation(op, left), Height(left))
<1> DEFINE a == Ascending(K)
           p == Cardinality(K)
           left == Gather(t, a)
           Q == SortOrder(op, t)
           Q2 == SortOrder(op, left)
           H == DOMAIN t
<1>1. /\ IsTable(left) /\ DOMAIN left = 0 .. p - 1 /\ a \in [0 .. p - 1 -> K] /\ p \in Nat
      /\ \A x \in 0 .. p - 1 : left[x] = t[a[x]] /\ a[x] \in K
      /\ \A i, j \in 0 .. p - 1 : i < j <=> a[i] < a[j]
      /\ \A i, j \in 0 .. p - 1 : a[i] = a[j] => i = j
  BY LeftRows
<1> HIDE DEF left, a, p
<1>2. \A j \in 0 .. p - 1 : a[j] \in H  BY <1>1
<1>3. {j \in 0 .. p - 1 : a[j] \in H} = DOMAIN left  BY <1>1, <1>2
<1>4. /\ Lists(SortPermutation(op, t), Height(t), H, Q) /\ Asymmetric(Q, H)
      /\ Lists(SortPermutation(op, left), Height(left), DOMAIN left, Q2)
  BY <1>1, SortTakes, SortOrders DEF Orders
<1>5. \A x, y \in 0 .. p - 1 : <<x, y>> \in Q2 <=> <<a[x], a[y]>> \in Q
  <2> TAKE x, y \in 0 .. p - 1
  <2> DEFINE Comes(s, u, w) == \/ s[u][op.by] = s[w][op.by] /\ u < w
                               \/ IF op.descending THEN s[u][op.by] > s[w][op.by]
                                  ELSE s[u][op.by] < s[w][op.by]
  <2>1. \A s : \A z : z \in SortOrder(op, s)
                         <=> z \in (DOMAIN s) \X (DOMAIN s) /\ Comes(s, z[1], z[2])
    BY DEF SortOrder
  <2>2. <<x, y>> \in (DOMAIN left) \X (DOMAIN left) /\ <<a[x], a[y]>> \in (DOMAIN t) \X (DOMAIN t)
    BY <1>1, <1>2
  <2>3. left[x] = t[a[x]] /\ left[y] = t[a[y]] /\ (x < y <=> a[x] < a[y])  BY <1>1
  <2>4. Comes(left, x, y) <=> Comes(t, a[x], a[y])
    <3>1. op.descending \in BOOLEAN  BY DEF IsStep
    <3>2. CASE op.descending  BY <2>3, <3>2
    <3>3. CASE ~ op.descending  BY <2>3, <3>3
    <3> QED BY <3>1, <3>2, <3>3
  <2> HIDE DEF Comes
  <2>5. <<x, y>> \in Q2 <=> Comes(left, x, y)  BY <2>1, <2>2
  <2>6. <<a[x], a[y]>> \in Q <=> Comes(t, a[x], a[y])  BY <2>1, <2>2
  <2> QED BY <2>4, <2>5, <2>6
<1> HIDE DEF Q, Q2, H
<1>6. Lists(SortPermutation(op, left), Height(left), {j \in 0 .. p - 1 : a[j] \in H}, Q2)
  BY <1>3, <1>4
<1>7. Picks(K, SortPermutation(op, t), Height(t), SortPermutation(op, left), Height(left))
  BY <1>4, <1>5, <1>6 DEF Picks, a, p
<1> QED BY <1>7 DEF left, a

\* Steps that keep every row where it is.
LEMMA IdentityShows ==
    ASSUME NEW b, NEW e, NEW rows, NEW i \in Nat \ {0},
           IsTable(b.tables[i - 1]), Shows(b, e, rows, i - 1),
           DOMAIN b.tables[i] = DOMAIN b.tables[i - 1],
           b.steps[i].kind = "Identity", e.steps[i].kind = "Identity",
           e.tables[i] = Gather(b.tables[i], Ascending(Kept(b, rows, i - 1)))
    PROVE  Shows(b, e, rows, i)
<1>1. \A s : s.kind = "Identity" => \A x : MadeOf(s, x) = {x}  BY DEF MadeOf
<1>2. \A x : /\ SourceRows(b.steps, i, {x}) = SourceRows(b.steps, i - 1, {x})
             /\ SourceRows(e.steps, i, {x}) = SourceRows(e.steps, i - 1, {x})
  <2> TAKE x
  <2>1. MadeOf(b.steps[i], x) = {x} /\ MadeOf(e.steps[i], x) = {x}  BY <1>1
  <2>2. /\ SourceRows(b.steps, i, {x}) = SourceRows(b.steps, i - 1, MadeOf(b.steps[i], x))
        /\ SourceRows(e.steps, i, {x}) = SourceRows(e.steps, i - 1, MadeOf(e.steps[i], x))
    BY SourceRowsOf
  <2> QED BY <2>1, <2>2
<1>3. Kept(b, rows, i) = Kept(b, rows, i - 1)  BY <1>2 DEF Kept
<1>4. \A x \in 0 .. Cardinality(Kept(b, rows, i)) - 1 :
         SourceRows(e.steps, i, {x}) = SourceRows(b.steps, i, {Ascending(Kept(b, rows, i))[x]})
  <2> TAKE x \in 0 .. Cardinality(Kept(b, rows, i)) - 1
  <2> DEFINE y == Ascending(Kept(b, rows, i))[x]
  <2>1. SourceRows(e.steps, i - 1, {x}) = SourceRows(b.steps, i - 1, {y})
    BY <1>3 DEF Shows
  <2> HIDE DEF y
  <2>2. SourceRows(e.steps, i, {x}) = SourceRows(b.steps, i, {y})  BY <1>2, <2>1
  <2> QED BY <2>2 DEF y
<1> QED BY <1>3, <1>4 DEF Shows

KeepsRows(op) == op.op \in {"filter", "map", "project", "sort"}

LEMMA StepShows ==
    ASSUME NEW plan, NEW b, NEW e, NEW rows, NEW i \in Nat \ {0},
           IsStep(plan[i]), KeepsRows(plan[i]),
           IsTable(b.tables[i - 1]), Shows(b, e, rows, i - 1),
           Follows(plan, b, i), Follows(plan, e, i)
    PROVE  Shows(b, e, rows, i)
<1> DEFINE op == plan[i]
           t == b.tables[i - 1]
           K == Kept(b, rows, i - 1)
           left == Gather(t, Ascending(K))
           rB == RunStep(op, t)
           rE == RunStep(op, left)
<1>1. K \in SUBSET DOMAIN t  BY KeptRows
<1>2. e.tables[i - 1] = left  BY DEF Shows
<1>3. IsTable(left)  BY <1>1, LeftRows
<1>4. /\ rB.table = b.tables[i] /\ rB.lineage = b.steps[i]
      /\ rE.table = e.tables[i] /\ rE.lineage = e.steps[i]
  BY <1>2 DEF Follows
<1>5. CASE op.op = "filter"
  <2>1. rB = Filter(op, t) /\ rE = Filter(op, left)  BY <1>5 DEF RunStep
  <2> DEFINE fB == Ascending(Passing(op, t))
             q == Cardinality(Passing(op, t))
             fE == Ascending(Passing(op, left))
             q2 == Cardinality(Passing(op, left))
  <2>2. Takes(rB, t, fB, q) /\ Takes(rE, left, fE, q2)  BY <1>3, <2>1, FilterTakes
  <2>3. Picks(K, fB, q, fE, q2)  BY <1>1, FilterPicks
  <2> HIDE DEF op, rB, rE, fB, q, fE, q2
  <2> QED BY <1>2, <1>4, <2>2, <2>3, TakesShows
<1>6. CASE op.op = "sort"
  <2>1. rB = Sort(op, t) /\ rE = Sort(op, left)  BY <1>6 DEF RunStep
  <2> DEFINE fB == SortPermutation(op, t)
             fE == SortPermutation(op, left)
  <2>2. Takes(rB, t, fB, Height(t)) /\ Takes(rE, left, fE, Height(left))
    BY <1>3, <1>6, <2>1, SortTakes
  <2>3. Picks(K, fB, Height(t), fE, Height(left))  BY <1>1, <1>6, SortPicks
  <2> HIDE DEF op, rB, rE, fB, fE
  <2> QED BY <1>2, <1>4, <2>2, <2>3, TakesShows
<1>7. CASE op.op = "map"
  <2>1. rB = Map(t) /\ rE = Map(left)  BY <1>7 DEF RunStep
  <2>2. /\ DOMAIN b.tables[i] = DOMAIN t
        /\ b.steps[i].kind = "Identity" /\ e.steps[i].kind = "Identity"
    <3>1. \A n : Identity(n).kind = "Identity"  BY DEF Identity
    <3>2. /\ DOMAIN rB.table = DOMAIN t /\ rB.lineage = Identity(Height(t))
          /\ rE.lineage = Identity(Height(left))
      BY <1>3, <2>1, MapTyped
    <3> HIDE DEF rB, rE, t, left
    <3> QED BY <1>4, <3>1, <3>2
  <2>3. e.tables[i] = Gather(b.tables[i], Ascending(K))
    <3> DEFINE new(r) == [r EXCEPT !.n = IF @ = Missing THEN Missing ELSE - @]
               a == Ascending(K)
               p == Cardinality(K)
    <3>1. \A s : Map(s).table = [r \in DOMAIN s |-> new(s[r])]  BY DEF Map, Done
    <3>2. /\ DOMAIN left = 0 .. p - 1 /\ DOMAIN a = 0 .. p - 1
          /\ \A x \in 0 .. p - 1 : left[x] = t[a[x]] /\ a[x] \in DOMAIN t
      BY <1>1, LeftRows
    <3> HIDE DEF new, left, a, p
    <3>3. Map(left).table = [x \in 0 .. p - 1 |-> new(t[a[x]])]  BY <3>1, <3>2
    <3>4. Gather(Map(t).table, a) = [x \in 0 .. p - 1 |-> new(t[a[x]])]
      <4>1. \A x \in 0 .. p - 1 : Map(t).table[a[x]] = new(t[a[x]])
        <5>1. Map(t).table = [r \in DOMAIN t |-> new(t[r])]  BY <3>1
        <5> HIDE DEF t
        <5> QED BY <3>2, <5>1
      <4>2. Gather(Map(t).table, a) = [x \in 0 .. p - 1 |-> Map(t).table[a[x]]]
        BY <3>2 DEF Gather
      <4> QED BY <4>1, <4>2
    <3>5. Map(left).table = e.tables[i] /\ Map(t).table = b.tables[i]  BY <1>4, <2>1
    <3> QED BY <3>3, <3>4, <3>5 DEF a
  <2> QED BY <2>2, <2>3, IdentityShows
<1>8. CASE op.op = "project"
  <2>1. rB = Project(t) /\ rE = Project(left)  BY <1>8 DEF RunStep
  <2>2. b.tables[i] = t /\ e.tables[i] = left
    BY <1>3, <1>4, <2>1, ProjectTyped
  <2>3. b.steps[i].kind = "Identity" /\ e.steps[i].kind = "Identity"
    <3>1. \A n : Identity(n).kind = "Identity"  BY DEF Identity
    <3>2. rB.lineage = Identity(Height(t)) /\ rE.lineage = Identity(Height(left))
      BY <1>3, <2>1, ProjectTyped
    <3> HIDE DEF rB, rE, t, left
    <3> QED BY <1>4, <3>1, <3>2
  <2> QED BY <2>2, <2>3, IdentityShows
<1> QED BY <1>5, <1>6, <1>7, <1>8 DEF KeepsRows

LEMMA KeepsRowsOk ==
    ASSUME NEW op, IsStep(op), KeepsRows(op), NEW t, IsTable(t)
    PROVE  RunStep(op, t).ok
<1>1. CASE op.op = "filter"
  <2>1. RunStep(op, t) = Filter(op, t)  BY <1>1 DEF RunStep
  <2> QED BY <2>1, FilterTakes DEF Takes
<1>2. CASE op.op = "sort"
  <2>1. RunStep(op, t) = Sort(op, t)  BY <1>2 DEF RunStep
  <2> QED BY <1>2, <2>1, SortTakes DEF Takes
<1>3. CASE op.op = "map"  BY <1>3, MapTyped DEF RunStep
<1>4. CASE op.op = "project"  BY <1>4, ProjectTyped DEF RunStep
<1> QED BY <1>1, <1>2, <1>3, <1>4 DEF KeepsRows

\* e's first step is the scan without the rows ex.
Scans(plan, e, ex) ==
    e.tables[0] = Scan(plan[0], ex).table /\ e.steps[0] = Scan(plan[0], ex).lineage

LEMMA ScanShows ==
    ASSUME NEW plan, IsPlan(plan), NEW rows, rows # NoExclusion,
           NEW b, NEW e, Scans(plan, b, NoExclusion), Scans(plan, e, rows)
    PROVE  Shows(b, e, rows, 0)
<1> DEFINE t == Snapshot[plan[0].snapshot]
           K == Scanned(plan, rows)
           rB == Scan(plan[0], NoExclusion)
           rE == Scan(plan[0], rows)
<1>1. /\ rB.table = t /\ \A i : MadeOf(rB.lineage, i) = {i}
      /\ rE.table = Gather(t, Ascending(K))
      /\ \A i \in 0 .. Cardinality(K) - 1 : MadeOf(rE.lineage, i) = {Ascending(K)[i]}
  <2>1. rB.table = t /\ \A i : MadeOf(rB.lineage, i) = {i}
    BY ScanAll
  <2>2. /\ rE.table = Gather(t, Ascending(K))
        /\ \A i \in 0 .. Cardinality(K) - 1 : MadeOf(rE.lineage, i) = {Ascending(K)[i]}
    BY ScanTyped
  <2> QED BY <2>1, <2>2
<1> HIDE DEF rB, rE
<1>2. \A s, x : SourceRows(s, 0, {x}) = MadeOf(s[0], x)
  <2> TAKE s, x
  <2>1. SourceRows(s, 0, {x}) = UNION {MadeOf(s[0], r) : r \in {x}}
    BY SourceRowsScan, StepBackMadeOf
  <2> QED BY <2>1
<1>3. /\ b.tables[0] = t /\ \A i : SourceRows(b.steps, 0, {i}) = {i}
      /\ e.tables[0] = Gather(t, Ascending(K))
      /\ \A i \in 0 .. Cardinality(K) - 1 : SourceRows(e.steps, 0, {i}) = {Ascending(K)[i]}
  <2>1. /\ b.tables[0] = rB.table /\ e.tables[0] = rE.table
        /\ b.steps[0] = rB.lineage /\ e.steps[0] = rE.lineage
    BY DEF Scans, rB, rE
  <2>2. \A x : /\ SourceRows(b.steps, 0, {x}) = MadeOf(rB.lineage, x)
               /\ SourceRows(e.steps, 0, {x}) = MadeOf(rE.lineage, x)
    BY <1>2, <2>1
  <2> QED BY <1>1, <2>1, <2>2
<1>4. Kept(b, rows, 0) = K
  <2>1. \A r : SourceRows(b.steps, 0, {r}) \cap rows = {} <=> r \notin rows
    <3> TAKE r
    <3>1. SourceRows(b.steps, 0, {r}) = {r}  BY <1>3
    <3> QED BY <3>1
  <2> QED BY <1>3, <2>1 DEF Kept, Scanned
<1> HIDE DEF K
<1>5. \A x \in 0 .. Cardinality(K) - 1 :
         SourceRows(e.steps, 0, {x}) = SourceRows(b.steps, 0, {Ascending(K)[x]})
  BY <1>3
<1> QED BY <1>3, <1>4, <1>5 DEF Shows

LEMMA BeforeShows ==
    ASSUME NEW plan, IsPlan(plan), NEW rows, rows # NoExclusion,
           NEW b, NEW e, Scans(plan, b, NoExclusion), Scans(plan, e, rows),
           NEW m \in DOMAIN plan,
           \A i \in 0 .. m : IsTable(b.tables[i]),
           \A i \in 1 .. m : /\ KeepsRows(plan[i])
                             /\ Follows(plan, b, i) /\ Follows(plan, e, i)
    PROVE  Shows(b, e, rows, m)
<1> DEFINE S == {k \in Nat : k <= m => Shows(b, e, rows, k)}
<1>1. 0 \in S  BY ScanShows
<1>2. ASSUME NEW k \in Nat, k \in S PROVE k + 1 \in S
  <2> SUFFICES ASSUME k + 1 <= m PROVE Shows(b, e, rows, k + 1)  OBVIOUS
  <2>1. /\ k + 1 \in DOMAIN plan \ {0} /\ k + 1 \in 1 .. m /\ k \in 0 .. m
        /\ (k + 1) - 1 = k /\ k + 1 \in Nat \ {0}
    BY PlanNodes
  <2>2. IsStep(plan[k + 1])  BY <2>1 DEF IsPlan
  <2>3. Shows(b, e, rows, k)  BY <1>2, <2>1
  <2>4. /\ IsTable(b.tables[k]) /\ KeepsRows(plan[k + 1])
        /\ Follows(plan, b, k + 1) /\ Follows(plan, e, k + 1)
    BY <2>1
  <2> QED BY <2>1, <2>2, <2>3, <2>4, StepShows
<1>3. m \in S
  <2>1. m \in Nat  BY PlanNodes
  <2> HIDE DEF S
  <2> QED BY <1>1, <1>2, <2>1, SetInduction
<1>4. m <= m  BY PlanNodes
<1> QED BY <1>3, <1>4

(***************************************************************************)
(* The aggregate: what a group's members come to does not depend on the    *)
(* rows around them.                                                       *)
(***************************************************************************)

\* The row of a group whose key is g and whose members are the rows M of t.
RowOf(op, t, g, M) ==
    [k |-> g, n |-> AggValue(op, t, M),
     v |-> [i \in DOMAIN Ascending(M) |-> t[Ascending(M)[i]].v]]

\* Where the rows N of what is left were.
Were(K, N) == {Ascending(K)[x] : x \in N}

LEMMA WereMembers ==
    ASSUME NEW t, IsTable(t), NEW K \in SUBSET DOMAIN t,
           NEW N \in SUBSET DOMAIN Gather(t, Ascending(K))
    PROVE  /\ Were(K, N) \in SUBSET K /\ Were(K, N) \in SUBSET Int
           /\ IsFiniteSet(Were(K, N))
           /\ N \in SUBSET Int /\ IsFiniteSet(N)
           /\ Cardinality(Were(K, N)) = Cardinality(N) /\ Cardinality(N) \in Nat
           /\ Ascending(Were(K, N))
                = [i \in 0 .. Cardinality(N) - 1 |-> Ascending(K)[Ascending(N)[i]]]
<1> DEFINE a == Ascending(K)
           p == Cardinality(K)
<1>1. /\ DOMAIN Gather(t, a) = 0 .. p - 1 /\ p \in Nat /\ IsTable(Gather(t, a))
      /\ \A x \in 0 .. p - 1 : a[x] \in K
      /\ \A i, j \in 0 .. p - 1 : i < j <=> a[i] < a[j]
  BY LeftRows
<1>2. IsFiniteSet(N) /\ N \in SUBSET Int /\ N \subseteq 0 .. p - 1
  <2>1. N \subseteq 0 .. p - 1  BY <1>1
  <2>2. IsFiniteSet(0 .. p - 1)  BY <1>1, 0 \in Int, p - 1 \in Int, FS_Interval
  <2>3. 0 .. p - 1 \subseteq Int  BY <1>1
  <2> QED BY <2>1, <2>2, <2>3, FS_Subset
<1>3. K \subseteq Int  BY TableRows
<1>4. \A x \in N : a[x] \in Int /\ a[x] \in K  BY <1>1, <1>2, <1>3
<1>5. \A x, y \in N : x < y => a[x] < a[y]  BY <1>1, <1>2
<1> HIDE DEF a
<1>6. /\ Cardinality({a[x] : x \in N}) = Cardinality(N)
      /\ Ascending({a[x] : x \in N})
           = [i \in 0 .. Cardinality(N) - 1 |-> a[Ascending(N)[i]]]
  BY <1>2, <1>4, <1>5, AscendingImage
<1>7. Were(K, N) = {a[x] : x \in N}  BY DEF Were, a
<1>8. Were(K, N) \in SUBSET K /\ Were(K, N) \in SUBSET Int  BY <1>3, <1>4, <1>7
<1>9. IsFiniteSet(Were(K, N))
  <2>1. IsFiniteSet(K)  BY TableRows, FS_Subset
  <2> QED BY <1>8, <2>1, FS_Subset
<1> QED BY <1>2, <1>6, <1>7, <1>8, <1>9, FS_CardinalityType DEF a

LEMMA WerePresent ==
    ASSUME NEW t, IsTable(t), NEW K \in SUBSET DOMAIN t,
           NEW N \in SUBSET DOMAIN Gather(t, Ascending(K))
    PROVE  /\ Present(t, Were(K, N)) = Were(K, Present(Gather(t, Ascending(K)), N))
           /\ Present(Gather(t, Ascending(K)), N) \in SUBSET DOMAIN Gather(t, Ascending(K))
           /\ \A x \in N : /\ Gather(t, Ascending(K))[x] = t[Ascending(K)[x]]
                           /\ Ascending(K)[x] \in DOMAIN t
           /\ \A x, y \in N : x < y <=> Ascending(K)[x] < Ascending(K)[y]
           /\ \A x, y \in N : Ascending(K)[x] = Ascending(K)[y] => x = y
<1> DEFINE a == Ascending(K)
           left == Gather(t, a)
           p == Cardinality(K)
<1>1. /\ DOMAIN left = 0 .. p - 1
      /\ \A x \in 0 .. p - 1 : left[x] = t[a[x]] /\ a[x] \in K
      /\ \A i, j \in 0 .. p - 1 : i < j <=> a[i] < a[j]
      /\ \A i, j \in 0 .. p - 1 : a[i] = a[j] => i = j
  BY LeftRows
<1> HIDE DEF left, a, p
<1>2. N \subseteq 0 .. p - 1  BY <1>1 DEF left, a
<1>3. \A x \in N : left[x] = t[a[x]] /\ a[x] \in DOMAIN t  BY <1>1, <1>2
<1>4. {m \in {a[x] : x \in N} : t[m].n # Missing}
        = {a[x] : x \in {y \in N : left[y].n # Missing}}
  BY <1>3
<1>5. Present(t, Were(K, N)) = Were(K, Present(left, N))  BY <1>4 DEF Present, Were, a
<1>6. Present(left, N) \in SUBSET DOMAIN left  BY <1>1, <1>2 DEF Present
<1>7. \A x, y \in N : x < y <=> a[x] < a[y]  BY <1>1, <1>2
<1>8. \A x, y \in N : a[x] = a[y] => x = y  BY <1>1, <1>2
<1> QED BY <1>3, <1>5, <1>6, <1>7, <1>8 DEF left, a

LEMMA WereNumbers ==
    ASSUME NEW t, IsTable(t), NEW K \in SUBSET DOMAIN t,
           NEW N \in SUBSET DOMAIN Gather(t, Ascending(K))
    PROVE  Numbers(Gather(t, Ascending(K)), N) = Numbers(t, Were(K, N))
<1> DEFINE a == Ascending(K)
           left == Gather(t, a)
           P == Present(left, N)
           o == Ascending(P)
           m == Cardinality(P)
<1>1. /\ P \in SUBSET DOMAIN left /\ Present(t, Were(K, N)) = Were(K, P)
      /\ \A x \in N : left[x] = t[a[x]]
  BY WerePresent
<1>2. /\ Ascending(Were(K, P)) = [i \in 0 .. m - 1 |-> a[o[i]]]
      /\ P \in SUBSET Int /\ IsFiniteSet(P)
  BY <1>1, WereMembers
<1>3. o \in [0 .. m - 1 -> P]  BY <1>2, AscendingGrows
<1>4. P \subseteq N  BY DEF Present
<1>5. Numbers(left, N) = [i \in DOMAIN o |-> left[o[i]].n]  BY DEF Numbers
<1>6. Numbers(t, Were(K, N)) = [i \in 0 .. m - 1 |-> t[a[o[i]]].n]
  <2> DEFINE w == Ascending(Were(K, P))
  <2>1. Numbers(t, Were(K, N)) = [i \in DOMAIN w |-> t[w[i]].n]  BY <1>1 DEF Numbers
  <2>2. w = [i \in 0 .. m - 1 |-> a[o[i]]]  BY <1>2
  <2> HIDE DEF w, o, m
  <2> QED BY <2>1, <2>2
<1> HIDE DEF o, m, P, left, a
<1>7. \A i \in 0 .. m - 1 : left[o[i]] = t[a[o[i]]]  BY <1>1, <1>3, <1>4
<1> QED BY <1>3, <1>5, <1>6, <1>7 DEF left, a

LEMMA WereSorted ==
    ASSUME NEW t, IsTable(t), NEW K \in SUBSET DOMAIN t,
           NEW N \in SUBSET DOMAIN Gather(t, Ascending(K))
    PROVE  SortedNumbers(Gather(t, Ascending(K)), N) = SortedNumbers(t, Were(K, N))
<1> DEFINE a == Ascending(K)
           left == Gather(t, a)
           W == Were(K, N)
           P == Present(left, N)
           f == NumbersSorted(left, N)
           m == Cardinality(P)
           g == [i \in 0 .. m - 1 |-> a[f[i]]]
           T == Present(t, W)
<1>1. IsTable(left) /\ W \in SUBSET DOMAIN t
  <2>1. W \in SUBSET K  BY WereMembers
  <2> QED BY <2>1, LeftRows
<1>2. /\ Lists(f, m, P, NumberOrder(left))
      /\ SortedNumbers(left, N) = [i \in DOMAIN f |-> left[f[i]].n]
      /\ \A x, y \in DOMAIN left : <<x, y>> \in NumberOrder(left) <=>
            left[x].n < left[y].n \/ (left[x].n = left[y].n /\ x < y)
  BY <1>1, NumbersAreSorted
<1>3. /\ Lists(NumbersSorted(t, W), Cardinality(T), T, NumberOrder(t))
      /\ SortedNumbers(t, W) = [i \in DOMAIN NumbersSorted(t, W) |->
                                    t[NumbersSorted(t, W)[i]].n]
      /\ \A x, y \in DOMAIN t : <<x, y>> \in NumberOrder(t) <=>
            t[x].n < t[y].n \/ (t[x].n = t[y].n /\ x < y)
      /\ Orders(NumberOrder(t), T)
  BY <1>1, NumbersAreSorted
<1>4. /\ T = {a[x] : x \in P} /\ P \subseteq N /\ N \subseteq DOMAIN left
      /\ \A x \in N : left[x] = t[a[x]] /\ a[x] \in DOMAIN t
      /\ \A x, y \in N : x < y <=> a[x] < a[y]
  <2>1. T = Were(K, P)  BY WerePresent
  <2>2. T = {a[x] : x \in P}  BY <2>1 DEF Were
  <2>3. P \subseteq N  BY DEF Present
  <2>4. /\ \A x \in N : left[x] = t[a[x]] /\ a[x] \in DOMAIN t
        /\ \A x, y \in N : x < y <=> a[x] < a[y]
    BY WerePresent
  <2> QED BY <2>2, <2>3, <2>4
<1> HIDE DEF a, left, W, P, f, m, T
<1>5. \A x, y \in P : <<x, y>> \in NumberOrder(left) => <<a[x], a[y]>> \in NumberOrder(t)
  <2> TAKE x, y \in P
  <2>1. /\ x \in DOMAIN left /\ y \in DOMAIN left /\ a[x] \in DOMAIN t /\ a[y] \in DOMAIN t
        /\ left[x] = t[a[x]] /\ left[y] = t[a[y]] /\ (x < y <=> a[x] < a[y])
    BY <1>4
  <2> QED BY <1>2, <1>3, <2>1
<1>6. f \in [0 .. m - 1 -> P]  BY <1>2 DEF Lists
<1>7. g \in [0 .. m - 1 -> T] /\ \A i \in 0 .. m - 1 : g[i] = a[f[i]]  BY <1>4, <1>6
<1>8. (\A x \in P : a[x] \in T) /\ \A z \in T : \E x \in P : z = a[x]  BY <1>4
<1>9. Lists(g, m, T, NumberOrder(t))
  <2> HIDE DEF g
  <2> QED BY <1>2, <1>5, <1>7, <1>8, ListsImage
<1>10. NumbersSorted(t, W) = g
  <2>1. Asymmetric(NumberOrder(t), T)  BY <1>3 DEF Orders
  <2> HIDE DEF g
  <2>2. g = RankedIn(T, NumberOrder(t))  BY <1>9, <2>1, ListsUnique
  <2>3. NumbersSorted(t, W) = RankedIn(T, NumberOrder(t))  BY <1>3, <2>1, ListsUnique
  <2> QED BY <2>2, <2>3
<1>11. SortedNumbers(t, W) = [i \in 0 .. m - 1 |-> t[a[f[i]]].n]
  <2>1. SortedNumbers(t, W) = [i \in DOMAIN g |-> t[g[i]].n]
    <3> HIDE DEF g
    <3> QED BY <1>3, <1>10
  <2>2. DOMAIN g = 0 .. m - 1  OBVIOUS
  <2> HIDE DEF g
  <2> QED BY <1>7, <2>1, <2>2
<1>12. \A i \in 0 .. m - 1 : left[f[i]] = t[a[f[i]]]  BY <1>4, <1>6
<1> QED BY <1>2, <1>6, <1>11, <1>12 DEF left, a, W

\* A group's row is made of its members alone.
LEMMA WereRow ==
    ASSUME NEW op, NEW t, IsTable(t), NEW K \in SUBSET DOMAIN t, NEW g,
           NEW N \in SUBSET DOMAIN Gather(t, Ascending(K))
    PROVE  /\ RowOf(op, Gather(t, Ascending(K)), g, N) = RowOf(op, t, g, Were(K, N))
           /\ SumOf(Gather(t, Ascending(K)), N) = SumOf(t, Were(K, N))
<1> DEFINE a == Ascending(K)
           left == Gather(t, a)
           W == Were(K, N)
<1>1. SumOf(left, N) = SumOf(t, W)  BY WereNumbers DEF SumOf
<1>2. Cardinality(W) = Cardinality(N)  BY WereMembers
<1>3. SortedNumbers(left, N) = SortedNumbers(t, W)  BY WereSorted
<1>4. AggValue(op, left, N) = AggValue(op, t, W)
  <2> HIDE DEF left, W
  <2> QED BY <1>1, <1>2, <1>3 DEF AggValue
<1>5. [i \in DOMAIN Ascending(N) |-> left[Ascending(N)[i]].v]
        = [i \in DOMAIN Ascending(W) |-> t[Ascending(W)[i]].v]
  <2> DEFINE o == Ascending(N)
             w == Ascending(W)
             m == Cardinality(N)
  <2>1. w = [i \in 0 .. m - 1 |-> a[o[i]]]  BY WereMembers
  <2>2. o \in [0 .. m - 1 -> N]  BY WereMembers, AscendingGrows
  <2>3. \A x \in N : left[x] = t[a[x]]  BY WerePresent
  <2> HIDE DEF o, w, m, left, W, a
  <2>4. DOMAIN w = DOMAIN o /\ \A i \in DOMAIN o : w[i] = a[o[i]] /\ o[i] \in N
    BY <2>1, <2>2
  <2>5. \A i \in DOMAIN o : left[o[i]].v = t[w[i]].v  BY <2>3, <2>4
  <2>6. [i \in DOMAIN o |-> left[o[i]].v] = [i \in DOMAIN w |-> t[w[i]].v]  BY <2>4, <2>5
  <2> QED BY <2>6 DEF o, w
<1> QED BY <1>1, <1>4, <1>5 DEF RowOf

\* The rows X of t that are in group g, and the groups that X is of.
Has(op, t, X, g) == Members(op, t, g) \cap X

LeftKeys(op, t, X) == IF op.grouped THEN {t[r].k : r \in X} ELSE {0}

\* No sum over what the groups have in X overflows.
FitsIn(op, t, X) ==
    op.func = "sum" => \A g \in LeftKeys(op, t, X) : Fits(SumOf(t, Has(op, t, X, g)))

\* r is the aggregate of the rows X of t.
IsAggregateOf(r, op, t, X) ==
    LET keys == Ascending(LeftKeys(op, t, X))
    IN  /\ r.table = [i \in DOMAIN keys |-> RowOf(op, t, keys[i], Has(op, t, X, keys[i]))]
        /\ r.lineage.kind = "Group" /\ r.lineage.len = Height(keys)
        /\ DOMAIN r.lineage.members = DOMAIN keys
        /\ \A i \in DOMAIN keys :
              Were(X, r.lineage.members[i]) = Has(op, t, X, keys[i])

\* What is left of a group is the group of what is left.
LEMMA LeftGroups ==
    ASSUME NEW op, IsStep(op), op.op = "aggregate", NEW t, IsTable(t),
           NEW X \in SUBSET DOMAIN t
    PROVE  LET left == Gather(t, Ascending(X))
           IN  /\ GroupKeys(op, left) = LeftKeys(op, t, X)
               /\ \A g : /\ Members(op, left, g) \in SUBSET DOMAIN left
                         /\ Were(X, Members(op, left, g)) = Has(op, t, X, g)
<1> DEFINE a == Ascending(X)
           p == Cardinality(X)
           left == Gather(t, a)
<1>1. /\ DOMAIN left = 0 .. p - 1
      /\ \A x \in 0 .. p - 1 : left[x] = t[a[x]] /\ a[x] \in X
      /\ \A x \in X : \E i \in 0 .. p - 1 : a[i] = x
  BY LeftRows
<1> HIDE DEF left, a, p
<1>2. op.grouped \in BOOLEAN  BY DEF IsStep
<1>3. {left[x].k : x \in DOMAIN left} = {t[r].k : r \in X}  BY <1>1
<1>4. GroupKeys(op, left) = LeftKeys(op, t, X)  BY <1>3 DEF GroupKeys, LeftKeys
<1>5. ASSUME NEW g
      PROVE  /\ Members(op, left, g) \in SUBSET DOMAIN left
             /\ Were(X, Members(op, left, g)) = Has(op, t, X, g)
  <2>1. CASE op.grouped
    <3>1. Members(op, left, g) = {x \in DOMAIN left : left[x].k = g}  BY <2>1 DEF Members
    <3>2. {a[x] : x \in {y \in DOMAIN left : left[y].k = g}}
            = {r \in DOMAIN t : t[r].k = g} \cap X
      BY <1>1
    <3> QED BY <2>1, <3>1, <3>2 DEF Has, Members, Were, a
  <2>2. CASE ~ op.grouped
    <3>1. Members(op, left, g) = DOMAIN left  BY <2>2 DEF Members
    <3>2. {a[x] : x \in DOMAIN left} = X  BY <1>1
    <3>3. Has(op, t, X, g) = X  BY <2>2 DEF Has, Members
    <3> QED BY <3>1, <3>2, <3>3 DEF Were, a
  <2> QED BY <1>2, <2>1, <2>2
<1> QED BY <1>4, <1>5 DEF left, a

LEMMA LeftAggregate ==
    ASSUME NEW op, IsStep(op), op.op = "aggregate", NEW t, IsTable(t),
           NEW X \in SUBSET DOMAIN t
    PROVE  LET r == Aggregate(op, Gather(t, Ascending(X)))
           IN  /\ LeftKeys(op, t, X) \in SUBSET Int /\ IsFiniteSet(LeftKeys(op, t, X))
               /\ r.ok <=> FitsIn(op, t, X)
               /\ r.ok => IsAggregateOf(r, op, t, X)
<1> DEFINE left == Gather(t, Ascending(X))
           r == Aggregate(op, left)
           G == LeftKeys(op, t, X)
           keys == Ascending(G)
           N(g) == Members(op, left, g)
<1>1. GroupKeys(op, left) = G /\ IsTable(left)  BY LeftGroups, LeftRows
<1>2. \A g : N(g) \in SUBSET DOMAIN left /\ Were(X, N(g)) = Has(op, t, X, g)
  BY LeftGroups
<1>3. G \in SUBSET Int /\ IsFiniteSet(G)
  <2> HIDE DEF left, G
  <2> QED BY <1>1, GroupKeysInOrder
<1>4. DOMAIN keys = 0 .. Cardinality(G) - 1 /\ keys \in [0 .. Cardinality(G) - 1 -> G]
      /\ \A g \in G : \E i \in DOMAIN keys : keys[i] = g
  <2> HIDE DEF G
  <2> QED BY <1>3, AscendingGrows
<1>5. \A g : /\ RowOf(op, left, g, N(g)) = RowOf(op, t, g, Has(op, t, X, g))
             /\ SumOf(left, N(g)) = SumOf(t, Has(op, t, X, g))
  <2> TAKE g
  <2>1. N(g) \in SUBSET DOMAIN left  BY <1>2
  <2>2. /\ RowOf(op, left, g, N(g)) = RowOf(op, t, g, Were(X, N(g)))
        /\ SumOf(left, N(g)) = SumOf(t, Were(X, N(g)))
    <3> HIDE DEF N
    <3> QED BY <2>1, WereRow
  <2> QED BY <1>2, <2>2
<1>6. \A g : GroupRow(op, left, g) = RowOf(op, left, g, N(g))  BY DEF GroupRow, RowOf
<1> HIDE DEF keys, G, N
<1> DEFINE Over == op.func = "sum" /\ \E i \in DOMAIN keys : ~ Fits(SumOf(left, N(keys[i])))
           made == Done([i \in DOMAIN keys |-> GroupRow(op, left, keys[i])],
                        [kind |-> "Group", len |-> Height(keys),
                         members |-> [i \in DOMAIN keys |-> N(keys[i])]])
<1>7. r = IF Over THEN Failed ELSE made
  <2> HIDE DEF left
  <2> QED BY <1>1 DEF Aggregate, keys, N
<1>8. Over <=> ~ FitsIn(op, t, X)
  <2>1. \A i \in DOMAIN keys : SumOf(left, N(keys[i])) = SumOf(t, Has(op, t, X, keys[i]))
    BY <1>5
  <2> HIDE DEF left
  <2> QED BY <1>4, <2>1 DEF FitsIn, G
<1>9. r.ok <=> ~ Over
  <2> HIDE DEF Over
  <2> QED BY <1>7 DEF Done, Failed
<1>10. ASSUME r.ok PROVE IsAggregateOf(r, op, t, X)
  <2>1. r = made  BY <1>7, <1>9, <1>10
  <2>2. /\ made.table = [i \in DOMAIN keys |-> GroupRow(op, left, keys[i])]
        /\ made.lineage.kind = "Group" /\ made.lineage.len = Height(keys)
        /\ made.lineage.members = [i \in DOMAIN keys |-> N(keys[i])]
    BY DEF Done
  <2> HIDE DEF made, r, left
  <2>3. r.table = [i \in DOMAIN keys |-> RowOf(op, t, keys[i], Has(op, t, X, keys[i]))]
    BY <1>5, <1>6, <2>1, <2>2
  <2>4. DOMAIN r.lineage.members = DOMAIN keys  BY <2>1, <2>2
  <2>5. \A i \in DOMAIN keys :
           Were(X, r.lineage.members[i]) = Has(op, t, X, keys[i])
    BY <1>2, <2>1, <2>2
  <2> QED BY <2>1, <2>2, <2>3, <2>4, <2>5 DEF IsAggregateOf, keys, G
<1> HIDE DEF r, Over
<1> QED BY <1>3, <1>8, <1>9, <1>10 DEF G, r, left

(***************************************************************************)
(* Recomputing the affected groups only: t is the aggregate's input in the *)
(* base and K its rows that are kept.                                      *)
(***************************************************************************)

BaseKeys(op, t) == Ascending(GroupKeys(op, t))

\* The base's groups that lose a row, and what they keep.
Hit(op, t, K) ==
    {q \in DOMAIN BaseKeys(op, t) : Members(op, t, BaseKeys(op, t)[q]) \ K # {}}

Hits(op, t, K) ==
    (UNION {Members(op, t, BaseKeys(op, t)[q]) : q \in Hit(op, t, K)}) \cap K

\* The base's groups that are left.
Left(op, t, K) ==
    {q \in DOMAIN BaseKeys(op, t) :
        \/ q \notin Hit(op, t, K)
        \/ Members(op, t, BaseKeys(op, t)[q]) \cap K # {}
        \/ ~ op.grouped}

\* The groups of the rows that are kept are the base's that are left, those
\* of the recomputed rows the ones among them that lost a row; both are in
\* key order.
LEMMA KeysLeft ==
    ASSUME NEW op, IsStep(op), op.op = "aggregate", NEW t, IsTable(t),
           NEW K \in SUBSET DOMAIN t, K # DOMAIN t
    PROVE  LET keys == BaseKeys(op, t)
           IN  /\ {keys[q] : q \in Left(op, t, K)} = LeftKeys(op, t, K)
               /\ {keys[q] : q \in Left(op, t, K) \cap Hit(op, t, K)}
                    = LeftKeys(op, t, Hits(op, t, K))
               /\ \A q \in Left(op, t, K) :
                     IF q \in Hit(op, t, K)
                     THEN Has(op, t, K, keys[q]) = Has(op, t, Hits(op, t, K), keys[q])
                     ELSE Has(op, t, K, keys[q]) = Members(op, t, keys[q])
<1> DEFINE G == GroupKeys(op, t)
           keys == BaseKeys(op, t)
           M(q) == Members(op, t, keys[q])
           A == Hit(op, t, K)
           U == Hits(op, t, K)
           L == Left(op, t, K)
<1>1. /\ DOMAIN keys = 0 .. Cardinality(G) - 1 /\ keys \in [0 .. Cardinality(G) - 1 -> G]
      /\ \A g \in G : \E q \in DOMAIN keys : keys[q] = g
      /\ \A i, j \in DOMAIN keys : M(i) \cap M(j) # {} => i = j
      /\ \A q : M(q) \in SUBSET DOMAIN t
  <2>1. G \in SUBSET Int /\ IsFiniteSet(G)  BY GroupKeysInOrder
  <2>2. /\ keys \in [0 .. Cardinality(G) - 1 -> G]
        /\ \A g \in G : \E q \in 0 .. Cardinality(G) - 1 : keys[q] = g
    <3> HIDE DEF G
    <3> QED BY <2>1, AscendingGrows DEF BaseKeys, G
  <2>3. \A i, j \in DOMAIN keys : M(i) \cap M(j) # {} => i = j
    BY GroupKeysInOrder DEF BaseKeys
  <2>4. \A q : M(q) \in SUBSET DOMAIN t  BY GroupKeysInOrder
  <2> HIDE DEF G, keys, M
  <2> QED BY <2>2, <2>3, <2>4
<1>2. /\ A = {q \in DOMAIN keys : M(q) \ K # {}}
      /\ U = (UNION {M(q) : q \in A}) \cap K
      /\ L = {q \in DOMAIN keys : q \notin A \/ M(q) \cap K # {} \/ ~ op.grouped}
  BY DEF Hit, Hits, Left
<1>3. \A X, q : Has(op, t, X, keys[q]) = M(q) \cap X  BY DEF Has
<1>20. \A r : r \in U <=> r \in K /\ \E q \in A : r \in M(q)
  BY DEF Hits
<1>4. ASSUME NEW q \in DOMAIN keys
      PROVE  IF q \in A THEN M(q) \cap K = M(q) \cap U ELSE M(q) \cap K = M(q)
  <2>1. CASE q \in A
    <3>1. \A r : r \in M(q) /\ r \in K => r \in U  BY <1>20, <2>1
    <3>2. \A r : r \in U => r \in K  BY <1>20
    <3> HIDE DEF A, U, M
    <3> QED BY <2>1, <3>1, <3>2
  <2>2. CASE q \notin A
    <3>1. M(q) \ K = {}  BY <1>2, <2>2
    <3> HIDE DEF A, U, M
    <3> QED BY <2>2, <3>1
  <2> QED BY <2>1, <2>2
<1>5. CASE op.grouped
  <2>1. G = {t[r].k : r \in DOMAIN t} /\ \A q, r : r \in M(q) <=> r \in DOMAIN t /\ t[r].k = keys[q]
    BY <1>5 DEF GroupKeys, Members
  <2>2. \A X : LeftKeys(op, t, X) = {t[r].k : r \in X}  BY <1>5 DEF LeftKeys
  <2> HIDE DEF A, U, L, M, keys, G
  <2>3. \A r \in DOMAIN t : \E q \in DOMAIN keys : r \in M(q) /\ keys[q] = t[r].k
    <3> TAKE r \in DOMAIN t
    <3>1. t[r].k \in G  BY <2>1
    <3>2. PICK q \in DOMAIN keys : keys[q] = t[r].k  BY <1>1, <3>1
    <3> QED BY <2>1, <3>2
  <2>4. \A q \in DOMAIN keys : M(q) # {}
    <3> TAKE q \in DOMAIN keys
    <3>1. keys[q] \in G  BY <1>1
    <3>2. PICK r \in DOMAIN t : keys[q] = t[r].k  BY <2>1, <3>1
    <3> QED BY <2>1, <3>2
  <2>5. \A q \in DOMAIN keys : q \in L <=> M(q) \cap K # {}
    BY <1>2, <1>4, <1>5, <2>4
  <2>6. U \subseteq K /\ \A q \in DOMAIN keys : q \in L \cap A <=> M(q) \cap U # {}
    <3>1. U \subseteq K  BY <1>20
    <3>2. ASSUME NEW q \in DOMAIN keys, M(q) \cap U # {} PROVE q \in A
      <4>1. PICK r : r \in M(q) /\ r \in U  BY <3>2
      <4>2. PICK i \in A : r \in M(i)  BY <1>20, <4>1
      <4>3. i \in DOMAIN keys /\ M(q) \cap M(i) # {}  BY <1>2, <4>1, <4>2
      <4> QED BY <1>1, <4>2, <4>3
    <3>3. ASSUME NEW q \in DOMAIN keys, M(q) \cap U # {} PROVE q \in L
      BY <2>5, <3>1, <3>3
    <3>4. ASSUME NEW q \in L \cap A PROVE M(q) \cap U # {}
      <4>1. q \in DOMAIN keys  BY <1>2
      <4> QED BY <1>4, <2>5, <4>1
    <3> QED BY <3>1, <3>2, <3>3, <3>4
  <2>7. ASSUME NEW X \in SUBSET DOMAIN t
        PROVE  {keys[q] : q \in {i \in DOMAIN keys : M(i) \cap X # {}}} = {t[r].k : r \in X}
    <3>1. ASSUME NEW i \in DOMAIN keys, M(i) \cap X # {} PROVE \E r \in X : keys[i] = t[r].k
      BY <2>1, <3>1
    <3>2. ASSUME NEW r \in X
          PROVE  \E i \in {j \in DOMAIN keys : M(j) \cap X # {}} : keys[i] = t[r].k
      <4>1. PICK i \in DOMAIN keys : r \in M(i) /\ keys[i] = t[r].k  BY <2>3
      <4> QED BY <4>1
    <3> QED BY <3>1, <3>2
  <2>8. L = {i \in DOMAIN keys : M(i) \cap K # {}}  BY <1>2, <2>5
  <2>9. L \cap A = {i \in DOMAIN keys : M(i) \cap U # {}}  BY <1>2, <2>6
  <2>10. {keys[q] : q \in L} = LeftKeys(op, t, K)  BY <2>2, <2>7, <2>8
  <2>11. {keys[q] : q \in L \cap A} = LeftKeys(op, t, U)
    <3>1. U \in SUBSET DOMAIN t  BY <2>6
    <3> QED BY <2>2, <2>7, <2>9, <3>1
  <2>12. \A q \in L : IF q \in A THEN M(q) \cap K = M(q) \cap U ELSE M(q) \cap K = M(q)
    BY <1>2, <1>4
  <2> QED BY <1>3, <2>10, <2>11, <2>12 DEF L, A, U, keys, M
<1>6. CASE ~ op.grouped
  <2>1. G = {0} /\ \A X : LeftKeys(op, t, X) = {0}  BY <1>6 DEF GroupKeys, LeftKeys
  <2>2. \A q : M(q) = DOMAIN t  BY <1>6 DEF Members
  <2> HIDE DEF A, U, L, M, keys, G
  <2>3. A = DOMAIN keys  BY <1>2, <2>2
  <2>4. L = DOMAIN keys  BY <1>2, <1>6
  <2>5. {keys[q] : q \in DOMAIN keys} = {0}  BY <1>1, <2>1
  <2>6. {keys[q] : q \in L} = LeftKeys(op, t, K)  BY <2>1, <2>4, <2>5
  <2>7. {keys[q] : q \in L \cap A} = LeftKeys(op, t, U)
    <3>1. L \cap A = DOMAIN keys  BY <2>3, <2>4
    <3> QED BY <2>1, <2>5, <3>1
  <2>8. \A q \in L : IF q \in A THEN M(q) \cap K = M(q) \cap U ELSE M(q) \cap K = M(q)
    BY <1>2, <1>4
  <2> QED BY <1>3, <2>6, <2>7, <2>8 DEF L, A, U, keys, M
<1>7. op.grouped \in BOOLEAN  BY DEF IsStep
<1> QED BY <1>5, <1>6, <1>7

LEMMA FitsLeft ==
    ASSUME NEW op, IsStep(op), op.op = "aggregate", NEW t, IsTable(t),
           Aggregate(op, t).ok, NEW K \in SUBSET DOMAIN t, K # DOMAIN t
    PROVE  FitsIn(op, t, Hits(op, t, K)) <=> FitsIn(op, t, K)
<1> DEFINE keys == BaseKeys(op, t)
           A == Hit(op, t, K)
           U == Hits(op, t, K)
           L == Left(op, t, K)
<1>1. /\ {keys[q] : q \in L} = LeftKeys(op, t, K)
      /\ {keys[q] : q \in L \cap A} = LeftKeys(op, t, U)
      /\ \A q \in L : IF q \in A THEN Has(op, t, K, keys[q]) = Has(op, t, U, keys[q])
                      ELSE Has(op, t, K, keys[q]) = Members(op, t, keys[q])
  BY KeysLeft
<1>2. op.func = "sum" => \A q \in L : Fits(SumOf(t, Members(op, t, keys[q])))
  <2>1. L \subseteq DOMAIN keys  BY DEF Left
  <2>2. op.func = "sum" => \A q \in DOMAIN keys : Fits(SumOf(t, Members(op, t, keys[q])))
    BY Aggregated DEF BaseKeys
  <2> HIDE DEF L, keys
  <2> QED BY <2>1, <2>2
<1> HIDE DEF keys, A, U, L
<1>3. ASSUME FitsIn(op, t, U) PROVE FitsIn(op, t, K)
  <2> SUFFICES ASSUME op.func = "sum", NEW q \in L
               PROVE  Fits(SumOf(t, Has(op, t, K, keys[q])))
    BY <1>1 DEF FitsIn
  <2>1. CASE q \in A
    <3>1. keys[q] \in LeftKeys(op, t, U)  BY <1>1, <2>1
    <3>2. Fits(SumOf(t, Has(op, t, U, keys[q])))  BY <1>3, <3>1 DEF FitsIn
    <3>3. Has(op, t, K, keys[q]) = Has(op, t, U, keys[q])  BY <1>1, <2>1
    <3> QED BY <3>2, <3>3
  <2>2. CASE q \notin A
    <3>1. Has(op, t, K, keys[q]) = Members(op, t, keys[q])  BY <1>1, <2>2
    <3> QED BY <1>2, <3>1
  <2> QED BY <2>1, <2>2
<1>4. ASSUME FitsIn(op, t, K) PROVE FitsIn(op, t, U)
  <2> SUFFICES ASSUME op.func = "sum", NEW q \in L \cap A
               PROVE  Fits(SumOf(t, Has(op, t, U, keys[q])))
    BY <1>1 DEF FitsIn
  <2>1. keys[q] \in LeftKeys(op, t, K)  BY <1>1
  <2>2. Fits(SumOf(t, Has(op, t, K, keys[q])))  BY <1>4, <2>1 DEF FitsIn
  <2>3. Has(op, t, K, keys[q]) = Has(op, t, U, keys[q])  BY <1>1
  <2> QED BY <2>2, <2>3
<1> QED BY <1>3, <1>4 DEF U

\* The place of a recomputed group among the recomputed ones.
PlaceIn(S, p) == Cardinality({q \in S : q < p})

LEMMA PlacesLeft ==
    ASSUME NEW op, IsStep(op), op.op = "aggregate", NEW t, IsTable(t),
           NEW K \in SUBSET DOMAIN t, K # DOMAIN t
    PROVE  LET keys == BaseKeys(op, t)
               kept == Ascending(Left(op, t, K))
               left == Ascending(LeftKeys(op, t, K))
               again == Ascending(LeftKeys(op, t, Hits(op, t, K)))
               S == Left(op, t, K) \cap Hit(op, t, K)
           IN  /\ DOMAIN kept = DOMAIN left
               /\ \A i \in DOMAIN kept : kept[i] \in Left(op, t, K) /\ left[i] = keys[kept[i]]
               /\ \A p \in S : /\ PlaceIn(S, p) \in DOMAIN again
                               /\ again[PlaceIn(S, p)] = keys[p]
<1> DEFINE G == GroupKeys(op, t)
           keys == BaseKeys(op, t)
           L == Left(op, t, K)
           S == L \cap Hit(op, t, K)
           kept == Ascending(L)
           m == Cardinality(L)
           f == Ascending(S)
           n == Cardinality(S)
<1>1. /\ {keys[q] : q \in L} = LeftKeys(op, t, K)
      /\ {keys[q] : q \in S} = LeftKeys(op, t, Hits(op, t, K))
  BY KeysLeft
<1>2. /\ keys \in [0 .. Cardinality(G) - 1 -> Int] /\ Cardinality(G) \in Nat
      /\ \A i, j \in 0 .. Cardinality(G) - 1 : i < j => keys[i] < keys[j]
  <2>1. G \in SUBSET Int /\ IsFiniteSet(G)  BY GroupKeysInOrder
  <2>2. /\ keys \in [0 .. Cardinality(G) - 1 -> G] /\ Cardinality(G) \in Nat
        /\ \A i, j \in 0 .. Cardinality(G) - 1 : i < j <=> keys[i] < keys[j]
    <3> HIDE DEF G
    <3> QED BY <2>1, AscendingGrows DEF BaseKeys, G
  <2> HIDE DEF G, keys
  <2> QED BY <2>1, <2>2
<1>3. /\ L \in SUBSET Int /\ IsFiniteSet(L) /\ S \in SUBSET Int /\ IsFiniteSet(S)
      /\ L \subseteq 0 .. Cardinality(G) - 1 /\ S \subseteq L
  <2>1. L \subseteq DOMAIN keys /\ S \subseteq L  BY DEF Left
  <2> HIDE DEF L, S, keys, G
  <2>2. L \subseteq 0 .. Cardinality(G) - 1  BY <1>2, <2>1
  <2>3. IsFiniteSet(0 .. Cardinality(G) - 1)
    BY <1>2, 0 \in Int, Cardinality(G) - 1 \in Int, FS_Interval
  <2>4. 0 .. Cardinality(G) - 1 \subseteq Int  BY <1>2
  <2>5. IsFiniteSet(L) /\ IsFiniteSet(S)  BY <2>1, <2>2, <2>3, FS_Subset
  <2> QED BY <2>1, <2>2, <2>4, <2>5
<1> HIDE DEF L, S, keys, G
<1>4. \A x \in L : keys[x] \in Int  BY <1>2, <1>3
<1>5. \A x, y \in L : x < y => keys[x] < keys[y]  BY <1>2, <1>3
<1>6. Ascending({keys[q] : q \in L}) = [i \in 0 .. m - 1 |-> keys[kept[i]]]
  BY <1>3, <1>4, <1>5, AscendingImage
<1>7. Ascending({keys[q] : q \in S}) = [i \in 0 .. n - 1 |-> keys[f[i]]]
  <2>1. \A x \in S : keys[x] \in Int  BY <1>3, <1>4
  <2>2. \A x, y \in S : x < y => keys[x] < keys[y]  BY <1>3, <1>5
  <2> QED BY <1>3, <2>1, <2>2, AscendingImage
<1>8. kept \in [0 .. m - 1 -> L]  BY <1>3, AscendingGrows
<1>9. Lists(f, n, S, Less) /\ f \in [0 .. n - 1 -> S] /\ \A p \in S : \E i \in 0 .. n - 1 : f[i] = p
  BY <1>3, AscendingGrows
<1> HIDE DEF kept, f, m, n
<1>10. ASSUME NEW p \in S PROVE PlaceIn(S, p) \in 0 .. n - 1 /\ f[PlaceIn(S, p)] = p
  <2>1. PICK i \in 0 .. n - 1 : f[i] = p  BY <1>9
  <2>2. Asymmetric(Less, S)  BY <1>3, LessOrders DEF Orders
  <2> HIDE DEF S
  <2>3. \A j \in 0 .. n - 1 : Cardinality(Earlier(f[j], S, Less)) = j
    <3> TAKE j \in 0 .. n - 1
    <3>1. Lists(f, n, S, Less)  BY <1>9
    <3> QED BY <2>2, <3>1, ListsRank
  <2>4. Earlier(p, S, Less) = {q \in S : q < p}  BY <1>3 DEF Earlier, Less
  <2> QED BY <2>1, <2>3, <2>4 DEF PlaceIn
<1> DEFINE left == Ascending(LeftKeys(op, t, K))
           again == Ascending(LeftKeys(op, t, Hits(op, t, K)))
<1>11. left = [i \in 0 .. m - 1 |-> keys[kept[i]]] /\ again = [i \in 0 .. n - 1 |-> keys[f[i]]]
  BY <1>1, <1>6, <1>7
<1> HIDE DEF left, again
<1>12. /\ DOMAIN kept = DOMAIN left
       /\ \A i \in DOMAIN kept : kept[i] \in L /\ left[i] = keys[kept[i]]
  BY <1>8, <1>11
<1>13. \A p \in S : PlaceIn(S, p) \in DOMAIN again /\ again[PlaceIn(S, p)] = keys[p]
  <2> TAKE p \in S
  <2> DEFINE i == PlaceIn(S, p)
  <2>1. i \in 0 .. n - 1 /\ f[i] = p  BY <1>10
  <2> HIDE DEF i
  <2>2. i \in DOMAIN again /\ again[i] = keys[p]  BY <1>11, <2>1
  <2> QED BY <2>2 DEF i
<1> QED BY <1>12, <1>13 DEF left, again, kept, keys, L, S

\* r is the aggregate of the rows X of t, its groups' members named by their
\* rows in t.
IsAggregateIn(r, op, t, X) ==
    LET keys == Ascending(LeftKeys(op, t, X))
    IN  /\ r.table = [i \in DOMAIN keys |-> RowOf(op, t, keys[i], Has(op, t, X, keys[i]))]
        /\ r.lineage.kind = "Group" /\ r.lineage.len = Height(keys)
        /\ DOMAIN r.lineage.members = DOMAIN keys
        /\ \A i \in DOMAIN keys : r.lineage.members[i] = Has(op, t, X, keys[i])

LEMMA SubsetAggregate ==
    ASSUME NEW plan, NEW a, IsStep(plan[a]), plan[a].op = "aggregate",
           NEW t, IsTable(t), NEW X \in SUBSET DOMAIN t
    PROVE  LET r == AggregateSubset(plan, a, t, Ascending(X))
           IN  /\ r.ok <=> FitsIn(plan[a], t, X)
               /\ r.ok => IsAggregateIn(r, plan[a], t, X)
<1> DEFINE op == plan[a]
           rows == Ascending(X)
           mini == Aggregate(op, Gather(t, rows))
           r == AggregateSubset(plan, a, t, rows)
           keys == Ascending(LeftKeys(op, t, X))
           moved == [g \in DOMAIN mini.lineage.members |->
                        {rows[m] : m \in mini.lineage.members[g]}]
<1>1. RunStep(op, Gather(t, rows)) = mini  BY DEF RunStep
<1>2. mini.ok <=> FitsIn(op, t, X)  BY LeftAggregate
<1>3. mini.ok => IsAggregateOf(mini, op, t, X)  BY LeftAggregate
<1>4. r = IF ~ mini.ok THEN Failed ELSE [mini EXCEPT !.lineage.members = moved]
  <2> HIDE DEF mini, rows
  <2> QED BY <1>1 DEF AggregateSubset
<1>5. mini.ok => \E table, lineage : mini = Done(table, lineage) /\ \E k, l, s :
                      lineage = [kind |-> k, len |-> l, members |-> s]
  <2>1. Aggregate(op, Gather(t, rows)).ok => Aggregate(op, Gather(t, rows)) # Failed
    BY DEF Failed
  <2> QED BY <2>1 DEF Aggregate
<1> HIDE DEF mini, rows, keys
<1>6. CASE mini.ok
  <2>1. PICK table, lineage : mini = Done(table, lineage) /\ \E k, l, s :
                      lineage = [kind |-> k, len |-> l, members |-> s]
    BY <1>5, <1>6
  <2>2. PICK k, l, s : lineage = [kind |-> k, len |-> l, members |-> s]  BY <2>1
  <2>3. mini.table = table /\ mini.lineage = lineage /\ mini.ok = TRUE  BY <2>1 DEF Done
  <2>4. mini = [ok |-> TRUE, table |-> table, lineage |-> lineage]  BY <2>1 DEF Done
  <2> HIDE DEF moved
  <2>5. r = [ok |-> TRUE, table |-> table,
             lineage |-> [kind |-> k, len |-> l, members |-> moved]]
    <3>1. r = [mini EXCEPT !.lineage.members = moved]  BY <1>4, <1>6
    <3> QED BY <2>2, <2>4, <3>1
  <2> HIDE DEF r
  <2>6. /\ r.ok /\ r.table = mini.table /\ r.lineage.kind = mini.lineage.kind
        /\ r.lineage.len = mini.lineage.len /\ r.lineage.members = moved
    BY <2>2, <2>3, <2>5
  <2>7. /\ mini.table = [i \in DOMAIN keys |-> RowOf(op, t, keys[i], Has(op, t, X, keys[i]))]
        /\ mini.lineage.kind = "Group" /\ mini.lineage.len = Height(keys)
        /\ DOMAIN mini.lineage.members = DOMAIN keys
        /\ \A i \in DOMAIN keys : Were(X, mini.lineage.members[i]) = Has(op, t, X, keys[i])
    BY <1>3, <1>6 DEF IsAggregateOf, keys
  <2>8. DOMAIN moved = DOMAIN keys /\ \A i \in DOMAIN keys : moved[i] = Has(op, t, X, keys[i])
    <3>1. DOMAIN moved = DOMAIN keys  BY <2>7 DEF moved
    <3>2. \A i \in DOMAIN keys : moved[i] = Were(X, mini.lineage.members[i])
      BY <2>7 DEF moved, Were, rows
    <3> QED BY <2>7, <3>1, <3>2
  <2>9. IsAggregateIn(r, op, t, X)  BY <2>6, <2>7, <2>8 DEF IsAggregateIn, keys
  <2> QED BY <1>2, <1>6, <2>6, <2>9 DEF r, rows
<1>7. CASE ~ mini.ok
  <2>1. r = Failed  BY <1>4, <1>7
  <2> HIDE DEF r
  <2>2. ~ r.ok  BY <2>1 DEF Failed
  <2> QED BY <1>2, <1>7, <2>2 DEF r, rows
<1> QED BY <1>6, <1>7

LEMMA InterleavedAggregate ==
    ASSUME NEW plan, NEW a, IsStep(plan[a]), plan[a].op = "aggregate",
           NEW b, IsTable(b.tables[a - 1]), Follows(plan, b, a),
           NEW K \in SUBSET DOMAIN b.tables[a - 1], K # DOMAIN b.tables[a - 1]
    PROVE  LET t == b.tables[a - 1]
               removed == DOMAIN t \ K
               affected == Hit(plan[a], t, K)
               mini == AggregateSubset(plan, a, t,
                                       Survivors(b.steps[a].members, affected, removed))
               new == Interleaved(plan[a], Done(b.tables[a], b.steps[a]), mini,
                                  affected, removed)
           IN  /\ mini.ok <=> FitsIn(plan[a], t, K)
               /\ mini.ok => IsAggregateIn(new, plan[a], t, K)
<1> DEFINE op == plan[a]
           t == b.tables[a - 1]
           removed == DOMAIN t \ K
           A == Hit(op, t, K)
           U == Hits(op, t, K)
           L == Left(op, t, K)
           keys == BaseKeys(op, t)
           base == Done(b.tables[a], b.steps[a])
           members == b.steps[a].members
           mini == AggregateSubset(plan, a, t, Survivors(members, A, removed))
           new == Interleaved(op, base, mini, A, removed)
<1>1. /\ Aggregate(op, t).ok /\ b.tables[a] = Aggregate(op, t).table
      /\ b.steps[a] = Aggregate(op, t).lineage
  <2>1. RunStep(op, t) = Aggregate(op, t)  BY DEF RunStep
  <2> HIDE DEF op, t
  <2> QED BY <2>1 DEF Follows, op, t
<1>2. /\ b.tables[a] = [q \in DOMAIN keys |-> RowOf(op, t, keys[q], Members(op, t, keys[q]))]
      /\ members = [q \in DOMAIN keys |-> Members(op, t, keys[q])]
  <2>1. \A g : GroupRow(op, t, g) = RowOf(op, t, g, Members(op, t, g))
    BY DEF GroupRow, RowOf
  <2> HIDE DEF op, t, keys
  <2>2. /\ Aggregate(op, t).table = [q \in DOMAIN keys |-> GroupRow(op, t, keys[q])]
        /\ Aggregate(op, t).lineage.members = [q \in DOMAIN keys |-> Members(op, t, keys[q])]
    BY <1>1, Aggregated DEF keys, BaseKeys
  <2> QED BY <1>1, <2>1, <2>2
<1>3. \A g : Members(op, t, g) \in SUBSET DOMAIN t  BY GroupKeysInOrder
<1>4. Survivors(members, A, removed) = Ascending(U)
  <2>1. A \subseteq DOMAIN keys  BY DEF Hit
  <2>2. (UNION {members[q] : q \in A}) \ removed = U
    <3>1. \A q \in A : members[q] = Members(op, t, keys[q])  BY <1>2, <2>1
    <3>2. \A r : r \in U <=> r \in K /\ \E q \in A : r \in Members(op, t, keys[q])
      BY DEF Hits
    <3>3. \A r : r \in UNION {members[q] : q \in A} <=> \E q \in A : r \in members[q]
      OBVIOUS
    <3> HIDE DEF A, U, keys, members, op, t
    <3>4. \A r : r \in (UNION {members[q] : q \in A}) \ removed
                   <=> r \notin removed /\ \E q \in A : r \in Members(op, t, keys[q])
      BY <3>1, <3>3
    <3>5. \A r, q : r \in Members(op, t, keys[q]) => (r \notin removed <=> r \in K)
      BY <1>3
    <3> HIDE DEF removed
    <3> QED BY <3>2, <3>4, <3>5
  <2> HIDE DEF A, U, removed, members
  <2> QED BY <2>2 DEF Survivors
<1>5. U \in SUBSET DOMAIN t  BY DEF Hits
<1>6. mini.ok <=> FitsIn(op, t, U)
  <2> HIDE DEF A, U, removed, members
  <2> QED BY <1>4, <1>5, SubsetAggregate
<1>7. mini.ok => IsAggregateIn(mini, op, t, U)
  <2> HIDE DEF A, U, removed, members
  <2> QED BY <1>4, <1>5, SubsetAggregate
<1>8. mini.ok <=> FitsIn(op, t, K)
  <2>1. FitsIn(op, t, U) <=> FitsIn(op, t, K)  BY <1>1, FitsLeft
  <2> HIDE DEF mini, U
  <2> QED BY <1>6, <2>1
<1> DEFINE S == L \cap A
           kept == Ascending(L)
           left == Ascending(LeftKeys(op, t, K))
           again == Ascending(LeftKeys(op, t, U))
<1>9. /\ DOMAIN kept = DOMAIN left
      /\ \A i \in DOMAIN kept : kept[i] \in L /\ left[i] = keys[kept[i]]
      /\ \A p \in S : PlaceIn(S, p) \in DOMAIN again /\ again[PlaceIn(S, p)] = keys[p]
  <2>1. /\ IsStep(op) /\ op.op = "aggregate" /\ IsTable(t)
        /\ K \in SUBSET DOMAIN t /\ K # DOMAIN t
    OBVIOUS
  <2> HIDE DEF op, t
  <2> QED BY <2>1, PlacesLeft
<1>10. \A q \in L : /\ q \in DOMAIN keys
                    /\ IF q \in A THEN Has(op, t, K, keys[q]) = Has(op, t, U, keys[q])
                       ELSE Has(op, t, K, keys[q]) = Members(op, t, keys[q])
  <2>1. \A q \in L : IF q \in A THEN Has(op, t, K, keys[q]) = Has(op, t, U, keys[q])
                     ELSE Has(op, t, K, keys[q]) = Members(op, t, keys[q])
    BY KeysLeft
  <2>2. L \subseteq DOMAIN keys  BY DEF Left
  <2> HIDE DEF L, A, U, keys
  <2> QED BY <2>1, <2>2
<1> DEFINE Keeps(q) == KeepsRow(op, members, A, removed, q)
<1>11. \A q \in DOMAIN keys : Keeps(q) <=> q \in L
  <2> TAKE q \in DOMAIN keys
  <2>1. members[q] = Members(op, t, keys[q]) /\ Members(op, t, keys[q]) \subseteq DOMAIN t
    BY <1>2, <1>3
  <2>2. q \in L <=> \/ q \notin A \/ Members(op, t, keys[q]) \cap K # {} \/ ~ op.grouped
    BY DEF Left
  <2> HIDE DEF L, A, keys, t
  <2>3. Members(op, t, keys[q]) \cap K = members[q] \ removed  BY <2>1
  <2> QED BY <2>2, <2>3 DEF KeepsRow
<1>12. base.table = b.tables[a] /\ base.lineage = b.steps[a]  BY DEF Done
<1>13. {p \in DOMAIN base.table : Keeps(p)} = L
  <2>1. L \subseteq DOMAIN keys  BY DEF Left
  <2>2. DOMAIN base.table = DOMAIN keys  BY <1>2, <1>12
  <2> HIDE DEF L, Keeps, keys, base
  <2> QED BY <1>11, <2>1, <2>2
<1>14. \A p : {q \in A : q < p /\ Keeps(q)} = {q \in S : q < p}
  <2>1. A \subseteq DOMAIN keys  BY DEF Hit
  <2> HIDE DEF L, Keeps, keys, A
  <2> QED BY <1>11, <2>1
<1>15. new = Done([i \in DOMAIN kept |->
                      IF kept[i] \in A
                      THEN mini.table[Cardinality({q \in A : q < kept[i] /\ Keeps(q)})]
                      ELSE b.tables[a][kept[i]]],
                  [kind |-> "Group", len |-> Height(kept),
                   members |-> [i \in DOMAIN kept |->
                      IF kept[i] \in A
                      THEN mini.lineage.members[Cardinality({q \in A : q < kept[i] /\ Keeps(q)})]
                      ELSE members[kept[i]]]])
  <2> HIDE DEF A, L, members, removed, mini, base, t
  <2>1. base.lineage.members = members  BY <1>12 DEF members
  <2> HIDE DEF Keeps
  <2>2. {p \in DOMAIN base.table : KeepsRow(op, members, A, removed, p)} = L
    BY <1>13 DEF Keeps
  <2>3. \A q : KeepsRow(op, members, A, removed, q) = Keeps(q)  BY DEF Keeps
  <2> QED BY <1>12, <2>1, <2>2 DEF Interleaved, Keeps
<1> HIDE DEF new, Keeps, mini, A, L, S, U, kept, left, again, keys, members, removed, t, base
<1>16. /\ new.lineage.kind = "Group" /\ new.lineage.len = Height(kept)
       /\ DOMAIN new.table = DOMAIN kept /\ DOMAIN new.lineage.members = DOMAIN kept
       /\ new.table = [i \in DOMAIN new.table |-> new.table[i]]
  BY <1>15 DEF Done
<1>17. \A i \in DOMAIN kept :
          /\ new.table[i] = IF kept[i] \in A THEN mini.table[PlaceIn(S, kept[i])]
                            ELSE b.tables[a][kept[i]]
          /\ new.lineage.members[i]
               = IF kept[i] \in A THEN mini.lineage.members[PlaceIn(S, kept[i])]
                 ELSE members[kept[i]]
  <2> TAKE i \in DOMAIN kept
  <2>1. Cardinality({q \in A : q < kept[i] /\ Keeps(q)}) = PlaceIn(S, kept[i])
    BY <1>14 DEF PlaceIn
  <2>2. new.table[i] = IF kept[i] \in A
                       THEN mini.table[Cardinality({q \in A : q < kept[i] /\ Keeps(q)})]
                       ELSE b.tables[a][kept[i]]
    BY <1>15 DEF Done
  <2>3. new.lineage.members[i]
          = IF kept[i] \in A
            THEN mini.lineage.members[Cardinality({q \in A : q < kept[i] /\ Keeps(q)})]
            ELSE members[kept[i]]
    BY <1>15 DEF Done
  <2> QED BY <2>1, <2>2, <2>3
<1>18. ASSUME mini.ok, NEW i \in DOMAIN kept
       PROVE  /\ new.table[i] = RowOf(op, t, left[i], Has(op, t, K, left[i]))
              /\ new.lineage.members[i] = Has(op, t, K, left[i])
  <2>1. kept[i] \in L /\ left[i] = keys[kept[i]]  BY <1>9
  <2>2. CASE kept[i] \in A
    <3> DEFINE p == PlaceIn(S, kept[i])
    <3>1. p \in DOMAIN again /\ again[p] = left[i]  BY <1>9, <2>1, <2>2 DEF S
    <3>2. Has(op, t, K, left[i]) = Has(op, t, U, left[i])  BY <1>10, <2>1, <2>2
    <3>3. /\ mini.table = [j \in DOMAIN again |-> RowOf(op, t, again[j], Has(op, t, U, again[j]))]
          /\ \A j \in DOMAIN again : mini.lineage.members[j] = Has(op, t, U, again[j])
      BY <1>7, <1>18 DEF IsAggregateIn, again
    <3>4. new.table[i] = mini.table[p] /\ new.lineage.members[i] = mini.lineage.members[p]
      BY <1>17, <2>2
    <3> HIDE DEF p
    <3> QED BY <3>1, <3>2, <3>3, <3>4
  <2>3. CASE kept[i] \notin A
    <3>1. Has(op, t, K, left[i]) = Members(op, t, left[i])  BY <1>10, <2>1, <2>3
    <3>2. kept[i] \in DOMAIN keys  BY <1>10, <2>1
    <3>3. new.table[i] = b.tables[a][kept[i]] /\ new.lineage.members[i] = members[kept[i]]
      BY <1>17, <2>3
    <3> QED BY <1>2, <2>1, <3>1, <3>2, <3>3
  <2> QED BY <2>2, <2>3
<1>19. Height(kept) = Height(left)  BY <1>9 DEF Height
<1>20. ASSUME mini.ok PROVE IsAggregateIn(new, op, t, K)
  <2>1. new.table = [i \in DOMAIN left |-> RowOf(op, t, left[i], Has(op, t, K, left[i]))]
    BY <1>9, <1>16, <1>18, <1>20
  <2> QED BY <1>9, <1>16, <1>18, <1>19, <1>20, <2>1 DEF IsAggregateIn, left
<1> QED BY <1>8, <1>20 DEF new, mini, A, removed, t, base, members

(***************************************************************************)
(* What exclude derives is a run without the rows.                         *)
(***************************************************************************)

LEMMA CollectedOk ==
    ASSUME NEW done
    PROVE  Collected(done).ok <=> \A i \in DOMAIN done : done[i].ok
<1>1. CASE \A i \in DOMAIN done : done[i].ok
  BY <1>1 DEF Collected
<1>2. CASE ~ \A i \in DOMAIN done : done[i].ok
  <2>1. Collected(done) = [ok |-> FALSE]  BY <1>2 DEF Collected, Failed
  <2> QED BY <1>2, <2>1
<1> QED BY <1>1, <1>2

LEMMA DerivedOk ==
    ASSUME NEW method, NEW e
    PROVE  /\ Derived(method, e).ok <=> e.ok
           /\ e.ok => Derived(method, e).execution = e
<1>1. CASE e.ok  BY <1>1 DEF Derived
<1>2. CASE ~ e.ok
  <2>1. Derived(method, e) = [ok |-> FALSE]  BY <1>2 DEF Derived, Failed
  <2> QED BY <1>2, <2>1
<1> QED BY <1>1, <1>2

LEMMA AggregateStep ==
    ASSUME NEW plan, IsPlan(plan), IncrementalShape(plan)
    PROVE  LET a == TheAggregate(plan)
           IN  /\ a \in DOMAIN plan \ {0} /\ a \in Nat \ {0} /\ a - 1 \in DOMAIN plan
               /\ IsStep(plan[a]) /\ plan[a].op = "aggregate"
               /\ \A i \in 1 .. a - 1 : KeepsRows(plan[i])
<1> DEFINE a == TheAggregate(plan)
<1>1. Aggregates(plan) # {}
  <2>1. Cardinality({}) = 0  BY FS_EmptySet
  <2> QED BY <2>1 DEF IncrementalShape
<1>2. a \in Aggregates(plan)  BY <1>1 DEF TheAggregate
<1>3. a \in DOMAIN plan /\ plan[a].op = "aggregate"  BY <1>2 DEF Aggregates
<1>4. \A i \in 1 .. a - 1 : KeepsRows(plan[i])  BY <1>2 DEF IncrementalShape, KeepsRows
<1>5. plan[0].op = "scan"  BY DEF IsPlan
<1> HIDE DEF a
<1>6. a # 0  BY <1>3, <1>5
<1>7. IsStep(plan[a])  BY <1>3, <1>6 DEF IsPlan
<1> QED BY <1>3, <1>4, <1>6, <1>7, PlanNodes DEF a

\* Two executions with the same steps from m + 1 to n, whose rows are made
\* of the same at m.
LEMMA LaterRows ==
    ASSUME NEW s1, NEW s2, NEW m \in Nat, NEW n \in Nat, NEW heights,
           SameBehind(s1, s2, m, 0 .. heights[m] - 1),
           \A i \in m + 1 .. n : /\ s1[i] = s2[i] /\ s1[i].len = heights[i]
                                 /\ MapsBelow(s1[i], heights[i - 1])
    PROVE  \A i \in m .. n : SameBehind(s1, s2, i, 0 .. heights[i] - 1)
<1> DEFINE Same(i) == SameBehind(s1, s2, i, 0 .. heights[i] - 1)
           S == {k \in Nat : m + k <= n => Same(m + k)}
<1>1. 0 \in S
  <2>1. m + 0 = m  OBVIOUS
  <2> QED BY <2>1
<1>2. ASSUME NEW k \in Nat, k \in S PROVE k + 1 \in S
  <2> DEFINE i == m + (k + 1)
  <2> SUFFICES ASSUME i <= n PROVE Same(i)
    OBVIOUS
  <2>1. i \in m + 1 .. n /\ i - 1 = m + k /\ m + k <= n /\ i \in Nat \ {0}  OBVIOUS
  <2>2. Same(i - 1)  BY <1>2, <2>1
  <2>3. s1[i] = s2[i] /\ s1[i].len = heights[i] /\ MapsBelow(s1[i], heights[i - 1])
    BY <2>1
  <2> HIDE DEF i
  <2>4. ASSUME NEW x \in 0 .. heights[i] - 1
        PROVE  SourceRows(s1, i, {x}) = SourceRows(s2, i, {x})
    <3> DEFINE R == MadeOf(s1[i], x)
    <3>1. R \subseteq 0 .. heights[i - 1] - 1  BY <2>3 DEF MapsBelow
    <3>2. MadeOf(s2[i], x) = R /\ MadeOf(s1[i], x) = R  BY <2>3
    <3> HIDE DEF R
    <3>3. SameBehind(s1, s2, i - 1, R)  BY <2>2, <3>1 DEF SameBehind
    <3>4. SameBehind(s1, s2, i, {x})
      <4> HIDE DEF S, Same
      <4> QED BY <2>1, <3>2, <3>3, SameStep
    <3> QED BY <3>4 DEF SameBehind
  <2> QED BY <2>4 DEF SameBehind
<1>3. \A k \in Nat : k \in S
  <2> HIDE DEF S
  <2> QED BY <1>1, <1>2, SetInduction
<1>4. ASSUME NEW i \in m .. n PROVE Same(i)
  <2>1. i - m \in Nat /\ m + (i - m) = i /\ i <= n  OBVIOUS
  <2>2. i - m \in S  BY <1>3, <2>1
  <2> QED BY <2>1, <2>2
<1> QED BY <1>4

\* The tables and lineage that a run's steps made.
Made(done, n) == [tables |-> [i \in 0 .. n |-> done[i].table],
                  steps  |-> [i \in 0 .. n |-> done[i].lineage]]

\* Steps that keep rows never fail.
LEMMA RunBefore ==
    ASSUME NEW plan, IsPlan(plan), NEW ex, NEW done,
           IsRun(plan, ex, done, OutputNode(plan)), NEW m \in DOMAIN plan,
           \A i \in 1 .. m : KeepsRows(plan[i])
    PROVE  LET e == Made(done, OutputNode(plan))
           IN  /\ Scans(plan, e, ex)
               /\ \A i \in 0 .. m : done[i].ok /\ IsTable(done[i].table)
               /\ \A i \in 1 .. m : Follows(plan, e, i)
<1> DEFINE n == OutputNode(plan)
           e == Made(done, n)
<1>0. n \in Nat /\ DOMAIN plan = 0 .. n /\ m \in 0 .. n  BY PlanNodes
<1>1. done[0] = Scan(plan[0], ex) /\ \A i \in 1 .. n : done[i] = NextStep(plan, i, done[i - 1])
  <2>1. 0 \in 0 .. n /\ \A i \in 1 .. n : i \in 0 .. n /\ i # 0  BY <1>0
  <2> HIDE DEF n
  <2> QED BY <2>1 DEF IsRun, n
<1>2. \A i \in 0 .. n : e.tables[i] = done[i].table /\ e.steps[i] = done[i].lineage
  BY DEF Made
<1> HIDE DEF e, n
<1>3. Scans(plan, e, ex)
  <2>1. 0 \in 0 .. n  BY <1>0
  <2> QED BY <1>1, <1>2, <2>1 DEF Scans
<1> DEFINE S == {k \in Nat : k <= m => done[k].ok /\ IsTable(done[k].table)}
<1>4. 0 \in S
  <2> DEFINE r == Scan(plan[0], ex)
  <2>1. r.ok /\ IsTable(r.table)  BY ScanTyped
  <2> HIDE DEF r
  <2>2. done[0] = r  BY <1>1 DEF r
  <2> QED BY <2>1, <2>2
<1>5. ASSUME NEW k \in Nat, k + 1 <= m, done[k].ok /\ IsTable(done[k].table)
      PROVE  /\ done[k + 1] = RunStep(plan[k + 1], done[k].table)
             /\ done[k + 1].ok /\ IsTable(done[k + 1].table)
  <2>1. k + 1 \in 1 .. n /\ k + 1 \in 1 .. m /\ (k + 1) - 1 = k /\ k + 1 # 0
    BY <1>0, <1>5
  <2>2. done[k + 1] = RunStep(plan[k + 1], done[k].table)
    <3>1. done[k + 1] = NextStep(plan, k + 1, done[k])  BY <1>1, <2>1
    <3> QED BY <1>5, <3>1 DEF NextStep
  <2>3. IsStep(plan[k + 1]) /\ KeepsRows(plan[k + 1])
    <3>1. k + 1 \in DOMAIN plan \ {0}  BY <1>0, <2>1
    <3> QED BY <2>1, <3>1 DEF IsPlan
  <2>4. done[k + 1].ok  BY <1>5, <2>2, <2>3, KeepsRowsOk
  <2>5. Typed(done[k + 1], done[k].table)  BY <1>5, <2>2, <2>3, <2>4, StepTyped
  <2> QED BY <2>2, <2>4, <2>5 DEF Typed
<1>6. ASSUME NEW k \in Nat, k \in S PROVE k + 1 \in S
  <2> SUFFICES ASSUME k + 1 <= m PROVE done[k + 1].ok /\ IsTable(done[k + 1].table)
    OBVIOUS
  <2>1. k <= m  BY <1>0
  <2>2. done[k].ok /\ IsTable(done[k].table)  BY <1>6, <2>1
  <2> QED BY <1>5, <2>2
<1>7. \A k \in Nat : k \in S
  <2> HIDE DEF S
  <2> QED BY <1>4, <1>6, SetInduction
<1>8. \A i \in 0 .. m : done[i].ok /\ IsTable(done[i].table)
  <2> TAKE i \in 0 .. m
  <2>1. i \in Nat /\ i <= m  BY <1>0
  <2>2. i \in S  BY <1>7, <2>1
  <2> QED BY <2>1, <2>2
<1>9. ASSUME NEW i \in 1 .. m PROVE Follows(plan, e, i)
  <2> DEFINE k == i - 1
  <2>1. k \in Nat /\ k + 1 = i /\ k + 1 <= m /\ k \in 0 .. m /\ k \in 0 .. n /\ i \in 0 .. n
    BY <1>0
  <2> HIDE DEF k
  <2>2. done[i] = RunStep(plan[i], done[k].table) /\ done[i].ok  BY <1>5, <1>8, <2>1
  <2>3. e.tables[k] = done[k].table  BY <1>2, <2>1
  <2>4. e.tables[i] = done[i].table /\ e.steps[i] = done[i].lineage  BY <1>2, <2>1
  <2>5. done[i] = RunStep(plan[i], e.tables[i - 1])  BY <2>2, <2>3 DEF k
  <2> QED BY <2>2, <2>4, <2>5 DEF Follows
<1> QED BY <1>3, <1>8, <1>9 DEF e, n

LEMMA ForwardRows ==
    ASSUME NEW plan, IsPlan(plan), NEW e, IsExecution(plan, e),
           NEW n \in DOMAIN plan, NEW R \in SUBSET Nat, NEW o
    PROVE  o \in Forward(e.steps, R, n)
             <=> o \in DOMAIN e.tables[n] /\ SourceRows(e.steps, n, {o}) \cap R # {}
<1> DEFINE F == {q \in DOMAIN e.tables[n] : SourceRows(e.steps, n, {q}) \cap R # {}}
<1>1. o \in F <=> o \in DOMAIN e.tables[n] /\ SourceRows(e.steps, n, {o}) \cap R # {}
  OBVIOUS
<1>2. Forward(e.steps, R, n) = F  BY ForwardIsSourced
<1> HIDE DEF F
<1> QED BY <1>1, <1>2

\* Which rows of the aggregate's input are left, and which of its groups lose
\* one.
LEMMA AtAggregate ==
    ASSUME NEW plan, IsPlan(plan), IncrementalShape(plan), Execute(plan, NoExclusion).ok,
           NEW rows \in SUBSET Nat
    PROVE  LET a == TheAggregate(plan)
               b == Execute(plan, NoExclusion)
               t == b.tables[a - 1]
               K == Kept(b, rows, a - 1)
           IN  /\ IsTable(t) /\ K \in SUBSET DOMAIN t /\ Follows(plan, b, a)
               /\ Forward(b.steps, rows, a - 1) = DOMAIN t \ K
               /\ Forward(b.steps, rows, a) = Hit(plan[a], t, K)
<1> DEFINE a == TheAggregate(plan)
           op == plan[a]
           b == Execute(plan, NoExclusion)
           t == b.tables[a - 1]
           K == Kept(b, rows, a - 1)
           keys == BaseKeys(op, t)
<1>1. /\ a \in DOMAIN plan \ {0} /\ a \in Nat \ {0} /\ a - 1 \in DOMAIN plan
      /\ IsStep(op) /\ op.op = "aggregate"
  BY AggregateStep
<1>2. IsExecution(plan, b) /\ \A i \in DOMAIN plan \ {0} : Follows(plan, b, i)
  BY ExecutionSteps, ExecutionTyped
<1> HIDE DEF a, b
<1>3. Follows(plan, b, a) /\ IsTable(t)  BY <1>1, <1>2 DEF IsExecution
<1>4. K \in SUBSET DOMAIN t  BY DEF Kept
<1>5. Forward(b.steps, rows, a - 1) = DOMAIN t \ K
  <2>1. \A o : o \in Forward(b.steps, rows, a - 1)
                <=> o \in DOMAIN t /\ SourceRows(b.steps, a - 1, {o}) \cap rows # {}
    BY <1>1, <1>2, ForwardRows
  <2> QED BY <2>1 DEF Kept
<1>6. /\ DOMAIN b.tables[a] = DOMAIN keys
      /\ \A o \in DOMAIN keys : MadeOf(b.steps[a], o) = Members(op, t, keys[o])
  <2> HIDE DEF op, t
  <2>1. RunStep(op, t) = Aggregate(op, t)  BY <1>1 DEF RunStep
  <2>2. /\ Aggregate(op, t).ok /\ b.tables[a] = Aggregate(op, t).table
        /\ b.steps[a] = Aggregate(op, t).lineage
    BY <1>3, <2>1 DEF Follows, op, t
  <2> HIDE DEF keys
  <2>3. /\ b.tables[a] = [i \in DOMAIN keys |-> GroupRow(op, t, keys[i])]
        /\ b.steps[a].kind = "Group"
        /\ b.steps[a].members = [i \in DOMAIN keys |-> Members(op, t, keys[i])]
    BY <2>2, Aggregated DEF keys, BaseKeys
  <2> QED BY <2>3 DEF MadeOf
<1>7. \A g : Members(op, t, g) \in SUBSET DOMAIN t
  <2> HIDE DEF op, t
  <2> QED BY <1>1, <1>3, GroupKeysInOrder
<1> DEFINE From(o) == SourceRows(b.steps, a - 1, {o})
<1>8. ASSUME NEW o \in DOMAIN keys
      PROVE  SourceRows(b.steps, a, {o}) \cap rows # {} <=> Members(op, t, keys[o]) \ K # {}
  <2> DEFINE M == Members(op, t, keys[o])
  <2>1. SourceRows(b.steps, a, {o}) = SourceRows(b.steps, a - 1, M)
    <3>1. MadeOf(b.steps[a], o) = M  BY <1>6
    <3>2. SourceRows(b.steps, a, {o}) = SourceRows(b.steps, a - 1, MadeOf(b.steps[a], o))
      BY <1>1, SourceRowsOf
    <3> QED BY <3>1, <3>2
  <2>2. M \subseteq DOMAIN t  BY <1>7
  <2> HIDE DEF M
  <2>3. \A z : z \in SourceRows(b.steps, a - 1, M) <=> \E m \in M : z \in From(m)
    <3>1. a - 1 \in Nat  BY <1>1
    <3> QED BY <3>1, SourceRowsEach
  <2>4. \A m \in M : m \in K <=> From(m) \cap rows = {}  BY <2>2 DEF Kept
  <2> HIDE DEF From, K
  <2>5. SourceRows(b.steps, a - 1, M) \cap rows # {} <=> \E m \in M : From(m) \cap rows # {}
    BY <2>3
  <2>6. (\E m \in M : From(m) \cap rows # {}) <=> M \ K # {}  BY <2>4
  <2> QED BY <2>1, <2>5, <2>6 DEF M
<1>9. Forward(b.steps, rows, a) = Hit(op, t, K)
  <2>1. \A o : o \in Forward(b.steps, rows, a)
                <=> o \in DOMAIN b.tables[a] /\ SourceRows(b.steps, a, {o}) \cap rows # {}
    BY <1>1, <1>2, ForwardRows
  <2> HIDE DEF K, t, op
  <2>2. Hit(op, t, K) = {q \in DOMAIN keys : Members(op, t, keys[q]) \ K # {}}
    BY DEF Hit
  <2> HIDE DEF keys
  <2> QED BY <1>6, <1>8, <2>1, <2>2
<1> QED BY <1>3, <1>4, <1>5, <1>9 DEF a, b

\* Two runs that agree on step m, on the rows behind its rows and on every
\* operator after it.
LEMMA SameFrom ==
    ASSUME NEW plan, IsPlan(plan), NEW d1, NEW d2, NEW m \in DOMAIN plan,
           DOMAIN d1 = DOMAIN plan, DOMAIN d2 = DOMAIN plan,
           \A i \in 0 .. m - 1 : d1[i].ok /\ d2[i].ok,
           d1[m].ok <=> d2[m].ok,
           d1[m].ok => d1[m].table = d2[m].table /\ IsTable(d1[m].table),
           Continues(plan, d1, m, OutputNode(plan)), Continues(plan, d2, m, OutputNode(plan)),
           Collected(d1).ok /\ Collected(d2).ok =>
              SameBehind(Collected(d1).steps, Collected(d2).steps, m, DOMAIN d1[m].table)
    PROVE  /\ Collected(d1).ok <=> Collected(d2).ok
           /\ Collected(d1).ok => \A i \in m .. OutputNode(plan) :
                                     SameAt(Collected(d1), Collected(d2), i)
<1> DEFINE n == OutputNode(plan)
           e1 == Collected(d1)
           e2 == Collected(d2)
<1>0. n \in Nat /\ DOMAIN plan = 0 .. n /\ m \in 0 .. n /\ m \in Nat  BY PlanNodes
<1>1. \A i \in m .. n : /\ d1[i].ok <=> d2[i].ok
                        /\ d1[i].ok => d1[i].table = d2[i].table
                        /\ d1[i].ok /\ i # m => d1[i].lineage = d2[i].lineage
  <2>1. AgreeAt(d1, d2, m, m)  BY DEF AgreeAt
  <2>2. \A i \in m .. n : AgreeAt(d1, d2, m, i)
    <3> HIDE DEF n
    <3> QED BY <1>0, <2>1, SameOutcomes DEF n
  <2> QED BY <2>2 DEF AgreeAt
<1>2. e1.ok <=> e2.ok
  <2>1. e1.ok <=> \A i \in 0 .. n : d1[i].ok  BY <1>0, CollectedOk
  <2>2. e2.ok <=> \A i \in 0 .. n : d2[i].ok  BY <1>0, CollectedOk
  <2>3. \A i \in 0 .. n : i \in 0 .. m - 1 \/ i \in m .. n  BY <1>0
  <2> HIDE DEF e1, e2, n
  <2>4. \A i \in 0 .. n : d1[i].ok <=> d2[i].ok  BY <1>1, <2>3
  <2> QED BY <2>1, <2>2, <2>4
<1>3. ASSUME e1.ok PROVE \A i \in m .. n : SameAt(e1, e2, i)
  <2>1. \A i \in 0 .. n : /\ d1[i].ok /\ d2[i].ok
                          /\ e1.tables[i] = d1[i].table /\ e1.steps[i] = d1[i].lineage
                          /\ e2.tables[i] = d2[i].table /\ e2.steps[i] = d2[i].lineage
    <3>1. \A i \in 0 .. n : /\ d1[i].ok
                            /\ e1.tables[i] = d1[i].table /\ e1.steps[i] = d1[i].lineage
      <4> HIDE DEF n
      <4> QED BY <1>0, <1>3, CollectedParts
    <3>2. \A i \in 0 .. n : /\ d2[i].ok
                            /\ e2.tables[i] = d2[i].table /\ e2.steps[i] = d2[i].lineage
      <4> HIDE DEF n
      <4> QED BY <1>0, <1>2, <1>3, CollectedParts
    <3> QED BY <3>1, <3>2
  <2>2. SameBehind(e1.steps, e2.steps, m, DOMAIN d1[m].table)  BY <1>2, <1>3
  <2> HIDE DEF e1, e2, n
  <2>3. ASSUME NEW i \in m + 1 .. n PROVE Follows(plan, e1, i)
    <3> DEFINE k == i - 1
    <3>1. i \in 0 .. n /\ k \in 0 .. n  BY <1>0
    <3>2. d1[i] = NextStep(plan, i, d1[k])  BY DEF n, Continues
    <3> HIDE DEF k
    <3>3. d1[k].ok /\ d1[i].ok /\ e1.tables[k] = d1[k].table  BY <2>1, <3>1
    <3>4. d1[i] = RunStep(plan[i], e1.tables[k])  BY <3>2, <3>3 DEF NextStep
    <3>5. e1.tables[i] = d1[i].table /\ e1.steps[i] = d1[i].lineage  BY <2>1, <3>1
    <3> QED BY <3>3, <3>4, <3>5 DEF Follows, k
  <2>4. IsTable(e1.tables[m])  BY <1>0, <2>1
  <2>5. /\ \A i \in m .. n : IsTable(e1.tables[i])
        /\ \A i \in m + 1 .. n : /\ e1.steps[i].len = Height(e1.tables[i])
                                 /\ IsStepOn(e1.steps[i], Height(e1.tables[i - 1]))
    BY <2>3, <2>4, TypedFrom DEF n
  <2> DEFINE heights == [i \in 0 .. n |-> Height(e1.tables[i])]
  <2>6. \A i \in m .. n : 0 .. heights[i] - 1 = DOMAIN e1.tables[i] /\ i \in 0 .. n
    <3>1. \A i \in m .. n : i \in 0 .. n  BY <1>0
    <3> QED BY <2>5, <3>1, TableRows
  <2>7. SameBehind(e1.steps, e2.steps, m, 0 .. heights[m] - 1)
    <3>1. m \in m .. n /\ e1.tables[m] = d1[m].table  BY <1>0, <2>1
    <3> HIDE DEF heights
    <3> QED BY <2>2, <2>6, <3>1
  <2>8. ASSUME NEW i \in m + 1 .. n
        PROVE  /\ e1.steps[i] = e2.steps[i] /\ e1.steps[i].len = heights[i]
               /\ MapsBelow(e1.steps[i], heights[i - 1])
    <3>1. i \in m .. n /\ i # m /\ i \in 0 .. n /\ i - 1 \in 0 .. n  BY <1>0
    <3>2. e1.steps[i] = e2.steps[i]  BY <1>1, <2>1, <3>1
    <3>3. heights[i] = Height(e1.tables[i]) /\ heights[i - 1] = Height(e1.tables[i - 1])
      BY <3>1
    <3> HIDE DEF heights
    <3> QED BY <2>5, <3>2, <3>3 DEF IsStepOn
  <2> HIDE DEF heights
  <2>9. \A i \in m .. n : SameBehind(e1.steps, e2.steps, i, 0 .. heights[i] - 1)
    BY <1>0, <2>7, <2>8, LaterRows
  <2>10. \A i \in m .. n : e1.tables[i] = e2.tables[i]  BY <1>1, <2>1, <2>6
  <2> QED BY <2>6, <2>9, <2>10 DEF SameAt, SameBehind
<1> QED BY <1>2, <1>3

\* Nothing was left out: what is shown is the base itself.
LEMMA ShowsAll ==
    ASSUME NEW b, NEW e, NEW rows, NEW i, IsTable(b.tables[i]), Shows(b, e, rows, i),
           Kept(b, rows, i) = DOMAIN b.tables[i]
    PROVE  /\ e.tables[i] = b.tables[i]
           /\ SameBehind(b.steps, e.steps, i, DOMAIN b.tables[i])
<1> DEFINE t == b.tables[i]
<1>1. Ascending(DOMAIN t) = [x \in DOMAIN t |-> x] /\ Gather(t, [x \in DOMAIN t |-> x]) = t
  BY GatherAll
<1>2. DOMAIN t = 0 .. Cardinality(DOMAIN t) - 1  BY TableRows
<1> HIDE DEF t
<1>3. e.tables[i] = t  BY <1>1 DEF Shows, t
<1>4. \A x \in DOMAIN t : SourceRows(e.steps, i, {x}) = SourceRows(b.steps, i, {x})
  <2> TAKE x \in DOMAIN t
  <2>1. Ascending(DOMAIN t)[x] = x  BY <1>1
  <2>2. \A y \in 0 .. Cardinality(DOMAIN t) - 1 :
          SourceRows(e.steps, i, {y}) = SourceRows(b.steps, i, {Ascending(DOMAIN t)[y]})
    BY DEF Shows, t
  <2> QED BY <1>2, <2>1, <2>2
<1> QED BY <1>3, <1>4 DEF SameBehind, t

LEMMA CollectedMade ==
    ASSUME NEW done, NEW n, DOMAIN done = 0 .. n, Collected(done).ok
    PROVE  /\ Collected(done).tables = Made(done, n).tables
           /\ Collected(done).steps = Made(done, n).steps
<1>1. \A i \in DOMAIN done : done[i].ok  BY CollectedParts
<1> QED BY <1>1 DEF Collected, Made

LEMMA RunContinues ==
    ASSUME NEW plan, NEW ex, NEW done, NEW n \in Nat, IsRun(plan, ex, done, n), NEW m \in 0 .. n
    PROVE  Continues(plan, done, m, n)
<1>1. \A i \in m + 1 .. n : i \in 0 .. n /\ i # 0  OBVIOUS
<1> QED BY <1>1 DEF IsRun, Continues

\* Up to step m a run without some rows shows what the base leaves.
LEMMA FullBefore ==
    ASSUME NEW plan, IsPlan(plan), Execute(plan, NoExclusion).ok,
           NEW rows, rows # NoExclusion,
           NEW done, IsRun(plan, rows, done, OutputNode(plan)),
           NEW m \in DOMAIN plan, \A i \in 1 .. m : KeepsRows(plan[i])
    PROVE  /\ \A i \in 0 .. m : done[i].ok /\ IsTable(done[i].table)
           /\ Shows(Execute(plan, NoExclusion), Made(done, OutputNode(plan)), rows, m)
<1> DEFINE b == Execute(plan, NoExclusion)
           e == Made(done, OutputNode(plan))
<1>0. \A i \in 0 .. m : i \in DOMAIN plan /\ (i # 0 => i \in DOMAIN plan \ {0})
  BY PlanNodes
<1>1. Scans(plan, b, NoExclusion) /\ \A i \in DOMAIN plan \ {0} : Follows(plan, b, i)
  <2>1. LET x == b IN /\ x.tables[0] = Scan(plan[0], NoExclusion).table
                      /\ x.steps[0] = Scan(plan[0], NoExclusion).lineage
                      /\ \A i \in DOMAIN plan \ {0} : Follows(plan, x, i)
    BY ExecutionSteps
  <2> QED BY <2>1 DEF Scans
<1>2. \A i \in DOMAIN plan : IsTable(b.tables[i])  BY ExecutionTyped DEF IsExecution
<1>3. /\ Scans(plan, e, rows) /\ \A i \in 1 .. m : Follows(plan, e, i)
      /\ \A i \in 0 .. m : done[i].ok /\ IsTable(done[i].table)
  BY RunBefore
<1> HIDE DEF b, e
<1>4. \A i \in 1 .. m : i \in DOMAIN plan \ {0}  BY PlanNodes
<1>5. Shows(b, e, rows, m)
  <2>1. \A i \in 0 .. m : IsTable(b.tables[i])  BY <1>0, <1>2
  <2>2. \A i \in 1 .. m : KeepsRows(plan[i]) /\ Follows(plan, b, i) /\ Follows(plan, e, i)
    BY <1>1, <1>3, <1>4
  <2> QED BY <1>1, <1>3, <2>1, <2>2, BeforeShows
<1> QED BY <1>3, <1>5 DEF b, e

\* Rows that nothing before step m is made of can be left out.
LEMMA Unchanged ==
    ASSUME NEW plan, IsPlan(plan), Execute(plan, NoExclusion).ok,
           NEW rows, rows # NoExclusion,
           NEW m \in DOMAIN plan, \A i \in 1 .. m : KeepsRows(plan[i]),
           Kept(Execute(plan, NoExclusion), rows, m)
             = DOMAIN Execute(plan, NoExclusion).tables[m]
    PROVE  /\ Execute(plan, rows).ok
           /\ \A i \in m .. OutputNode(plan) :
                 SameAt(Execute(plan, NoExclusion), Execute(plan, rows), i)
<1> DEFINE n == OutputNode(plan)
           b == Execute(plan, NoExclusion)
           e == Execute(plan, rows)
<1>0. n \in Nat /\ DOMAIN plan = 0 .. n /\ m \in 0 .. n  BY PlanNodes
<1>1. PICK d1 : IsRun(plan, NoExclusion, d1, n) /\ b = Collected(d1)  BY ExecuteRuns
<1>2. PICK d2 : IsRun(plan, rows, d2, n) /\ e = Collected(d2)  BY ExecuteRuns
<1>3. DOMAIN d1 = 0 .. n /\ DOMAIN d2 = 0 .. n  BY <1>1, <1>2 DEF IsRun
<1>4. /\ \A i \in 0 .. m : d2[i].ok /\ IsTable(d2[i].table)
      /\ Shows(b, Made(d2, n), rows, m)
  BY <1>2, FullBefore
<1>5. /\ \A i \in 0 .. n : d1[i].ok
      /\ \A i \in 0 .. n : b.tables[i] = d1[i].table
  <2>1. Collected(d1).ok  BY <1>1
  <2>2. /\ \A i \in DOMAIN d1 : d1[i].ok
        /\ \A i \in DOMAIN d1 : Collected(d1).tables[i] = d1[i].table
    BY <2>1, CollectedParts
  <2> HIDE DEF b, n
  <2> QED BY <1>1, <1>3, <2>2
<1>6. IsTable(b.tables[m])  BY ExecutionTyped DEF IsExecution
<1>7. Made(d2, n).tables[m] = b.tables[m] /\ SameBehind(b.steps, Made(d2, n).steps, m, DOMAIN b.tables[m])
  <2> HIDE DEF b, n
  <2>1. Kept(b, rows, m) = DOMAIN b.tables[m]  BY DEF b
  <2> QED BY <1>4, <1>6, <2>1, ShowsAll
<1>8. d1[m].table = d2[m].table /\ IsTable(d1[m].table) /\ d1[m].ok /\ d2[m].ok
  <2> HIDE DEF b, n
  <2>1. Made(d2, n).tables[m] = d2[m].table  BY <1>0 DEF Made
  <2>2. m \in 0 .. m  BY <1>0
  <2> QED BY <1>0, <1>4, <1>5, <1>6, <1>7, <2>1, <2>2
<1>9. Continues(plan, d1, m, n) /\ Continues(plan, d2, m, n)
  <2> HIDE DEF n
  <2> QED BY <1>0, <1>1, <1>2, RunContinues
<1>10. Collected(d1).ok /\ Collected(d2).ok =>
          SameBehind(Collected(d1).steps, Collected(d2).steps, m, DOMAIN d1[m].table)
  <2> SUFFICES ASSUME Collected(d2).ok
               PROVE  SameBehind(Collected(d1).steps, Collected(d2).steps, m, DOMAIN d1[m].table)
    OBVIOUS
  <2> HIDE DEF b, n
  <2>1. Collected(d2).steps = Made(d2, n).steps  BY <1>3, CollectedMade
  <2>2. b.tables[m] = d1[m].table  BY <1>0, <1>5
  <2> QED BY <1>1, <1>7, <2>1, <2>2
<1>11. \A i \in 0 .. m - 1 : d1[i].ok /\ d2[i].ok
  <2>1. \A i \in 0 .. m - 1 : i \in 0 .. m /\ i \in 0 .. n  BY <1>0
  <2> HIDE DEF n
  <2> QED BY <1>4, <1>5, <2>1
<1>12. /\ Collected(d1).ok <=> Collected(d2).ok
       /\ Collected(d1).ok => \A i \in m .. n : SameAt(Collected(d1), Collected(d2), i)
  BY <1>0, <1>3, <1>8, <1>9, <1>10, <1>11, SameFrom
<1> QED BY <1>1, <1>2, <1>12


\* The interleaved groups and those of the aggregate run without the other
\* rows are made of the same snapshot rows.
LEMMA SameGroups ==
    ASSUME NEW op, NEW t, NEW K, NEW s1, NEW s2, NEW a \in Nat \ {0},
           NEW r1, IsAggregateIn(r1, op, t, K), s1[a] = r1.lineage,
           NEW r2, IsAggregateOf(r2, op, t, K), s2[a] = r2.lineage,
           \A i \in DOMAIN r2.table : r2.lineage.members[i] \subseteq 0 .. Cardinality(K) - 1,
           \A x \in 0 .. Cardinality(K) - 1 :
              SourceRows(s2, a - 1, {x}) = SourceRows(s1, a - 1, {Ascending(K)[x]})
    PROVE  r1.table = r2.table /\ SameBehind(s1, s2, a, DOMAIN r1.table)
<1>1. r1.table = r2.table  BY DEF IsAggregateIn, IsAggregateOf
<1>2. ASSUME NEW i \in DOMAIN r1.table
      PROVE  SourceRows(s1, a, {i}) = SourceRows(s2, a, {i})
  <2> DEFINE H == r1.lineage.members[i]
             N == r2.lineage.members[i]
  <2>1. Were(K, N) = H  BY <1>2 DEF IsAggregateIn, IsAggregateOf
  <2>2. MadeOf(s1[a], i) = H /\ MadeOf(s2[a], i) = N
    BY DEF IsAggregateIn, IsAggregateOf, MadeOf
  <2>3. N \subseteq 0 .. Cardinality(K) - 1  BY <1>1, <1>2
  <2>4. SourceRows(s1, a, {i}) = SourceRows(s1, a - 1, H)  BY <2>2, SourceRowsOf
  <2>5. SourceRows(s2, a, {i}) = SourceRows(s2, a - 1, N)  BY <2>2, SourceRowsOf
  <2> HIDE DEF H, N
  <2> DEFINE j == a - 1
  <2>6. j \in Nat  OBVIOUS
  <2>7. \A x \in 0 .. Cardinality(K) - 1 :
           SourceRows(s2, j, {x}) = SourceRows(s1, j, {Ascending(K)[x]})
    OBVIOUS
  <2>8. SourceRows(s1, a, {i}) = SourceRows(s1, j, H) /\ SourceRows(s2, a, {i}) = SourceRows(s2, j, N)
    BY <2>4, <2>5
  <2> HIDE DEF j
  <2> DEFINE F(X) == SourceRows(s1, j, X)
             G(X) == SourceRows(s2, j, X)
  <2>9. \A z : z \in F(H) <=> \E h \in H : z \in F({h})  BY <2>6, SourceRowsEach
  <2>10. \A z : z \in G(N) <=> \E x \in N : z \in G({x})  BY <2>6, SourceRowsEach
  <2>11. \A h : h \in H <=> \E x \in N : h = Ascending(K)[x]  BY <2>1 DEF Were
  <2>12. \A x \in N : G({x}) = F({Ascending(K)[x]})  BY <2>3, <2>7
  <2>13. SourceRows(s1, a, {i}) = F(H) /\ SourceRows(s2, a, {i}) = G(N)  BY <2>8
  <2> HIDE DEF F, G
  <2>14. \A z : z \in F(H) <=> \E x \in N : z \in F({Ascending(K)[x]})  BY <2>9, <2>11
  <2> DEFINE A == Ascending(K)
  <2>15. \A z : z \in F(H) <=> z \in G(N)
    <3>1. \A x \in N : \A z : z \in G({x}) <=> z \in F({A[x]})  BY <2>12
    <3>2. \A z : z \in F(H) <=> \E x \in N : z \in F({A[x]})  BY <2>14
    <3> HIDE DEF A
    <3>3. \A z : z \in F(H) <=> \E x \in N : z \in G({x})  BY <3>1, <3>2
    <3> QED BY <2>10, <3>3
  <2>16. F(H) = G(N)  BY <2>15
  <2> QED BY <2>13, <2>16
<1> QED BY <1>1, <1>2 DEF SameBehind

\* x is an answer of Exclude: it is there exactly if a full run is, and shows
\* what that shows.
AnswersAs(plan, x, full) ==
    /\ x.ok <=> full.ok
    /\ x.ok => \A i \in Shown(plan) : SameAt(x.execution, full, i)

\* Recomputing the affected groups gives what a full run gives.
LEMMA IncrementalIsFullRun ==
    ASSUME NEW plan, IsPlan(plan), IncrementalShape(plan), Execute(plan, NoExclusion).ok,
           NEW rows \in SUBSET Nat, rows # NoExclusion,
           Forward(Execute(plan, NoExclusion).steps, rows, TheAggregate(plan) - 1) # {}
    PROVE  LET a == TheAggregate(plan)
               b == Execute(plan, NoExclusion)
               e == Incremental(plan, b, a, Forward(b.steps, rows, a - 1),
                                Forward(b.steps, rows, a))
               full == Execute(plan, rows)
           IN  /\ e.ok <=> full.ok
               /\ e.ok => \A i \in a .. OutputNode(plan) : SameAt(e, full, i)
<1> DEFINE n == OutputNode(plan)
           a == TheAggregate(plan)
           b == Execute(plan, NoExclusion)
           t == b.tables[a - 1]
           K == Kept(b, rows, a - 1)
           removed == DOMAIN t \ K
           affected == Hit(plan[a], t, K)
           mini == AggregateSubset(plan, a, t, Survivors(b.steps[a].members, affected, removed))
           new == Interleaved(plan[a], Done(b.tables[a], b.steps[a]), mini, affected, removed)
           e == Incremental(plan, b, a, removed, affected)
           full == Execute(plan, rows)
<1>1. /\ a \in DOMAIN plan \ {0} /\ a \in Nat \ {0} /\ a - 1 \in DOMAIN plan
      /\ IsStep(plan[a]) /\ plan[a].op = "aggregate"
      /\ \A i \in 1 .. a - 1 : KeepsRows(plan[i])
  BY AggregateStep
<1>2. /\ IsTable(t) /\ K \in SUBSET DOMAIN t /\ Follows(plan, b, a)
      /\ Forward(b.steps, rows, a - 1) = removed
      /\ Forward(b.steps, rows, a) = affected
  BY AtAggregate
<1>3. K # DOMAIN t  BY <1>2
<1>4. n \in Nat /\ DOMAIN plan = 0 .. n /\ a \in 0 .. n  BY <1>1, PlanNodes
<1>5. PICK d2 : IsRun(plan, rows, d2, n) /\ full = Collected(d2)  BY ExecuteRuns
<1>6. /\ \A i \in 0 .. a - 1 : d2[i].ok /\ IsTable(d2[i].table)
      /\ Shows(b, Made(d2, n), rows, a - 1)
  <2> DEFINE j == a - 1
  <2>1. j \in DOMAIN plan /\ (\A i \in 1 .. j : KeepsRows(plan[i]))  BY <1>1
  <2> HIDE DEF j
  <2>2. /\ \A i \in 0 .. j : d2[i].ok /\ IsTable(d2[i].table)
        /\ Shows(b, Made(d2, n), rows, j)
    BY <1>5, <2>1, FullBefore
  <2> QED BY <2>2 DEF j
<1> DEFINE left == Gather(t, Ascending(K))
<1>7. d2[a - 1].ok /\ d2[a - 1].table = left /\ IsTable(left)
  <2>1. a - 1 \in 0 .. a - 1 /\ a - 1 \in 0 .. n  BY <1>1, <1>4
  <2>2. Made(d2, n).tables[a - 1] = d2[a - 1].table  BY <2>1 DEF Made
  <2>3. d2[a - 1].ok /\ IsTable(d2[a - 1].table)  BY <1>6, <2>1
  <2>4. Made(d2, n).tables[a - 1] = left  BY <1>6 DEF Shows
  <2> QED BY <2>2, <2>3, <2>4
<1>8. \A x \in 0 .. Cardinality(K) - 1 :
         SourceRows(Made(d2, n).steps, a - 1, {x}) = SourceRows(b.steps, a - 1, {Ascending(K)[x]})
  BY <1>6 DEF Shows
<1>9. d2[a] = Aggregate(plan[a], left) /\ d2[a] = RunStep(plan[a], left)
  <2>1. Continues(plan, d2, 0, n)
    <3> HIDE DEF n
    <3> QED BY <1>4, <1>5, RunContinues
  <2>2. a \in 0 + 1 .. n  BY <1>1, <1>4
  <2>3. d2[a] = NextStep(plan, a, d2[a - 1])  BY <2>1, <2>2 DEF Continues
  <2>4. d2[a] = RunStep(plan[a], d2[a - 1].table)  BY <1>7, <2>3 DEF NextStep
  <2> QED BY <1>1, <1>7, <2>4 DEF RunStep
<1>10. /\ d2[a].ok <=> FitsIn(plan[a], t, K)
       /\ d2[a].ok => IsAggregateOf(d2[a], plan[a], t, K)
  <2> DEFINE op == plan[a]
  <2>1. /\ IsStep(op) /\ op.op = "aggregate" /\ IsTable(t) /\ K \in SUBSET DOMAIN t
        /\ d2[a] = Aggregate(op, Gather(t, Ascending(K)))
    BY <1>1, <1>2, <1>9
  <2> HIDE DEF t, K, op
  <2>2. /\ d2[a].ok <=> FitsIn(op, t, K)
        /\ d2[a].ok => IsAggregateOf(d2[a], op, t, K)
    BY <2>1, LeftAggregate
  <2> QED BY <2>2 DEF op
<1>11. d2[a].ok => /\ IsTable(d2[a].table) /\ d2[a].lineage.len = Height(d2[a].table)
                   /\ MapsBelow(d2[a].lineage, Cardinality(K))
  <2>1. d2[a].ok => Typed(d2[a], left)
    <3> HIDE DEF left
    <3> QED BY <1>1, <1>7, <1>9, StepTyped
  <2>2. Height(left) = Cardinality(K)
    <3> HIDE DEF t, K
    <3> QED BY <1>2, LeftRows
  <2> QED BY <2>1, <2>2 DEF Typed, IsStepOn
<1>12. /\ mini.ok <=> FitsIn(plan[a], t, K)
       /\ mini.ok => IsAggregateIn(new, plan[a], t, K)
  <2> HIDE DEF K, b, a
  <2> QED BY <1>1, <1>2, <1>3, InterleavedAggregate
<1>13. ASSUME ~ mini.ok
       PROVE  ~ e.ok /\ ~ full.ok
  <2>1. e = Failed  BY <1>13 DEF Incremental
  <2>2. ~ d2[a].ok  BY <1>10, <1>12, <1>13
  <2>3. a \in DOMAIN d2  BY <1>4, <1>5 DEF IsRun
  <2> QED BY <1>5, <2>1, <2>2, <2>3, CollectedOk DEF Failed
<1>14. ASSUME mini.ok
       PROVE  (e.ok <=> full.ok) /\ (e.ok => \A i \in a .. n : SameAt(e, full, i))
  <2>1. e = RerunFrom(plan, b, a, new.table, new.lineage)  BY <1>14 DEF Incremental
  <2>2. PICK d1 : /\ IsRerun(plan, b, a, Done(new.table, new.lineage), d1, n)
                  /\ e = Collected(d1)
    <3> HIDE DEF b, new, n, a
    <3>1. \E done : /\ IsRerun(plan, b, a, Done(new.table, new.lineage), done, OutputNode(plan))
                    /\ RerunFrom(plan, b, a, new.table, new.lineage) = Collected(done)
      BY <1>1, RerunRuns
    <3> QED BY <2>1, <3>1 DEF n
  <2>3. DOMAIN d1 = 0 .. n /\ DOMAIN d2 = 0 .. n  BY <1>5, <2>2 DEF IsRun, IsRerun
  <2>4. /\ \A i \in 0 .. a - 1 : d1[i] = Done(b.tables[i], b.steps[i])
        /\ d1[a] = Done(new.table, new.lineage)
        /\ Continues(plan, d1, a, n)
    <3> HIDE DEF b, new, n, a
    <3>1. \A i \in 0 .. a - 1 : i \in 0 .. n /\ i < a  BY <1>1, <1>4
    <3>2. \A i \in a + 1 .. n : i \in 0 .. n /\ ~ i < a /\ i # a  BY <1>1, <1>4
    <3>3. ~ a < a  BY <1>1
    <3> QED BY <1>4, <2>2, <3>1, <3>2, <3>3 DEF IsRerun, Continues
  <2>5. d2[a].ok /\ d1[a].ok /\ IsAggregateIn(new, plan[a], t, K)
    BY <1>10, <1>12, <1>14, <2>4 DEF Done
  <2>6. IsAggregateIn(d1[a], plan[a], t, K) /\ IsAggregateOf(d2[a], plan[a], t, K)
    <3>1. d1[a].table = new.table /\ d1[a].lineage = new.lineage
      <4> HIDE DEF new
      <4> QED BY <2>4 DEF Done
    <3> HIDE DEF new, t, K
    <3> QED BY <1>10, <2>5, <3>1 DEF IsAggregateIn
  <2>7. \A i \in 0 .. a - 1 : d1[i].ok /\ d2[i].ok
    <3>1. \A x, y : Done(x, y).ok  BY DEF Done
    <3> HIDE DEF new, b, a
    <3> QED BY <1>6, <2>4, <3>1
  <2>8. Continues(plan, d2, a, n)
    <3> HIDE DEF n, a
    <3> QED BY <1>4, <1>5, RunContinues
  <2>9. /\ d1[a].table = d2[a].table
        /\ SameBehind(Made(d1, n).steps, Made(d2, n).steps, a, DOMAIN d1[a].table)
    <3>1. Made(d1, n).steps[a] = d1[a].lineage /\ Made(d2, n).steps[a] = d2[a].lineage
      BY <1>4 DEF Made
    <3>2. \A i \in DOMAIN d2[a].table :
             d2[a].lineage.members[i] \subseteq 0 .. Cardinality(K) - 1
      <4>1. DOMAIN d2[a].table = 0 .. d2[a].lineage.len - 1  BY <1>11, <2>5, TableRows
      <4>2. d2[a].lineage.kind = "Group"  BY <2>6 DEF IsAggregateOf
      <4>3. MapsBelow(d2[a].lineage, Cardinality(K))  BY <1>11, <2>5
      <4> QED BY <4>1, <4>2, <4>3 DEF MapsBelow, MadeOf
    <3>3. \A x \in 0 .. Cardinality(K) - 1 :
             SourceRows(Made(d2, n).steps, a - 1, {x})
               = SourceRows(Made(d1, n).steps, a - 1, {Ascending(K)[x]})
      <4> DEFINE j == a - 1
      <4>1. j \in Nat /\ \A i \in 0 .. j : Made(d1, n).steps[i] = b.steps[i]
        <5>1. \A i \in 0 .. a - 1 : i \in 0 .. n  BY <1>1, <1>4
        <5>2. \A i \in 0 .. a - 1 : d1[i].lineage = b.steps[i]
          <6>1. \A x, y : Done(x, y).lineage = y  BY DEF Done
          <6> HIDE DEF new, b, a
          <6> QED BY <2>4, <6>1
        <5> QED BY <1>1, <5>1, <5>2 DEF Made
      <4>2. \A R : SourceRows(Made(d1, n).steps, j, R) = SourceRows(b.steps, j, R)
        <5> HIDE DEF j, b
        <5> QED BY <4>1, SourceRowsSame
      <4> QED BY <1>8, <4>2
    <3> HIDE DEF t, K, a, n
    <3> QED BY <1>1, <2>6, <3>1, <3>2, <3>3, SameGroups
  <2>10. Collected(d1).ok /\ Collected(d2).ok =>
            SameBehind(Collected(d1).steps, Collected(d2).steps, a, DOMAIN d1[a].table)
    <3> SUFFICES ASSUME Collected(d1).ok, Collected(d2).ok
                 PROVE  SameBehind(Collected(d1).steps, Collected(d2).steps, a, DOMAIN d1[a].table)
      OBVIOUS
    <3> HIDE DEF n, a
    <3>1. Collected(d1).steps = Made(d1, n).steps  BY <2>3, CollectedMade
    <3>2. Collected(d2).steps = Made(d2, n).steps  BY <2>3, CollectedMade
    <3> QED BY <2>9, <3>1, <3>2
  <2>11. IsTable(d1[a].table)  BY <1>11, <2>5, <2>9
  <2>12. DOMAIN d1 = DOMAIN plan /\ DOMAIN d2 = DOMAIN plan /\ a \in DOMAIN plan
    BY <1>1, <1>4, <2>3
  <2>13. /\ Collected(d1).ok <=> Collected(d2).ok
         /\ Collected(d1).ok => \A i \in a .. n : SameAt(Collected(d1), Collected(d2), i)
    <3> HIDE DEF a
    <3> QED BY <2>4, <2>5, <2>7, <2>8, <2>9, <2>10, <2>11, <2>12, SameFrom
  <2> QED BY <1>5, <2>2, <2>13
<1> HIDE DEF mini, e, full
<1>15. (e.ok <=> full.ok) /\ (e.ok => \A i \in a .. n : SameAt(e, full, i))
  BY <1>13, <1>14
<1> QED BY <1>2, <1>15 DEF e, full


\* Excluding rows fails exactly if running the plan without them does, and
\* shows the same rows made of the same snapshot rows (receipts-cf exclude).
THEOREM ExcludeIsFullRun ==
    ASSUME NEW plan, IsPlan(plan), Execute(plan, NoExclusion).ok,
           NEW rows \in SUBSET Nat, rows # NoExclusion
    PROVE  AnswersAs(plan, Exclude(plan, Execute(plan, NoExclusion), rows), Execute(plan, rows))
<1> DEFINE n == OutputNode(plan)
           a == TheAggregate(plan)
           b == Execute(plan, NoExclusion)
           full == Execute(plan, rows)
           x == Exclude(plan, b, rows)
<1>1. n \in Nat /\ DOMAIN plan = 0 .. n /\ 0 \in DOMAIN plan  BY PlanNodes
<1>2. Shown(plan) \subseteq 0 .. n
  <2>1. CASE IncrementalShape(plan)
    <3>1. a \in DOMAIN plan /\ a \in Nat  BY <2>1, AggregateStep
    <3> QED BY <1>1, <2>1, <3>1 DEF Shown
  <2>2. CASE ~ IncrementalShape(plan)  BY <1>1, <2>2 DEF Shown
  <2> QED BY <2>1, <2>2
<1>3. CASE rows = {}
  <2>1. x = Derived("unchanged", b)  BY <1>3 DEF Exclude
  <2>2. Kept(b, rows, 0) = DOMAIN b.tables[0]  BY <1>3 DEF Kept
  <2> DEFINE m == 0
  <2>3. m \in DOMAIN plan /\ (\A i \in 1 .. m : KeepsRows(plan[i]))  BY <1>1
  <2>4. full.ok /\ \A i \in 0 .. n : SameAt(b, full, i)
    <3>1. Kept(b, rows, m) = DOMAIN b.tables[m]  BY <2>2
    <3> HIDE DEF m
    <3>2. full.ok /\ \A i \in m .. n : SameAt(b, full, i)  BY <2>3, <3>1, Unchanged
    <3> QED BY <3>2 DEF m
  <2>5. x.ok /\ x.execution = b  BY <2>1, DerivedOk
  <2> HIDE DEF n, b, x, full
  <2> QED BY <1>2, <2>4, <2>5 DEF AnswersAs, b, x, full
<1>4. CASE rows # {} /\ ~ IncrementalShape(plan)
  <2>1. x = Derived("rerun", full)  BY <1>4 DEF Exclude
  <2>2. (x.ok <=> full.ok) /\ (full.ok => x.execution = full)  BY <2>1, DerivedOk
  <2>3. \A i : SameAt(full, full, i)  BY DEF SameAt
  <2> QED BY <2>2, <2>3 DEF AnswersAs
<1>5. CASE rows # {} /\ IncrementalShape(plan)
  <2>1. a \in DOMAIN plan \ {0} /\ a - 1 \in DOMAIN plan /\ (\A i \in 1 .. a - 1 : KeepsRows(plan[i]))
    BY <1>5, AggregateStep
  <2>2. Shown(plan) = a .. n  BY <1>5 DEF Shown
  <2> DEFINE removed == Forward(b.steps, rows, a - 1)
             e == Incremental(plan, b, a, removed, Forward(b.steps, rows, a))
  <2>3. CASE removed = {}
    <3>1. x = Derived("unchanged", b)  BY <1>5, <2>3 DEF Exclude
    <3>2. Kept(b, rows, a - 1) = DOMAIN b.tables[a - 1]
      <4>1. LET t == b.tables[a - 1]
                K == Kept(b, rows, a - 1)
            IN  K \in SUBSET DOMAIN t /\ removed = DOMAIN t \ K
        BY <1>5, AtAggregate
      <4> QED BY <2>3, <4>1
    <3>3. full.ok /\ \A i \in a - 1 .. n : SameAt(b, full, i)
      <4> DEFINE m == a - 1
      <4>1. m \in DOMAIN plan /\ (\A i \in 1 .. m : KeepsRows(plan[i]))
            /\ Kept(b, rows, m) = DOMAIN b.tables[m]
        BY <2>1, <3>2
      <4> HIDE DEF m
      <4>2. full.ok /\ \A i \in m .. n : SameAt(b, full, i)  BY <4>1, Unchanged
      <4> QED BY <4>2 DEF m
    <3>4. x.ok /\ x.execution = b  BY <3>1, DerivedOk
    <3>5. \A i \in a .. n : i \in a - 1 .. n  BY <1>1, <2>1
    <3> HIDE DEF n, b, x, full, a
    <3> QED BY <2>2, <3>3, <3>4, <3>5 DEF AnswersAs, b, x, full
  <2>4. CASE removed # {}
    <3>1. x = Derived("incremental", e)  BY <1>5, <2>4 DEF Exclude
    <3>2. (e.ok <=> full.ok) /\ (e.ok => \A i \in a .. n : SameAt(e, full, i))
      BY <1>5, <2>4, IncrementalIsFullRun
    <3>3. (x.ok <=> e.ok) /\ (e.ok => x.execution = e)
      <4> HIDE DEF e
      <4> QED BY <3>1, DerivedOk
    <3> HIDE DEF n, b, x, full, a, e
    <3> QED BY <2>2, <3>2, <3>3 DEF AnswersAs, b, x, full
  <2> QED BY <2>3, <2>4
<1> QED BY <1>3, <1>4, <1>5


----------------------------------------------------------------------------
(* Sessions.                                                               *)

\* What an execution kept under an id is: a run of its plan, or what exclude
\* makes of that run without the rows.
IsLive(live) ==
    /\ live.plan \in Plans /\ live.excluded \in SUBSET UNION RowSets
    /\ Execute(live.plan, NoExclusion).ok
    /\ live.base = NoBase =>
          live.excluded = {} /\ live.execution = Execute(live.plan, NoExclusion)
    /\ LET x == Exclude(live.plan, Execute(live.plan, NoExclusion), live.excluded)
       IN  x.ok /\ live.execution = x.execution

\* The execution a counterfactual came from, if it was not dropped, is a run
\* of the same plan.
BaseIsRun(id) ==
    LET base == executions[id].base
    IN  base # NoBase =>
            /\ base \in Nat /\ base < next_id
            /\ base \in DOMAIN executions =>
                  /\ executions[base].base = NoBase
                  /\ executions[base].plan = executions[id].plan

EngineInvariant ==
    /\ next_id \in Nat
    /\ DOMAIN wanted = DOMAIN executions
    /\ \A id \in DOMAIN executions :
          /\ id \in Nat /\ id < next_id
          /\ IsLive(executions[id]) /\ wanted[id] = executions[id].excluded
          /\ BaseIsRun(id)

\* A run without an exclusion is kept as it is.
LEMMA RunIsLive ==
    ASSUME NEW plan \in Plans, Execute(plan, NoExclusion).ok
    PROVE  IsLive([plan |-> plan, execution |-> Execute(plan, NoExclusion),
                   base |-> NoBase, excluded |-> {}])
<1> DEFINE b == Execute(plan, NoExclusion)
<1>1. Exclude(plan, b, {}) = Derived("unchanged", b)  BY DEF Exclude
<1>2. Exclude(plan, b, {}).ok /\ Exclude(plan, b, {}).execution = b  BY <1>1, DerivedOk
<1> HIDE DEF b
<1>3. b.ok /\ b = Execute(plan, NoExclusion)  BY DEF b
<1>4. {} \in SUBSET UNION RowSets  OBVIOUS
<1> QED BY <1>2, <1>3, <1>4 DEF IsLive

LEMMA Registered ==
    ASSUME EngineInvariant, NEW live, IsLive(live), Register(live, live.excluded),
           live.base # NoBase =>
              /\ live.base \in DOMAIN executions
              /\ executions[live.base].base = NoBase
              /\ executions[live.base].plan = live.plan
    PROVE  EngineInvariant'
<1>1. /\ DOMAIN executions' = DOMAIN executions \cup {next_id}
      /\ executions'[next_id] = live
      /\ DOMAIN wanted' = DOMAIN executions \cup {next_id}
      /\ wanted'[next_id] = live.excluded
      /\ next_id' = next_id + 1
      /\ next_id \notin DOMAIN executions /\ next_id \in Nat
  BY DEF Register, With, EngineInvariant
<1>2. \A id \in DOMAIN executions : executions'[id] = executions[id] /\ wanted'[id] = wanted[id]
  BY <1>1 DEF Register, With, EngineInvariant
<1>3. next_id' \in Nat /\ next_id < next_id' /\ (\A n \in Nat : n < next_id => n < next_id')
  BY <1>1
<1>4. \A id \in DOMAIN executions :
         /\ id \in Nat /\ id < next_id
         /\ IsLive(executions[id]) /\ wanted[id] = executions[id].excluded
         /\ BaseIsRun(id)
  BY DEF EngineInvariant
<1>5. ASSUME NEW id \in DOMAIN executions'
      PROVE  /\ id \in Nat /\ id < next_id'
             /\ IsLive(executions'[id]) /\ wanted'[id] = executions'[id].excluded
             /\ BaseIsRun(id)'
  <2>1. CASE id = next_id
    <3>1. live.base # NoBase =>
             /\ live.base \in Nat /\ live.base < next_id'
             /\ live.base \in DOMAIN executions
      BY <1>3, <1>4
    <3>2. BaseIsRun(id)'  BY <1>1, <1>2, <2>1, <3>1 DEF BaseIsRun
    <3> QED BY <1>1, <1>3, <2>1, <3>2
  <2>2. CASE id \in DOMAIN executions
    <3>1. BaseIsRun(id)'
      <4> DEFINE base == executions[id].base
      <4>1. executions'[id] = executions[id]  BY <1>2, <2>2
      <4>2. base # NoBase => base \in Nat /\ base < next_id
        BY <1>4, <2>2 DEF BaseIsRun
      <4>3. base # NoBase => base # next_id  BY <1>1, <4>2
      <4>4. base # NoBase /\ base \in DOMAIN executions' => base \in DOMAIN executions
        BY <1>1, <4>3
      <4>5. base # NoBase /\ base \in DOMAIN executions =>
               /\ executions[base].base = NoBase
               /\ executions[base].plan = executions[id].plan
        BY <1>4, <2>2 DEF BaseIsRun
      <4> QED BY <1>2, <1>3, <4>1, <4>2, <4>4, <4>5 DEF BaseIsRun
    <3> QED BY <1>2, <1>3, <1>4, <2>2, <3>1
  <2> QED BY <1>1, <2>1, <2>2
<1> QED BY <1>1, <1>3, <1>5 DEF EngineInvariant

LEMMA EngineInit == Init => EngineInvariant
BY DEF Init, EngineInvariant

LEMMA EngineStep == EngineInvariant /\ [Next]_vars => EngineInvariant'
<1> SUFFICES ASSUME EngineInvariant, [Next]_vars PROVE EngineInvariant'
  OBVIOUS
<1>0. ASSUME UNCHANGED <<executions, next_id, wanted>> PROVE EngineInvariant'
  BY <1>0 DEF EngineInvariant, BaseIsRun
<1>1. ASSUME NEW s, LoadSnapshot(s) PROVE EngineInvariant'
  BY <1>0, <1>1 DEF LoadSnapshot
<1>2. ASSUME NEW plan \in Plans, Run(plan) PROVE EngineInvariant'
  <2> DEFINE live == [plan |-> plan, execution |-> Execute(plan, NoExclusion),
                      base |-> NoBase, excluded |-> {}]
  <2>1. \/ Refused
        \/ Execute(plan, NoExclusion).ok /\ Register(live, {})
    BY <1>2 DEF Run
  <2>2. CASE Refused  BY <1>0, <2>2 DEF Refused
  <2>3. CASE Execute(plan, NoExclusion).ok /\ Register(live, {})
    <3>1. IsLive(live)  BY <2>3, RunIsLive
    <3>2. live.excluded = {} /\ live.base = NoBase  OBVIOUS
    <3>3. Register(live, live.excluded)  BY <2>3, <3>2
    <3> HIDE DEF live
    <3> QED BY <3>1, <3>2, <3>3, Registered
  <2> QED BY <2>1, <2>2, <2>3
<1>3. ASSUME NEW id, NEW rows \in RowSets, ExcludeRows(id, rows) PROVE EngineInvariant'
  <2> DEFINE base == executions[BaseOf(id)]
             live == [plan |-> base.plan,
                      execution |-> Exclusion(id, rows).execution,
                      base |-> BaseOf(id),
                      excluded |-> AllExcluded(id, rows)]
  <2>1. \/ Refused
        \/ /\ id \in DOMAIN executions /\ BaseOf(id) \in DOMAIN executions
           /\ Exclusion(id, rows).ok /\ Register(live, wanted[id] \cup rows)
    BY <1>3 DEF ExcludeRows
  <2>2. CASE Refused  BY <1>0, <2>2 DEF Refused
  <2>3. CASE /\ id \in DOMAIN executions /\ BaseOf(id) \in DOMAIN executions
             /\ Exclusion(id, rows).ok /\ Register(live, wanted[id] \cup rows)
    <3>1. IsLive(base) /\ base.base = NoBase
      BY <2>3 DEF EngineInvariant, BaseIsRun, BaseOf
    <3>2. wanted[id] = executions[id].excluded /\ executions[id].excluded \in SUBSET UNION RowSets
      BY <2>3 DEF EngineInvariant, IsLive
    <3>3. base.plan \in Plans /\ base.execution = Execute(base.plan, NoExclusion)
          /\ Execute(base.plan, NoExclusion).ok
      BY <3>1 DEF IsLive
    <3>4. AllExcluded(id, rows) \in SUBSET UNION RowSets  BY <3>2 DEF AllExcluded
    <3>5. Exclusion(id, rows)
            = Exclude(base.plan, Execute(base.plan, NoExclusion), AllExcluded(id, rows))
      BY <3>3 DEF Exclusion
    <3>6. BaseOf(id) # NoBase  BY <2>3, EngineAssumption DEF EngineInvariant
    <3>7. /\ live.plan = base.plan /\ live.excluded = AllExcluded(id, rows)
          /\ live.base = BaseOf(id) /\ live.execution = Exclusion(id, rows).execution
      OBVIOUS
    <3>8. Register(live, live.excluded)  BY <2>3, <3>2, <3>7 DEF AllExcluded
    <3> HIDE DEF live
    <3>9. IsLive(live)  BY <2>3, <3>3, <3>4, <3>5, <3>6, <3>7 DEF IsLive
    <3> QED BY <2>3, <3>1, <3>7, <3>8, <3>9, Registered
  <2> QED BY <2>1, <2>2, <2>3
<1>4. ASSUME NEW id, DropExecution(id) PROVE EngineInvariant'
  <2>1. /\ DOMAIN executions' = DOMAIN executions \ {id}
        /\ DOMAIN wanted' = DOMAIN executions \ {id}
        /\ \A i \in DOMAIN executions' : executions'[i] = executions[i] /\ wanted'[i] = wanted[i]
        /\ next_id' = next_id
    BY <1>4 DEF DropExecution, EngineInvariant
  <2>2. \A i \in DOMAIN executions' : i \in DOMAIN executions /\ BaseIsRun(i)
    BY <2>1 DEF EngineInvariant
  <2>3. \A i \in DOMAIN executions' : BaseIsRun(i)'
    BY <2>1, <2>2 DEF BaseIsRun
  <2> QED BY <2>1, <2>2, <2>3 DEF EngineInvariant
<1>5. ASSUME NEW id, NEW row, AskContributions(id, row) PROVE EngineInvariant'
  BY <1>0, <1>5 DEF AskContributions
<1>6. ASSUME UNCHANGED vars PROVE EngineInvariant'
  BY <1>0, <1>6 DEF vars
<1> QED BY <1>1, <1>2, <1>3, <1>4, <1>5, <1>6 DEF Next

THEOREM EngineInvariantHolds == Spec => []EngineInvariant
BY EngineInit, EngineStep, PTL DEF Spec

\* Whatever chain of exclusions an execution came from, its numbers and their
\* traces are those of a full run without the rows (Engine::exclude).
THEOREM CounterfactualsHold == Spec => []CounterfactualsAreFullRuns
<1>1. EngineInvariant => CounterfactualsAreFullRuns
  <2> SUFFICES ASSUME EngineInvariant, NEW id \in DOMAIN executions
               PROVE  LET live == executions[id]
                          full == Execute(live.plan, wanted[id])
                      IN  full.ok /\ \A i \in Shown(live.plan) : SameAt(live.execution, full, i)
    BY DEF CounterfactualsAreFullRuns
  <2> DEFINE live == executions[id]
             x == Exclude(live.plan, Execute(live.plan, NoExclusion), live.excluded)
  <2>1. IsLive(live) /\ wanted[id] = live.excluded  BY DEF EngineInvariant
  <2>2. /\ IsPlan(live.plan) /\ Execute(live.plan, NoExclusion).ok
        /\ live.excluded \in SUBSET Nat /\ live.excluded # NoExclusion
        /\ x.ok /\ live.execution = x.execution
    BY <2>1, EngineAssumption DEF IsLive
  <2>3. AnswersAs(live.plan, x, Execute(live.plan, live.excluded))
    <3> HIDE DEF live
    <3> QED BY <2>2, ExcludeIsFullRun
  <2> QED BY <2>1, <2>2, <2>3 DEF AnswersAs
<1> QED BY <1>1, EngineInvariantHolds, PTL

\* An exclusion is refused exactly if running the plan without all of the rows
\* fails (receipts-cf exclude, Engine::exclude).
THEOREM ExclusionsFailAlikeHolds == Spec => []ExclusionsFailAlike
<1>1. EngineInvariant => ExclusionsFailAlike
  <2> SUFFICES ASSUME EngineInvariant, NEW id \in DOMAIN executions, NEW rows \in RowSets,
                      BaseOf(id) \in DOMAIN executions
               PROVE  Exclusion(id, rows).ok
                        <=> Execute(executions[id].plan, wanted[id] \cup rows).ok
    BY DEF ExclusionsFailAlike
  <2> DEFINE base == executions[BaseOf(id)]
             all == AllExcluded(id, rows)
  <2>1. IsLive(base) /\ base.base = NoBase /\ base.plan = executions[id].plan
    BY DEF EngineInvariant, BaseIsRun, BaseOf
  <2>2. wanted[id] = executions[id].excluded /\ IsLive(executions[id])
    BY DEF EngineInvariant
  <2>3. all \in SUBSET UNION RowSets /\ all = wanted[id] \cup rows
    BY <2>2 DEF AllExcluded, IsLive
  <2>4. /\ IsPlan(base.plan) /\ Execute(base.plan, NoExclusion).ok
        /\ base.execution = Execute(base.plan, NoExclusion)
        /\ all \in SUBSET Nat /\ all # NoExclusion
    BY <2>1, <2>3, EngineAssumption DEF IsLive
  <2>5. Exclusion(id, rows) = Exclude(base.plan, Execute(base.plan, NoExclusion), all)
    BY <2>4 DEF Exclusion
  <2> HIDE DEF base, all
  <2>6. AnswersAs(base.plan, Exclude(base.plan, Execute(base.plan, NoExclusion), all),
                  Execute(base.plan, all))
    BY <2>4, ExcludeIsFullRun
  <2> QED BY <2>1, <2>3, <2>5, <2>6 DEF AnswersAs
<1> QED BY <1>1, EngineInvariantHolds, PTL

\* An id keeps naming the same execution until it is dropped and is given to
\* no other one (Engine::register).
THEOREM HandlesAreStable == Spec => HandlesStable
<1> DEFINE A == /\ next_id' >= next_id
                /\ \A id \in DOMAIN executions' :
                      \/ id \in DOMAIN executions /\ executions'[id] = executions[id]
                      \/ id >= next_id /\ id < next_id'
<1>1. ASSUME EngineInvariant, Next PROVE A
  <2>0. next_id \in Nat /\ \A id \in DOMAIN executions : id \in Nat /\ id < next_id
    BY <1>1 DEF EngineInvariant
  <2>1. ASSUME UNCHANGED <<executions, next_id>> PROVE A
    BY <2>0, <2>1
  <2>2. ASSUME NEW live, NEW rows, Register(live, rows) PROVE A
    BY <2>0, <2>2 DEF Register, With
  <2>3. ASSUME NEW id, DropExecution(id) PROVE A
    BY <2>0, <2>3 DEF DropExecution
  <2> HIDE DEF A
  <2> QED BY <1>1, <2>1, <2>2, <2>3
        DEF Next, LoadSnapshot, Run, ExcludeRows, AskContributions, Refused
<1>2. EngineInvariant /\ [Next]_vars => [A]_vars  BY <1>1
<1>3. Spec => [][A]_vars  BY <1>2, EngineInvariantHolds, PTL DEF Spec
<1> QED BY <1>3 DEF HandlesStable


----------------------------------------------------------------------------
(* What an execution that exclude answers with looks like.                 *)

LEMMA RerunSteps ==
    ASSUME NEW plan, IsPlan(plan), NEW base, NEW node \in DOMAIN plan, NEW table, NEW lineage,
           RerunFrom(plan, base, node, table, lineage).ok
    PROVE  LET e == RerunFrom(plan, base, node, table, lineage)
           IN  /\ DOMAIN e.tables = DOMAIN plan /\ DOMAIN e.steps = DOMAIN plan
               /\ \A i \in 0 .. node - 1 :
                     e.tables[i] = base.tables[i] /\ e.steps[i] = base.steps[i]
               /\ e.tables[node] = table /\ e.steps[node] = lineage
               /\ \A i \in node + 1 .. OutputNode(plan) : Follows(plan, e, i)
<1> DEFINE e == RerunFrom(plan, base, node, table, lineage)
           n == OutputNode(plan)
<1>1. n \in Nat /\ DOMAIN plan = 0 .. n /\ node \in 0 .. n /\ node \in Nat  BY PlanNodes
<1>2. PICK done : IsRerun(plan, base, node, Done(table, lineage), done, n) /\ e = Collected(done)
  BY <1>1, RerunRuns
<1>3. DOMAIN done = 0 .. n  BY <1>2 DEF IsRerun
<1>4. /\ DOMAIN e.tables = 0 .. n /\ DOMAIN e.steps = 0 .. n
      /\ \A i \in 0 .. n : done[i].ok /\ e.tables[i] = done[i].table /\ e.steps[i] = done[i].lineage
  <2>1. Collected(done).ok  BY <1>2
  <2>2. /\ DOMAIN Collected(done).tables = DOMAIN done
        /\ DOMAIN Collected(done).steps = DOMAIN done
        /\ \A i \in DOMAIN done : /\ done[i].ok
                                  /\ Collected(done).tables[i] = done[i].table
                                  /\ Collected(done).steps[i] = done[i].lineage
    BY <2>1, CollectedParts
  <2> HIDE DEF e, n
  <2> QED BY <1>2, <1>3, <2>2
<1> HIDE DEF e, n
<1>5. \A x, y : Done(x, y).table = x /\ Done(x, y).lineage = y  BY DEF Done
<1>6. \A i \in 0 .. node - 1 : e.tables[i] = base.tables[i] /\ e.steps[i] = base.steps[i]
  <2>1. \A i \in 0 .. node - 1 : i \in 0 .. n /\ i < node  BY <1>1
  <2>2. \A i \in 0 .. node - 1 : done[i] = Done(base.tables[i], base.steps[i])
    BY <1>2, <2>1 DEF IsRerun
  <2> QED BY <1>4, <1>5, <2>1, <2>2
<1>7. e.tables[node] = table /\ e.steps[node] = lineage
  <2>1. done[node] = Done(table, lineage)  BY <1>1, <1>2 DEF IsRerun
  <2> QED BY <1>1, <1>4, <1>5, <2>1
<1>8. ASSUME NEW i \in node + 1 .. n PROVE Follows(plan, e, i)
  <2>1. i \in 0 .. n /\ i - 1 \in 0 .. n /\ ~ i < node /\ i # node  BY <1>1
  <2>2. done[i] = NextStep(plan, i, done[i - 1])  BY <1>2, <2>1 DEF IsRerun
  <2>3. done[i - 1].ok /\ done[i - 1].table = e.tables[i - 1]  BY <1>4, <2>1
  <2>4. done[i] = RunStep(plan[i], e.tables[i - 1])  BY <2>2, <2>3 DEF NextStep
  <2> QED BY <1>4, <2>1, <2>4 DEF Follows
<1> QED BY <1>1, <1>4, <1>6, <1>7, <1>8 DEF e, n

\* The groups of an aggregate over the rows X are kept apart.
LEMMA LeftTyped ==
    ASSUME NEW op, IsStep(op), op.op = "aggregate", NEW t, IsTable(t),
           NEW X \in SUBSET DOMAIN t, NEW r, IsAggregateIn(r, op, t, X)
    PROVE  /\ IsStepOn(r.lineage, Height(t))
           /\ DOMAIN r.table = 0 .. r.lineage.len - 1
           /\ \A x \in X : \E i \in DOMAIN r.table : x \in MadeOf(r.lineage, i)
<1> DEFINE L == LeftKeys(op, t, X)
           n == Cardinality(L)
           keys == Ascending(L)
           s == r.lineage
<1>1. L \in SUBSET Int /\ IsFiniteSet(L)
  <2> HIDE DEF L
  <2> QED BY LeftAggregate DEF L
<1>2. /\ n \in Nat /\ keys \in [0 .. n - 1 -> L]
      /\ \A x \in L : \E i \in 0 .. n - 1 : keys[i] = x
      /\ \A i, j \in 0 .. n - 1 : keys[i] = keys[j] => i = j
  <2> HIDE DEF L
  <2> QED BY <1>1, AscendingGrows
<1>3. DOMAIN keys = 0 .. n - 1 /\ Height(keys) = n
  <2> HIDE DEF keys, L
  <2> QED BY <1>2, HeightIs
<1>4. /\ s.kind = "Group" /\ s.len = n /\ DOMAIN r.table = 0 .. n - 1
      /\ \A i \in 0 .. n - 1 : s.members[i] = Has(op, t, X, keys[i])
  BY <1>3 DEF IsAggregateIn
<1>5. \A i \in 0 .. n - 1 : MadeOf(s, i) = Has(op, t, X, keys[i])  BY <1>4 DEF MadeOf
<1>6. \A i \in 0 .. n - 1 : MadeOf(s, i) \subseteq 0 .. Height(t) - 1
  BY <1>5, TableRows DEF Has
<1>7. ASSUME NEW i \in 0 .. n - 1, NEW j \in 0 .. n - 1, MadeOf(s, i) \cap MadeOf(s, j) # {}
      PROVE  i = j
  <2>1. keys[i] = keys[j]
    <3>1. CASE op.grouped  BY <1>5, <1>7, <3>1 DEF Has, Members
    <3>2. CASE ~ op.grouped
      <4>1. keys[i] \in {0} /\ keys[j] \in {0}  BY <1>2, <3>2 DEF LeftKeys
      <4> QED BY <4>1
    <3> QED BY <3>1, <3>2 DEF IsStep
  <2> QED BY <1>2, <2>1
<1>8. ASSUME NEW x \in X PROVE \E i \in 0 .. n - 1 : x \in MadeOf(s, i)
  <2>1. PICK g \in L : x \in Has(op, t, X, g)
    <3>1. CASE op.grouped  BY <3>1 DEF LeftKeys, Has, Members
    <3>2. CASE ~ op.grouped  BY <3>2 DEF LeftKeys, Has, Members
    <3> QED BY <3>1, <3>2 DEF IsStep
  <2>2. PICK i \in 0 .. n - 1 : keys[i] = g  BY <1>2
  <2> QED BY <1>5, <2>1, <2>2
<1> HIDE DEF n, keys, L
<1> QED BY <1>2, <1>4, <1>6, <1>7, <1>8 DEF IsStepOn, MapsBelow


\* A run with only the aggregate's groups recomputed, over the rows whose
\* traces name none of `rows`.
Rederived(plan, e, rows) ==
    LET a == TheAggregate(plan)
    IN  /\ IncrementalShape(plan)
        /\ Scans(plan, e, NoExclusion)
        /\ \A i \in DOMAIN plan \ {0} : i # a => Follows(plan, e, i)
        /\ IsAggregateIn([table |-> e.tables[a], lineage |-> e.steps[a]],
                         plan[a], e.tables[a - 1], Kept(e, rows, a - 1))

IsAnswer(plan, e, rows) ==
    /\ IsExecution(plan, e)
    /\ \/ \E ex \in {NoExclusion, rows} :
             Scans(plan, e, ex) /\ \A i \in DOMAIN plan \ {0} : Follows(plan, e, i)
       \/ Rederived(plan, e, rows)

LEMMA RunIsAnswer ==
    ASSUME NEW plan, IsPlan(plan), NEW rows, NEW ex \in {NoExclusion, rows},
           Execute(plan, ex).ok
    PROVE  IsAnswer(plan, Execute(plan, ex), rows)
<1> DEFINE e == Execute(plan, ex)
<1>1. IsExecution(plan, e)  BY ExecutionTyped
<1>2. /\ e.tables[0] = Scan(plan[0], ex).table
      /\ e.steps[0] = Scan(plan[0], ex).lineage
      /\ \A i \in DOMAIN plan \ {0} : Follows(plan, e, i)
  BY ExecutionSteps
<1> HIDE DEF e
<1> QED BY <1>1, <1>2 DEF IsAnswer, Scans, e

\* What is reused, what is recomputed and what is run again.
LEMMA IncrementalParts ==
    ASSUME NEW plan, IsPlan(plan), IncrementalShape(plan), Execute(plan, NoExclusion).ok,
           NEW rows \in SUBSET Nat, rows # NoExclusion,
           Forward(Execute(plan, NoExclusion).steps, rows, TheAggregate(plan) - 1) # {},
           NEW e, e = LET a == TheAggregate(plan)
                          b == Execute(plan, NoExclusion)
                      IN  Incremental(plan, b, a, Forward(b.steps, rows, a - 1),
                                      Forward(b.steps, rows, a)),
           e.ok
    PROVE  LET a == TheAggregate(plan)
               b == Execute(plan, NoExclusion)
               t == b.tables[a - 1]
           IN  /\ DOMAIN e.tables = DOMAIN plan /\ DOMAIN e.steps = DOMAIN plan
               /\ \A i \in 0 .. a - 1 : e.tables[i] = b.tables[i] /\ e.steps[i] = b.steps[i]
               /\ \A i \in a + 1 .. OutputNode(plan) : Follows(plan, e, i)
               /\ IsAggregateIn([table |-> e.tables[a], lineage |-> e.steps[a]],
                                plan[a], t, Kept(b, rows, a - 1))
<1> DEFINE n == OutputNode(plan)
           a == TheAggregate(plan)
           b == Execute(plan, NoExclusion)
           t == b.tables[a - 1]
           K == Kept(b, rows, a - 1)
           removed == DOMAIN t \ K
           affected == Hit(plan[a], t, K)
           mini == AggregateSubset(plan, a, t, Survivors(b.steps[a].members, affected, removed))
           new == Interleaved(plan[a], Done(b.tables[a], b.steps[a]), mini, affected, removed)
<1>1. /\ a \in DOMAIN plan \ {0} /\ a \in Nat \ {0} /\ a - 1 \in DOMAIN plan
      /\ IsStep(plan[a]) /\ plan[a].op = "aggregate"
  BY AggregateStep
<1>2. /\ IsTable(t) /\ K \in SUBSET DOMAIN t /\ Follows(plan, b, a)
      /\ Forward(b.steps, rows, a - 1) = removed
      /\ Forward(b.steps, rows, a) = affected
  BY AtAggregate
<1>3. K # DOMAIN t  BY <1>2
<1>4. n \in Nat /\ DOMAIN plan = 0 .. n /\ a \in 0 .. n /\ 0 \in 0 .. a - 1
  BY <1>1, PlanNodes
<1>5. e = Incremental(plan, b, a, removed, affected)  BY <1>2
<1>6. mini.ok /\ e = RerunFrom(plan, b, a, new.table, new.lineage)
  BY <1>5 DEF Incremental, Failed
<1>7. IsAggregateIn(new, plan[a], t, K)
  <2>1. mini.ok => IsAggregateIn(new, plan[a], t, K)
    <3> HIDE DEF K, b, a
    <3> QED BY <1>1, <1>2, <1>3, InterleavedAggregate
  <2> QED BY <1>6, <2>1
<1> DEFINE table == new.table
           lineage == new.lineage
<1>9. /\ DOMAIN e.tables = DOMAIN plan /\ DOMAIN e.steps = DOMAIN plan
      /\ \A i \in 0 .. a - 1 : e.tables[i] = b.tables[i] /\ e.steps[i] = b.steps[i]
      /\ e.tables[a] = table /\ e.steps[a] = lineage
      /\ \A i \in a + 1 .. n : Follows(plan, e, i)
  <2>1. e = RerunFrom(plan, b, a, table, lineage)  BY <1>6
  <2>2. a \in DOMAIN plan /\ RerunFrom(plan, b, a, table, lineage).ok  BY <1>1, <2>1
  <2> HIDE DEF table, lineage, a, b
  <2>3. LET x == RerunFrom(plan, b, a, table, lineage)
        IN  /\ DOMAIN x.tables = DOMAIN plan /\ DOMAIN x.steps = DOMAIN plan
            /\ \A i \in 0 .. a - 1 : x.tables[i] = b.tables[i] /\ x.steps[i] = b.steps[i]
            /\ x.tables[a] = table /\ x.steps[a] = lineage
            /\ \A i \in a + 1 .. OutputNode(plan) : Follows(plan, x, i)
    BY <2>2, RerunSteps
  <2> QED BY <2>1, <2>3
<1>10. IsAggregateIn([table |-> e.tables[a], lineage |-> e.steps[a]], plan[a], t, K)
  <2> HIDE DEF new, a, b, K, t
  <2> QED BY <1>7, <1>9 DEF IsAggregateIn
<1> HIDE DEF table, lineage, new, mini, n, a, b, t, K
<1> QED BY <1>9, <1>10 DEF n, a, b, t, K

LEMMA IncrementalIsAnswer ==
    ASSUME NEW plan, IsPlan(plan), IncrementalShape(plan), Execute(plan, NoExclusion).ok,
           NEW rows \in SUBSET Nat, rows # NoExclusion,
           Forward(Execute(plan, NoExclusion).steps, rows, TheAggregate(plan) - 1) # {},
           NEW e, e = LET a == TheAggregate(plan)
                          b == Execute(plan, NoExclusion)
                      IN  Incremental(plan, b, a, Forward(b.steps, rows, a - 1),
                                      Forward(b.steps, rows, a)),
           e.ok
    PROVE  IsAnswer(plan, e, rows)
<1> DEFINE n == OutputNode(plan)
           a == TheAggregate(plan)
           b == Execute(plan, NoExclusion)
           t == b.tables[a - 1]
           K == Kept(b, rows, a - 1)
           full == Execute(plan, rows)
<1>1. /\ a \in DOMAIN plan \ {0} /\ a \in Nat \ {0} /\ a - 1 \in DOMAIN plan
      /\ IsStep(plan[a]) /\ plan[a].op = "aggregate"
  BY AggregateStep
<1>2. IsTable(t) /\ K \in SUBSET DOMAIN t  BY AtAggregate
<1>4. n \in Nat /\ DOMAIN plan = 0 .. n /\ a \in 0 .. n /\ 0 \in 0 .. a - 1
  BY <1>1, PlanNodes
<1>8. \A i \in a .. n : e.tables[i] = full.tables[i] /\ IsTable(e.tables[i])
  <2>1. e.ok <=> full.ok /\ (e.ok => \A i \in a .. n : SameAt(e, full, i))
    BY IncrementalIsFullRun
  <2>2. IsExecution(plan, full)
    <3>1. full.ok  BY <2>1
    <3> QED BY <3>1, ExecutionTyped
  <2>3. \A i \in a .. n : i \in DOMAIN plan  BY <1>4
  <2> HIDE DEF full, n, a
  <2> QED BY <2>1, <2>2, <2>3 DEF SameAt, IsExecution
<1>9. /\ DOMAIN e.tables = DOMAIN plan /\ DOMAIN e.steps = DOMAIN plan
      /\ \A i \in 0 .. a - 1 : e.tables[i] = b.tables[i] /\ e.steps[i] = b.steps[i]
      /\ \A i \in a + 1 .. n : Follows(plan, e, i)
      /\ IsAggregateIn([table |-> e.tables[a], lineage |-> e.steps[a]], plan[a], t, K)
  <2>1. LET c == TheAggregate(plan)
            d == Execute(plan, NoExclusion)
        IN  /\ DOMAIN e.tables = DOMAIN plan /\ DOMAIN e.steps = DOMAIN plan
            /\ \A i \in 0 .. c - 1 : e.tables[i] = d.tables[i] /\ e.steps[i] = d.steps[i]
            /\ \A i \in c + 1 .. OutputNode(plan) : Follows(plan, e, i)
            /\ IsAggregateIn([table |-> e.tables[c], lineage |-> e.steps[c]],
                             plan[c], d.tables[c - 1], Kept(d, rows, c - 1))
    <3> HIDE DEF n, a, b, t, K, full
    <3> DEFINE c == TheAggregate(plan)
               d == Execute(plan, NoExclusion)
    <3>1. e = Incremental(plan, d, c, Forward(d.steps, rows, c - 1), Forward(d.steps, rows, c))
      OBVIOUS
    <3> QED BY <3>1, IncrementalParts
  <2> QED BY <2>1
<1>10. IsAggregateIn([table |-> e.tables[a], lineage |-> e.steps[a]], plan[a], t, K)
  BY <1>9
<1>11. IsExecution(plan, b) /\ Scans(plan, b, NoExclusion) /\ \A i \in DOMAIN plan \ {0} : Follows(plan, b, i)
  <2>1. LET x == b IN /\ x.tables[0] = Scan(plan[0], NoExclusion).table
                      /\ x.steps[0] = Scan(plan[0], NoExclusion).lineage
                      /\ \A i \in DOMAIN plan \ {0} : Follows(plan, x, i)
    BY ExecutionSteps
  <2> QED BY <2>1, ExecutionTyped DEF Scans
<1> HIDE DEF b
<1>12. e.tables[a - 1] = t /\ Kept(e, rows, a - 1) = K
  <2>1. a - 1 \in 0 .. a - 1 /\ a - 1 \in Nat  BY <1>1
  <2>2. e.tables[a - 1] = t  BY <1>9, <2>1
  <2> DEFINE j == a - 1
  <2>3. \A i \in 0 .. j : e.steps[i] = b.steps[i]  BY <1>9
  <2>4. \A R : SourceRows(e.steps, j, R) = SourceRows(b.steps, j, R)
    <3>1. j \in Nat  BY <2>1
    <3> HIDE DEF j
    <3> QED BY <2>3, <3>1, SourceRowsSame
  <2> QED BY <2>2, <2>4 DEF Kept
<1>13. Scans(plan, e, NoExclusion)
  BY <1>4, <1>9, <1>11 DEF Scans
<1>14. \A i \in DOMAIN plan \ {0} : i # a => Follows(plan, e, i)
  <2> TAKE i \in DOMAIN plan \ {0}
  <2> HAVE i # a
  <2>1. CASE i < a
    <3>1. i \in 0 .. a - 1 /\ i - 1 \in 0 .. a - 1  BY <1>1, <1>4, <2>1
    <3>2. e.tables[i] = b.tables[i] /\ e.steps[i] = b.steps[i] /\ e.tables[i - 1] = b.tables[i - 1]
      BY <1>9, <3>1
    <3> QED BY <1>11, <3>2 DEF Follows
  <2>2. CASE ~ i < a
    <3>1. i \in a + 1 .. n  BY <1>1, <1>4, <2>2
    <3> QED BY <1>9, <3>1
  <2> QED BY <2>1, <2>2
<1>15. IsStepOn(e.steps[a], Height(t)) /\ e.steps[a].len = Height(e.tables[a])
  <2> DEFINE r == [table |-> e.tables[a], lineage |-> e.steps[a]]
             op == plan[a]
  <2>1. r.table = e.tables[a] /\ r.lineage = e.steps[a] /\ IsAggregateIn(r, op, t, K)
        /\ IsStep(op) /\ op.op = "aggregate"
    BY <1>1, <1>10
  <2> HIDE DEF r, t, K, op
  <2>2. /\ IsStepOn(r.lineage, Height(t))
        /\ DOMAIN r.table = 0 .. r.lineage.len - 1
    BY <1>2, <2>1, LeftTyped
  <2>3. r.lineage.len \in Nat  BY <2>2 DEF IsStepOn, MapsBelow
  <2> QED BY <2>1, <2>2, <2>3, HeightIs
<1>16. IsExecution(plan, e)
  <2>1. \A i \in 0 .. a - 1 : /\ i \in DOMAIN plan
                              /\ IsTable(e.tables[i]) /\ e.steps[i].len = Height(e.tables[i])
    <3>1. \A i \in 0 .. a - 1 : i \in DOMAIN plan  BY <1>1, <1>4
    <3> HIDE DEF a
    <3> QED BY <1>9, <1>11, <3>1 DEF IsExecution
  <2>2. \A i \in a + 1 .. n : /\ e.steps[i].len = Height(e.tables[i])
                              /\ IsStepOn(e.steps[i], Height(e.tables[i - 1]))
    <3>1. a \in DOMAIN plan /\ IsTable(e.tables[a])  BY <1>1, <1>4, <1>8
    <3> HIDE DEF a
    <3> QED BY <1>9, <3>1, TypedFrom
  <2>3. \A i \in 1 .. a - 1 : IsStepOn(e.steps[i], Height(e.tables[i - 1]))
    <3> TAKE i \in 1 .. a - 1
    <3>1. i \in 0 .. a - 1 /\ i - 1 \in 0 .. a - 1 /\ i \in DOMAIN plan \ {0}
      BY <1>1, <1>4
    <3>2. e.tables[i - 1] = b.tables[i - 1] /\ e.steps[i] = b.steps[i]  BY <1>9, <3>1
    <3> QED BY <1>11, <3>1, <3>2 DEF IsExecution
  <2>4. IsScanOf(e.steps[0], Height(Snapshot[plan[0].snapshot]))
    BY <1>4, <1>9, <1>11 DEF IsExecution
  <2>5. ASSUME NEW i \in DOMAIN plan
        PROVE  /\ IsTable(e.tables[i]) /\ e.steps[i].len = Height(e.tables[i])
               /\ i # 0 => IsStepOn(e.steps[i], Height(e.tables[i - 1]))
    <3>1. CASE i \in 0 .. a - 1
      <4>1. i # 0 => i \in 1 .. a - 1  BY <3>1
      <4> QED BY <2>1, <2>3, <3>1, <4>1
    <3>2. CASE i = a
      <4>1. i \in a .. n  BY <1>4, <3>2
      <4> QED BY <1>8, <1>12, <1>15, <3>2, <4>1
    <3>3. CASE i \notin 0 .. a - 1 /\ i # a
      <4>1. i \in a + 1 .. n /\ i \in a .. n  BY <1>1, <1>4, <3>3
      <4> QED BY <1>8, <2>2, <4>1
    <3> QED BY <3>1, <3>2, <3>3
  <2> QED BY <1>9, <2>4, <2>5 DEF IsExecution
<1> HIDE DEF t, K
<1>17. Rederived(plan, e, rows)
  BY <1>10, <1>12, <1>13, <1>14 DEF Rederived
<1> QED BY <1>16, <1>17 DEF IsAnswer

\* Whatever exclude answers with is a run or a run with groups recomputed.
LEMMA ExcludeIsAnswer ==
    ASSUME NEW plan, IsPlan(plan), Execute(plan, NoExclusion).ok,
           NEW rows \in SUBSET Nat, rows # NoExclusion,
           Exclude(plan, Execute(plan, NoExclusion), rows).ok
    PROVE  IsAnswer(plan, Exclude(plan, Execute(plan, NoExclusion), rows).execution, rows)
<1> DEFINE a == TheAggregate(plan)
           b == Execute(plan, NoExclusion)
           full == Execute(plan, rows)
           x == Exclude(plan, b, rows)
           e == Incremental(plan, b, a, Forward(b.steps, rows, a - 1), Forward(b.steps, rows, a))
<1>1. CASE x = Derived("unchanged", b)
  <2>1. x.execution = b  BY <1>1, DerivedOk
  <2> QED BY <2>1, RunIsAnswer
<1>2. CASE x = Derived("rerun", full)
  <2>1. full.ok /\ x.execution = full  BY <1>2, DerivedOk
  <2> QED BY <2>1, RunIsAnswer
<1>3. CASE /\ x = Derived("incremental", e)
           /\ IncrementalShape(plan) /\ Forward(b.steps, rows, a - 1) # {}
  <2>1. e.ok /\ x.execution = e
    <3> HIDE DEF e
    <3> QED BY <1>3, DerivedOk
  <2>2. IsAnswer(plan, e, rows)
    <3>1. e.ok  BY <2>1
    <3> QED BY <1>3, <3>1, IncrementalIsAnswer
  <2> QED BY <2>1, <2>2
<1> QED BY <1>1, <1>2, <1>3 DEF Exclude


----------------------------------------------------------------------------
(* Traces, in any execution.                                               *)

\* The snapshot rows behind a row are those behind the rows it is made of,
\* and no two rows of a step are made of the same row.
LEMMA TraceStep ==
    ASSUME NEW plan, IsPlan(plan), NEW e, IsExecution(plan, e),
           NEW k \in DOMAIN plan \ {0}, NEW o \in DOMAIN e.tables[k]
    PROVE  /\ MadeOf(e.steps[k], o) \subseteq DOMAIN e.tables[k - 1]
           /\ \A z : z \in SourceRows(e.steps, k, {o}) <=>
                 \E r \in MadeOf(e.steps[k], o) : z \in SourceRows(e.steps, k - 1, {r})
           /\ \A p \in DOMAIN e.tables[k] :
                 MadeOf(e.steps[k], o) \cap MadeOf(e.steps[k], p) # {} => o = p
<1>1. k \in Nat \ {0} /\ k \in DOMAIN plan /\ k - 1 \in DOMAIN plan /\ k - 1 \in Nat
  BY PlanNodes
<1>2. /\ DOMAIN e.tables[k] = 0 .. e.steps[k].len - 1
      /\ DOMAIN e.tables[k - 1] = 0 .. Height(e.tables[k - 1]) - 1
      /\ MapsBelow(e.steps[k], Height(e.tables[k - 1]))
  BY <1>1, TableRows DEF IsExecution, IsStepOn
<1>3. SourceRows(e.steps, k, {o}) = SourceRows(e.steps, k - 1, MadeOf(e.steps[k], o))
  BY <1>1, SourceRowsOf
<1> DEFINE P == MadeOf(e.steps[k], o)
           j == k - 1
<1>4. j \in Nat  BY <1>1
<1>5. SourceRows(e.steps, k, {o}) = SourceRows(e.steps, j, P)  BY <1>3
<1> HIDE DEF P, j
<1>6. \A z : z \in SourceRows(e.steps, j, P) <=> \E r \in P : z \in SourceRows(e.steps, j, {r})
  BY <1>4, SourceRowsEach
<1>7. \A z : z \in SourceRows(e.steps, k, {o}) <=> \E r \in P : z \in SourceRows(e.steps, j, {r})
  BY <1>5, <1>6
<1> QED BY <1>2, <1>7 DEF MapsBelow, P, j

LEMMA TraceScan ==
    ASSUME NEW plan, IsPlan(plan), NEW e, IsExecution(plan, e), NEW o \in DOMAIN e.tables[0]
    PROVE  /\ SourceRows(e.steps, 0, {o}) = MadeOf(e.steps[0], o)
           /\ \A p \in DOMAIN e.tables[0] :
                 MadeOf(e.steps[0], o) \cap MadeOf(e.steps[0], p) # {} => o = p
<1>1. SourceRows(e.steps, 0, {o}) = MadeOf(e.steps[0], o)
  <2>1. SourceRows(e.steps, 0, {o}) = UNION {MadeOf(e.steps[0], r) : r \in {o}}
    BY SourceRowsScan, StepBackMadeOf
  <2> QED BY <2>1
<1>2. DOMAIN e.tables[0] = 0 .. e.steps[0].len - 1
  BY PlanNodes, TableRows DEF IsExecution
<1> QED BY <1>1, <1>2 DEF IsExecution, IsScanOf, MapsBelow

\* No snapshot row is behind two rows of a step.
LEMMA TracesDisjoint ==
    ASSUME NEW plan, IsPlan(plan), NEW e, IsExecution(plan, e), NEW n \in DOMAIN plan,
           NEW o \in DOMAIN e.tables[n], NEW p \in DOMAIN e.tables[n], NEW z,
           z \in SourceRows(e.steps, n, {o}), z \in SourceRows(e.steps, n, {p})
    PROVE  o = p
<1> DEFINE Apart(k) == \A x, y \in DOMAIN e.tables[k] :
                           z \in SourceRows(e.steps, k, {x}) /\ z \in SourceRows(e.steps, k, {y})
                              => x = y
           S == {k \in Nat : k \in DOMAIN plan => Apart(k)}
<1>1. 0 \in S
  <2>1. Apart(0)
    <3> TAKE x, y \in DOMAIN e.tables[0]
    <3> HAVE z \in SourceRows(e.steps, 0, {x}) /\ z \in SourceRows(e.steps, 0, {y})
    <3>1. z \in MadeOf(e.steps[0], x) /\ z \in MadeOf(e.steps[0], y)  BY TraceScan
    <3>2. MadeOf(e.steps[0], x) \cap MadeOf(e.steps[0], y) # {}  BY <3>1
    <3> QED BY <3>2, TraceScan
  <2> HIDE DEF Apart
  <2> QED BY <2>1
<1>2. ASSUME NEW k \in Nat, k \in S PROVE k + 1 \in S
  <2> DEFINE i == k + 1
  <2> SUFFICES ASSUME i \in DOMAIN plan PROVE Apart(i)
    <3> HIDE DEF Apart
    <3> QED OBVIOUS
  <2>1. i \in DOMAIN plan \ {0} /\ i - 1 = k /\ k \in DOMAIN plan  BY PlanNodes
  <2>2. Apart(k)
    <3> HIDE DEF Apart
    <3> QED BY <1>2, <2>1
  <2> HIDE DEF i
  <2> TAKE x, y \in DOMAIN e.tables[i]
  <2> HAVE z \in SourceRows(e.steps, i, {x}) /\ z \in SourceRows(e.steps, i, {y})
  <2>3. PICK r \in MadeOf(e.steps[i], x) : z \in SourceRows(e.steps, k, {r}) /\ r \in DOMAIN e.tables[k]
    <3>1. MadeOf(e.steps[i], x) \subseteq DOMAIN e.tables[i - 1]  BY <2>1, TraceStep
    <3>2. \E r \in MadeOf(e.steps[i], x) : z \in SourceRows(e.steps, i - 1, {r})
      BY <2>1, TraceStep
    <3> QED BY <2>1, <3>1, <3>2
  <2>4. PICK q \in MadeOf(e.steps[i], y) : z \in SourceRows(e.steps, k, {q}) /\ q \in DOMAIN e.tables[k]
    <3>1. MadeOf(e.steps[i], y) \subseteq DOMAIN e.tables[i - 1]  BY <2>1, TraceStep
    <3>2. \E q \in MadeOf(e.steps[i], y) : z \in SourceRows(e.steps, i - 1, {q})
      BY <2>1, TraceStep
    <3> QED BY <2>1, <3>1, <3>2
  <2>5. r = q  BY <2>2, <2>3, <2>4
  <2>6. MadeOf(e.steps[i], x) \cap MadeOf(e.steps[i], y) # {}  BY <2>3, <2>4, <2>5
  <2> QED BY <2>1, <2>6, TraceStep
<1>3. n \in Nat  BY PlanNodes
<1>4. n \in S
  <2> HIDE DEF S
  <2> QED BY <1>1, <1>2, <1>3, SetInduction
<1>5. Apart(n)
  <2> HIDE DEF Apart
  <2> QED BY <1>4
<1> QED BY <1>5

\* A snapshot row behind a row is behind a row of every earlier step.
LEMMA TraceBefore ==
    ASSUME NEW plan, IsPlan(plan), NEW e, IsExecution(plan, e), NEW n \in DOMAIN plan,
           NEW o \in DOMAIN e.tables[n], NEW z, z \in SourceRows(e.steps, n, {o}),
           NEW i \in 0 .. n
    PROVE  \E r \in DOMAIN e.tables[i] : z \in SourceRows(e.steps, i, {r})
<1> DEFINE There(k) == \E r \in DOMAIN e.tables[k] : z \in SourceRows(e.steps, k, {r})
           S == {k \in Nat : k <= n => There(n - k)}
<1>0. n \in Nat /\ DOMAIN plan = 0 .. OutputNode(plan) /\ OutputNode(plan) \in Nat  BY PlanNodes
<1>1. 0 \in S
  <2>1. There(n)  OBVIOUS
  <2> HIDE DEF There
  <2>2. n - 0 = n  BY <1>0
  <2> QED BY <2>1, <2>2
<1>2. ASSUME NEW k \in Nat, k \in S PROVE k + 1 \in S
  <2> SUFFICES ASSUME k + 1 <= n PROVE There(n - (k + 1))
    <3> HIDE DEF There
    <3> QED OBVIOUS
  <2> DEFINE j == n - k
  <2>1. j \in DOMAIN plan \ {0} /\ j - 1 = n - (k + 1) /\ k <= n  BY <1>0
  <2>2. There(j)
    <3> HIDE DEF There
    <3> QED BY <1>2, <2>1
  <2> HIDE DEF j
  <2>3. PICK r \in DOMAIN e.tables[j] : z \in SourceRows(e.steps, j, {r})  BY <2>2
  <2>4. \E q \in DOMAIN e.tables[j - 1] : z \in SourceRows(e.steps, j - 1, {q})
    <3>1. MadeOf(e.steps[j], r) \subseteq DOMAIN e.tables[j - 1]  BY <2>1, <2>3, TraceStep
    <3>2. \E q \in MadeOf(e.steps[j], r) : z \in SourceRows(e.steps, j - 1, {q})
      BY <2>1, <2>3, TraceStep
    <3> QED BY <3>1, <3>2
  <2> QED BY <2>1, <2>4
<1>3. \A k \in Nat : k \in S
  <2> HIDE DEF S
  <2> QED BY <1>1, <1>2, SetInduction
<1>4. There(i)
  <2>1. n - i \in Nat /\ n - i <= n /\ n - (n - i) = i  BY <1>0
  <2>2. n - i \in S  BY <1>3, <2>1
  <2> HIDE DEF There
  <2> QED BY <2>1, <2>2
<1> QED BY <1>4

\* A run without some rows has none of them behind its rows.
LEMMA FullTraces ==
    ASSUME NEW plan, IsPlan(plan), NEW rows, rows # NoExclusion, Execute(plan, rows).ok,
           NEW n \in DOMAIN plan, NEW o \in DOMAIN Execute(plan, rows).tables[n],
           NEW z, z \in SourceRows(Execute(plan, rows).steps, n, {o})
    PROVE  z \notin rows
<1> DEFINE e == Execute(plan, rows)
           K == Scanned(plan, rows)
           r == Scan(plan[0], rows)
<1>1. IsExecution(plan, e)  BY ExecutionTyped
<1>2. e.steps[0] = r.lineage /\ e.tables[0] = r.table  BY ExecutionSteps
<1>3. /\ K \in SUBSET Int /\ IsFiniteSet(K) /\ r.table = Gather(Snapshot[plan[0].snapshot], Ascending(K))
      /\ \A i \in 0 .. Cardinality(K) - 1 : MadeOf(r.lineage, i) = {Ascending(K)[i]}
  <2> HIDE DEF r, K
  <2>1. LET t == Snapshot[plan[0].snapshot]
        IN  /\ K \in SUBSET Int /\ IsFiniteSet(K)
            /\ r.table = Gather(t, Ascending(K))
            /\ \A i \in 0 .. Cardinality(K) - 1 : MadeOf(r.lineage, i) = {Ascending(K)[i]}
    BY ScanTyped DEF r, K
  <2> QED BY <2>1
<1> HIDE DEF e, r
<1>4. 0 \in 0 .. n  BY PlanNodes
<1>5. z \in SourceRows(e.steps, n, {o}) /\ o \in DOMAIN e.tables[n]  BY DEF e
<1>6. PICK x \in DOMAIN e.tables[0] : z \in SourceRows(e.steps, 0, {x})
  BY <1>1, <1>4, <1>5, TraceBefore
<1>7. z \in MadeOf(r.lineage, x)  BY <1>1, <1>2, <1>6, TraceScan
<1>8. z \in K
  <2> HIDE DEF K
  <2>1. DOMAIN e.tables[0] = 0 .. Cardinality(K) - 1 /\ Ascending(K) \in [0 .. Cardinality(K) - 1 -> K]
    BY <1>2, <1>3, AscendingGrows DEF Gather
  <2> QED BY <1>3, <1>6, <1>7, <2>1
<1> QED BY <1>8 DEF Scanned


----------------------------------------------------------------------------
(* Where one snapshot row goes, and what is said of it.                    *)

\* Every kept execution is an answer of exclude, and no excluded row is behind
\* what it shows.
LEMMA LiveAnswers ==
    ASSUME NEW live, IsLive(live)
    PROVE  /\ IsPlan(live.plan) /\ live.excluded \in SUBSET Nat
           /\ IsAnswer(live.plan, live.execution, live.excluded)
           /\ \A o \in DOMAIN live.execution.tables[OutputNode(live.plan)] :
              \A z \in SourceRows(live.execution.steps, OutputNode(live.plan), {o}) :
                 z \notin live.excluded
<1> DEFINE plan == live.plan
           rows == live.excluded
           e == live.execution
           n == OutputNode(plan)
           full == Execute(plan, rows)
           x == Exclude(plan, Execute(plan, NoExclusion), rows)
<1>1. /\ IsPlan(plan) /\ Execute(plan, NoExclusion).ok
      /\ rows \in SUBSET Nat /\ rows # NoExclusion
      /\ x.ok /\ e = x.execution
  BY EngineAssumption DEF IsLive
<1> HIDE DEF plan, rows, e
<1>2. IsAnswer(plan, e, rows)  BY <1>1, ExcludeIsAnswer
<1>3. n \in Shown(plan)
  <2>1. n \in Nat /\ DOMAIN plan = 0 .. n  BY <1>1, PlanNodes
  <2>2. CASE IncrementalShape(plan)
    <3>1. TheAggregate(plan) \in DOMAIN plan /\ TheAggregate(plan) \in Nat
      BY <1>1, <2>2, AggregateStep
    <3> QED BY <2>1, <2>2, <3>1 DEF Shown
  <2>3. CASE ~ IncrementalShape(plan)  BY <2>1, <2>3 DEF Shown
  <2> QED BY <2>2, <2>3
<1>4. full.ok /\ SameAt(e, full, n)
  <2>1. AnswersAs(plan, x, full)  BY <1>1, ExcludeIsFullRun
  <2> HIDE DEF full, x, n
  <2> QED BY <1>1, <1>3, <2>1 DEF AnswersAs
<1>5. ASSUME NEW o \in DOMAIN e.tables[n], NEW z \in SourceRows(e.steps, n, {o})
      PROVE  z \notin rows
  <2>1. o \in DOMAIN full.tables[n] /\ z \in SourceRows(full.steps, n, {o})
    BY <1>4, <1>5 DEF SameAt
  <2>2. n \in DOMAIN plan  BY <1>1, PlanNodes
  <2> QED BY <1>1, <1>4, <2>1, <2>2, FullTraces
<1> QED BY <1>1, <1>2, <1>5 DEF plan, rows, e

LEMMA WentRows ==
    ASSUME NEW live, IsPlan(live.plan), IsExecution(live.plan, live.execution),
           NEW row \in Nat, NEW i \in DOMAIN live.plan, NEW o
    PROVE  o \in Went(live, row, i) <=> /\ o \in DOMAIN live.execution.tables[i]
                                        /\ row \in SourceRows(live.execution.steps, i, {o})
<1> DEFINE e == live.execution
           R == {row}
<1>1. o \in Forward(e.steps, R, i) <=> o \in DOMAIN e.tables[i] /\ SourceRows(e.steps, i, {o}) \cap R # {}
  <2> HIDE DEF e
  <2>1. IsExecution(live.plan, e) /\ R \in SUBSET Nat  BY DEF e
  <2> HIDE DEF R
  <2> QED BY <2>1, ForwardRows
<1>2. SourceRows(e.steps, i, {o}) \cap R # {} <=> row \in SourceRows(e.steps, i, {o})
  OBVIOUS
<1> QED BY <1>1, <1>2 DEF Went

LEMMA WentOne ==
    ASSUME NEW live, IsPlan(live.plan), IsExecution(live.plan, live.execution),
           NEW row \in Nat, NEW i \in DOMAIN live.plan, NEW o \in Went(live, row, i)
    PROVE  o = TheRow(Went(live, row, i))
<1>1. /\ o \in DOMAIN live.execution.tables[i]
      /\ row \in SourceRows(live.execution.steps, i, {o})
  BY WentRows
<1>2. \A p \in Went(live, row, i) : p = o  BY <1>1, WentRows, TracesDisjoint
<1>3. o \in Nat  BY <1>1, TableRows DEF IsExecution
<1>4. \E r \in Went(live, row, i) : \A x \in Went(live, row, i) : r <= x
  BY <1>2, <1>3
<1> DEFINE W == Went(live, row, i)
<1>5. TheRow(W) \in W
  <2> HIDE DEF W
  <2> QED BY <1>4 DEF TheRow, W
<1> QED BY <1>2, <1>5

\* The two directions of a trace agree.
LEMMA TraceAnswers ==
    ASSUME NEW live, IsLive(live), NEW row \in DOMAIN Snapshot[live.plan[0].snapshot],
           NEW o \in DOMAIN live.execution.tables[OutputNode(live.plan)]
    PROVE  LET answer == ForwardAnswer(live, row)
           IN  row \in SourceRows(live.execution.steps, OutputNode(live.plan), {o})
                  <=> answer.reaches /\ answer.output_row = o
<1> DEFINE e == live.execution
           n == OutputNode(live.plan)
           answer == ForwardAnswer(live, row)
           drops == {i \in 0 .. n : Went(live, row, i) = {}}
<1>1. IsPlan(live.plan) /\ IsExecution(live.plan, e)  BY LiveAnswers DEF IsAnswer
<1>2. row \in Nat  BY <1>1, ExecAssumption, TableRows DEF IsPlan
<1>3. n \in DOMAIN live.plan /\ DOMAIN live.plan = 0 .. n /\ n \in Nat  BY <1>1, PlanNodes
<1>4. CASE row \in live.excluded
  <2>1. ~ answer.reaches  BY <1>4 DEF ForwardAnswer
  <2>2. row \notin SourceRows(e.steps, n, {o})  BY <1>4, LiveAnswers
  <2> QED BY <2>1, <2>2
<1>5. CASE row \notin live.excluded /\ drops = {}
  <2>1. answer.reaches /\ answer.output_row = TheRow(Went(live, row, n))
    BY <1>5 DEF ForwardAnswer
  <2>2. PICK p : p \in Went(live, row, n)  BY <1>3, <1>5
  <2>3. p = TheRow(Went(live, row, n))  BY <1>1, <1>2, <1>3, <2>2, WentOne
  <2>4. o \in Went(live, row, n) <=> row \in SourceRows(e.steps, n, {o})
    BY <1>1, <1>2, <1>3, WentRows
  <2>5. o \in Went(live, row, n) => o = TheRow(Went(live, row, n))
    BY <1>1, <1>2, <1>3, WentOne
  <2> HIDE DEF answer, e, n
  <2>6. row \in SourceRows(e.steps, n, {o}) <=> answer.reaches /\ answer.output_row = o
    BY <2>1, <2>2, <2>3, <2>4, <2>5
  <2> QED BY <2>6 DEF answer, e, n
<1>6. CASE row \notin live.excluded /\ drops # {}
  <2>1. ~ answer.reaches  BY <1>6 DEF ForwardAnswer
  <2>2. PICK i \in 0 .. n : Went(live, row, i) = {}  BY <1>6
  <2>3. ASSUME row \in SourceRows(e.steps, n, {o}) PROVE FALSE
    <3>1. PICK r \in DOMAIN e.tables[i] : row \in SourceRows(e.steps, i, {r})
      BY <1>1, <1>3, <2>2, <2>3, TraceBefore
    <3>2. r \in Went(live, row, i)  BY <1>1, <1>2, <1>3, <3>1, WentRows
    <3> QED BY <2>2, <3>2
  <2> QED BY <2>1, <2>3
<1> QED BY <1>4, <1>5, <1>6

\* In every kept execution a snapshot row is said to reach an output row
\* exactly if that row's trace names it (Engine::trace_forward, trace_back).
THEOREM TracesAlwaysAgree == Spec => []TracesAgree
<1>1. EngineInvariant => TracesAgree
  <2> SUFFICES ASSUME EngineInvariant, NEW id \in DOMAIN executions,
                      NEW row \in DOMAIN Snapshot[executions[id].plan[0].snapshot],
                      NEW o \in DOMAIN executions[id].execution.tables[OutputNode(executions[id].plan)]
               PROVE  LET live == executions[id]
                          answer == ForwardAnswer(live, row)
                      IN  row \in SourceRows(live.execution.steps, OutputNode(live.plan), {o})
                             <=> answer.reaches /\ answer.output_row = o
    BY DEF TracesAgree
  <2>1. IsLive(executions[id])  BY DEF EngineInvariant
  <2> QED BY <2>1, TraceAnswers
<1> QED BY <1>1, EngineInvariantHolds, PTL


----------------------------------------------------------------------------
(* Why a row stops.                                                        *)

\* Row x of a step's input is behind a row of what the step makes.
GoesOn(r, x) == \E o \in DOMAIN r.table : x \in MadeOf(r.lineage, o)

LEMMA TakesOn ==
    ASSUME NEW r, NEW t, IsTable(t), NEW f, NEW m, Takes(r, t, f, m),
           NEW x, \E i \in 0 .. m - 1 : f[i] = x
    PROVE  GoesOn(r, x)
<1>1. DOMAIN r.table = 0 .. m - 1  BY GatherTable DEF Takes
<1> QED BY <1>1 DEF GoesOn, Takes

\* Only a filter whose condition does not hold and a limit drop a row.
LEMMA StepKeeps ==
    ASSUME NEW op, IsStep(op), NEW t, IsTable(t), RunStep(op, t).ok, NEW x \in DOMAIN t
    PROVE  \/ GoesOn(RunStep(op, t), x)
           \/ op.op = "filter" /\ ~ Holds(op, t[x])
           \/ op.op = "limit" /\ ~ x < op.count
<1>1. CASE op.op = "map"
  <2>1. DOMAIN Map(t).table = DOMAIN t /\ Map(t).lineage = Identity(Height(t))  BY MapTyped
  <2>2. MadeOf(Map(t).lineage, x) = {x}  BY <2>1 DEF MadeOf, Identity
  <2>3. GoesOn(Map(t), x)  BY <2>1, <2>2 DEF GoesOn
  <2> QED BY <1>1, <2>3 DEF RunStep
<1>2. CASE op.op = "project"
  <2>1. Project(t).table = t /\ Project(t).lineage = Identity(Height(t))  BY ProjectTyped
  <2>2. MadeOf(Project(t).lineage, x) = {x}  BY <2>1 DEF MadeOf, Identity
  <2>3. GoesOn(Project(t), x)  BY <2>1, <2>2 DEF GoesOn
  <2> QED BY <1>2, <2>3 DEF RunStep
<1>3. CASE op.op = "filter" /\ Holds(op, t[x])
  <2> DEFINE P == Passing(op, t)
             f == Ascending(P)
  <2>1. x \in P  BY <1>3 DEF Passing
  <2>2. P \in SUBSET Int /\ IsFiniteSet(P)
    <3>1. P \subseteq DOMAIN t  BY DEF Passing
    <3>2. DOMAIN t \subseteq Int /\ IsFiniteSet(DOMAIN t)  BY TableRows
    <3> HIDE DEF P
    <3> QED BY <3>1, <3>2, FS_Subset
  <2>3. Takes(Filter(op, t), t, f, Cardinality(P))  BY FilterTakes
  <2> HIDE DEF P
  <2>4. \E i \in 0 .. Cardinality(P) - 1 : f[i] = x  BY <2>1, <2>2, AscendingGrows
  <2> HIDE DEF f
  <2>5. GoesOn(Filter(op, t), x)  BY <2>3, <2>4, TakesOn
  <2> QED BY <1>3, <2>5 DEF RunStep
<1>4. CASE op.op = "sort"
  <2> DEFINE f == SortPermutation(op, t)
  <2>1. Takes(Sort(op, t), t, f, Height(t)) /\ Lists(f, Height(t), DOMAIN t, SortOrder(op, t))
    BY <1>4, SortTakes
  <2> HIDE DEF f
  <2>2. \E i \in 0 .. Height(t) - 1 : f[i] = x  BY <2>1 DEF Lists
  <2>3. GoesOn(Sort(op, t), x)  BY <2>1, <2>2, TakesOn
  <2> QED BY <1>4, <2>3 DEF RunStep
<1>5. CASE op.op = "limit" /\ x < op.count
  <2> DEFINE n == IF op.count < Height(t) THEN op.count ELSE Height(t)
  <2>1. op.count \in Nat  BY <1>5 DEF IsStep
  <2>2. n \in Nat /\ x \in 0 .. n - 1  BY <1>5, <2>1, TableRows
  <2>3. Limit(op, t) = Done([r \in 0 .. n - 1 |-> t[r]], Identity(n))  BY DEF Limit
  <2> HIDE DEF n
  <2>4. DOMAIN Limit(op, t).table = 0 .. n - 1 /\ MadeOf(Limit(op, t).lineage, x) = {x}
    BY <2>3 DEF Done, Identity, MadeOf
  <2>5. GoesOn(Limit(op, t), x)  BY <2>2, <2>4 DEF GoesOn
  <2> QED BY <1>5, <2>5 DEF RunStep
<1>6. CASE op.op = "aggregate"
  <2> DEFINE G == GroupKeys(op, t)
             keys == Ascending(G)
             r == Aggregate(op, t)
  <2>1. r.ok /\ RunStep(op, t) = r  BY <1>6 DEF RunStep
  <2>2. Lists(keys, Cardinality(G), G, Less)  BY <1>6, GroupKeysInOrder
  <2>3. PICK g \in G : x \in Members(op, t, g)
    <3>1. CASE op.grouped  BY <3>1 DEF GroupKeys, Members
    <3>2. CASE ~ op.grouped  BY <3>2 DEF GroupKeys, Members
    <3> QED BY <1>6, <3>1, <3>2 DEF IsStep
  <2>4. DOMAIN keys = 0 .. Cardinality(G) - 1 /\ \E i \in DOMAIN keys : keys[i] = g
    <3> HIDE DEF keys, G
    <3> QED BY <2>2, <2>3 DEF Lists
  <2>5. PICK i \in DOMAIN keys : keys[i] = g  BY <2>4
  <2>6. /\ DOMAIN r.table = DOMAIN keys
        /\ MadeOf(r.lineage, i) = Members(op, t, keys[i])
    <3>1. /\ r.table = [j \in DOMAIN keys |-> GroupRow(op, t, keys[j])]
          /\ r.lineage.kind = "Group"
          /\ r.lineage.members = [j \in DOMAIN keys |-> Members(op, t, keys[j])]
      BY <2>1, Aggregated
    <3> HIDE DEF r, keys
    <3> QED BY <2>5, <3>1 DEF MadeOf
  <2>7. GoesOn(r, x)
    <3> HIDE DEF r, keys
    <3> QED BY <2>3, <2>5, <2>6 DEF GoesOn
  <2> QED BY <2>1, <2>7
<1> QED BY <1>1, <1>2, <1>3, <1>4, <1>5, <1>6 DEF IsStep

\* A scan keeps every row it is not asked to leave out.
LEMMA ScanKeeps ==
    ASSUME NEW plan, IsPlan(plan), NEW e, IsExecution(plan, e), NEW rows,
           NEW ex \in {NoExclusion, rows}, Scans(plan, e, ex),
           NEW row \in DOMAIN Snapshot[plan[0].snapshot], row \notin rows
    PROVE  \E o \in DOMAIN e.tables[0] : row \in SourceRows(e.steps, 0, {o})
<1> DEFINE r == Scan(plan[0], ex)
<1>1. e.tables[0] = r.table /\ e.steps[0] = r.lineage  BY DEF Scans
<1>2. \E o \in DOMAIN r.table : row \in MadeOf(r.lineage, o)
  <2>1. CASE ex = NoExclusion
    <3>1. LET s == Scan(plan[0], NoExclusion)
          IN  s.table = Snapshot[plan[0].snapshot] /\ \A i : MadeOf(s.lineage, i) = {i}
      BY ScanAll
    <3> QED BY <2>1, <3>1
  <2>2. CASE ex # NoExclusion
    <3> DEFINE K == Scanned(plan, ex)
    <3>1. row \in K  BY <2>2 DEF Scanned
    <3> HIDE DEF r, K
    <3>2. LET t == Snapshot[plan[0].snapshot]
          IN  /\ K \in SUBSET Int /\ IsFiniteSet(K)
              /\ r.table = Gather(t, Ascending(K))
              /\ \A i \in 0 .. Cardinality(K) - 1 : MadeOf(r.lineage, i) = {Ascending(K)[i]}
      BY <2>2, ScanTyped DEF r, K
    <3>3. /\ \E i \in 0 .. Cardinality(K) - 1 : Ascending(K)[i] = row
          /\ DOMAIN r.table = 0 .. Cardinality(K) - 1
      BY <3>1, <3>2, AscendingGrows DEF Gather
    <3> QED BY <3>2, <3>3
  <2> QED BY <2>1, <2>2
<1> HIDE DEF r
<1>3. PICK o \in DOMAIN e.tables[0] : row \in MadeOf(e.steps[0], o)  BY <1>1, <1>2
<1>4. SourceRows(e.steps, 0, {o}) = MadeOf(e.steps[0], o)  BY TraceScan
<1> QED BY <1>3, <1>4

\* Steps that keep rows apart make each row of one.
OfOne(r) == \A o \in DOMAIN r.table : \E q : MadeOf(r.lineage, o) = {q}

LEMMA StepOfOne ==
    ASSUME NEW op, IsStep(op), KeepsRows(op), NEW t, IsTable(t)
    PROVE  OfOne(RunStep(op, t))
<1> SUFFICES ASSUME NEW o \in DOMAIN RunStep(op, t).table
             PROVE  \E q : MadeOf(RunStep(op, t).lineage, o) = {q}
  BY DEF OfOne
<1>1. CASE op.op = "map"
  <2>1. Map(t).lineage = Identity(Height(t))  BY MapTyped
  <2>2. MadeOf(Map(t).lineage, o) = {o}  BY <2>1 DEF MadeOf, Identity
  <2> QED BY <1>1, <2>2 DEF RunStep
<1>2. CASE op.op = "project"
  <2>1. Project(t).lineage = Identity(Height(t))  BY ProjectTyped
  <2>2. MadeOf(Project(t).lineage, o) = {o}  BY <2>1 DEF MadeOf, Identity
  <2> QED BY <1>2, <2>2 DEF RunStep
<1>3. ASSUME NEW r, NEW f, NEW m, Takes(r, t, f, m), o \in DOMAIN r.table
      PROVE  \E q : MadeOf(r.lineage, o) = {q}
  <2>1. DOMAIN r.table = 0 .. m - 1  BY <1>3, GatherTable DEF Takes
  <2> QED BY <1>3, <2>1 DEF Takes
<1>4. CASE op.op = "filter"
  <2>1. RunStep(op, t) = Filter(op, t)  BY <1>4 DEF RunStep
  <2> QED BY <1>3, <2>1, FilterTakes
<1>5. CASE op.op = "sort"
  <2>1. RunStep(op, t) = Sort(op, t)  BY <1>5 DEF RunStep
  <2> QED BY <1>3, <1>5, <2>1, SortTakes
<1> QED BY <1>1, <1>2, <1>4, <1>5 DEF KeepsRows

LEMMA OneSource ==
    ASSUME NEW plan, IsPlan(plan), NEW e, IsExecution(plan, e), Scans(plan, e, NoExclusion),
           NEW m \in DOMAIN plan, \A i \in 1 .. m : KeepsRows(plan[i]) /\ Follows(plan, e, i),
           NEW o \in DOMAIN e.tables[m],
           NEW y \in SourceRows(e.steps, m, {o}), NEW z \in SourceRows(e.steps, m, {o})
    PROVE  y = z
<1> DEFINE One(k) == \A r \in DOMAIN e.tables[k] :
                        \A u, v \in SourceRows(e.steps, k, {r}) : u = v
           S == {k \in Nat : k <= m => One(k)}
<1>0. m \in Nat /\ \A i \in 1 .. m : i \in DOMAIN plan \ {0} /\ i - 1 \in DOMAIN plan
  BY PlanNodes
<1>1. 0 \in S
  <2>1. LET s == Scan(plan[0], NoExclusion) IN \A i : MadeOf(s.lineage, i) = {i}  BY ScanAll
  <2>2. \A r \in DOMAIN e.tables[0] : SourceRows(e.steps, 0, {r}) = {r}
    BY <2>1, TraceScan DEF Scans
  <2>3. One(0)  BY <2>2
  <2> HIDE DEF One
  <2> QED BY <2>3
<1>2. ASSUME NEW k \in Nat, k \in S PROVE k + 1 \in S
  <2> DEFINE i == k + 1
  <2> SUFFICES ASSUME i <= m PROVE One(i)
    <3> HIDE DEF One
    <3> QED OBVIOUS
  <2>1. i \in 1 .. m /\ i - 1 = k /\ i \in DOMAIN plan \ {0} /\ k \in DOMAIN plan /\ k <= m
    BY <1>0
  <2>2. One(k)
    <3> HIDE DEF One
    <3> QED BY <1>2, <2>1
  <2> HIDE DEF i
  <2> TAKE r \in DOMAIN e.tables[i]
  <2> TAKE u, v \in SourceRows(e.steps, i, {r})
  <2>3. \E q : MadeOf(e.steps[i], r) = {q}
    <3> DEFINE op == plan[i]
               t == e.tables[i - 1]
    <3>1. /\ IsStep(op) /\ KeepsRows(op) /\ IsTable(t)
          /\ RunStep(op, t).table = e.tables[i] /\ RunStep(op, t).lineage = e.steps[i]
      BY <2>1 DEF IsPlan, IsExecution, Follows
    <3>2. r \in DOMAIN RunStep(op, t).table  BY <3>1
    <3> HIDE DEF op, t
    <3>3. OfOne(RunStep(op, t))  BY <3>1, StepOfOne
    <3> QED BY <3>1, <3>2, <3>3 DEF OfOne
  <2>4. PICK q : MadeOf(e.steps[i], r) = {q}  BY <2>3
  <2>5. \A w \in SourceRows(e.steps, i, {r}) :
           \E p \in MadeOf(e.steps[i], r) : w \in SourceRows(e.steps, i - 1, {p})
    BY <2>1, TraceStep
  <2>6. MadeOf(e.steps[i], r) \subseteq DOMAIN e.tables[i - 1]  BY <2>1, TraceStep
  <2>7. /\ q \in DOMAIN e.tables[k]
        /\ u \in SourceRows(e.steps, k, {q}) /\ v \in SourceRows(e.steps, k, {q})
    BY <2>1, <2>4, <2>5, <2>6
  <2> QED BY <2>2, <2>7
<1>3. m \in S
  <2> HIDE DEF S
  <2> QED BY <1>0, <1>1, <1>2, SetInduction
<1>4. One(m)
  <2> HIDE DEF One
  <2> QED BY <1>0, <1>3
<1> QED BY <1>4

\* A row that stops stops at a filter that does not hold for it, or past a
\* limit, unless it was left out.
LEMMA StopIsExplained ==
    ASSUME NEW live, IsLive(live), NEW row \in DOMAIN Snapshot[live.plan[0].snapshot],
           ~ ForwardAnswer(live, row).reaches
    PROVE  LET answer == ForwardAnswer(live, row)
           IN  /\ answer.reason \in {"excluded", "filter", "limit"}
               /\ answer.reason = "excluded" <=> row \in live.excluded
<1> DEFINE plan == live.plan
           e == live.execution
           rows == live.excluded
           n == OutputNode(plan)
           answer == ForwardAnswer(live, row)
           drops == {i \in 0 .. n : Went(live, row, i) = {}}
<1>1. IsPlan(plan) /\ IsAnswer(plan, e, rows) /\ IsExecution(plan, e)
  BY LiveAnswers DEF IsAnswer
<1>2. row \in Nat  BY <1>1, ExecAssumption, TableRows DEF IsPlan
<1>3. DOMAIN plan = 0 .. n /\ n \in Nat /\ 0 \in DOMAIN plan  BY <1>1, PlanNodes
<1>4. CASE row \in rows
  <2>1. answer.reason = "excluded"  BY <1>4 DEF ForwardAnswer
  <2> QED BY <1>4, <2>1
<1>5. CASE row \notin rows /\ drops = {}
  <2>1. answer.reaches  BY <1>5 DEF ForwardAnswer
  <2> QED BY <2>1
<1>6. CASE row \notin rows /\ drops # {}
  <2> DEFINE step == CHOOSE i \in drops : \A j \in drops : i <= j
             at == TheRow(Went(live, row, step - 1))
             t == e.tables[step - 1]
  <2>1. step \in drops /\ \A j \in drops : step <= j
    <3>1. drops \in SUBSET Nat  BY <1>3
    <3> HIDE DEF drops
    <3>2. \E i \in drops : \A j \in drops : i <= j  BY <1>6, <3>1, LeastElement
    <3> QED BY <3>2
  <2>2. answer.reason = Reason(live, step, IF step = 0 THEN row ELSE at)
    <3> HIDE DEF step
    <3> QED BY <1>6 DEF ForwardAnswer, step
  <2> HIDE DEF step
  <2>3. step \in 0 .. n /\ Went(live, row, step) = {}  BY <2>1
  <2>4. step # 0
    <3>1. \E ex \in {NoExclusion, rows} : Scans(plan, e, ex)
      BY <1>1 DEF IsAnswer, Rederived
    <3>2. PICK o \in DOMAIN e.tables[0] : row \in SourceRows(e.steps, 0, {o})
      BY <1>1, <1>6, <3>1, ScanKeeps
    <3>3. o \in Went(live, row, 0)  BY <1>1, <1>2, <1>3, <3>2, WentRows
    <3> QED BY <2>3, <3>3
  <2>5. step - 1 \in 0 .. n /\ step - 1 < step /\ step \in DOMAIN plan \ {0} /\ step - 1 \in DOMAIN plan
    BY <1>3, <2>3, <2>4
  <2>6. Went(live, row, step - 1) # {}
    <3>1. step - 1 \notin drops  BY <2>1, <2>3, <2>5
    <3> QED BY <2>5, <3>1
  <2>7. PICK p : p \in Went(live, row, step - 1)  BY <2>6
  <2>8. at \in DOMAIN t /\ row \in SourceRows(e.steps, step - 1, {at})
    <3> DEFINE j == step - 1
    <3>1. j \in DOMAIN plan  BY <2>5
    <3>2. p \in Went(live, row, j)  BY <2>7
    <3> HIDE DEF j
    <3>3. p = TheRow(Went(live, row, j))  BY <1>1, <1>2, <3>1, <3>2, WentOne
    <3>4. p \in DOMAIN e.tables[j] /\ row \in SourceRows(e.steps, j, {p})
      BY <1>1, <1>2, <3>1, <3>2, WentRows
    <3> QED BY <3>3, <3>4 DEF j
  <2> HIDE DEF at
  <2>9. \A o \in DOMAIN e.tables[step] : at \notin MadeOf(e.steps[step], o)
    <3> SUFFICES ASSUME NEW o \in DOMAIN e.tables[step], at \in MadeOf(e.steps[step], o)
                 PROVE  FALSE
      OBVIOUS
    <3>1. row \in SourceRows(e.steps, step, {o})  BY <1>1, <2>5, <2>8, TraceStep
    <3>2. o \in Went(live, row, step)  BY <1>1, <1>2, <2>5, <3>1, WentRows
    <3> QED BY <2>3, <3>2
  <2> DEFINE op == plan[step]
  <2>10. IsStep(op) /\ IsTable(t)  BY <1>1, <2>5 DEF IsPlan, IsExecution
  <2>11. \/ op.op = "filter" /\ ~ Holds(op, t[at])
         \/ op.op = "limit" /\ ~ at < op.count
    <3>1. CASE Follows(plan, e, step)
      <4>1. /\ RunStep(op, t).ok
            /\ RunStep(op, t).table = e.tables[step] /\ RunStep(op, t).lineage = e.steps[step]
        BY <3>1 DEF Follows
      <4>2. ~ GoesOn(RunStep(op, t), at)  BY <2>9, <4>1 DEF GoesOn
      <4> HIDE DEF op, t
      <4> QED BY <2>8, <2>10, <4>1, <4>2, StepKeeps
    <3>2. CASE Rederived(plan, e, rows) /\ step = TheAggregate(plan)
      <4> DEFINE r == [table |-> e.tables[step], lineage |-> e.steps[step]]
                 K == Kept(e, rows, step - 1)
      <4>1. /\ op.op = "aggregate" /\ \A i \in 1 .. step - 1 : KeepsRows(plan[i])
            /\ Scans(plan, e, NoExclusion)
            /\ \A i \in DOMAIN plan \ {0} : i # step => Follows(plan, e, i)
            /\ IsAggregateIn(r, op, t, K)
        BY <1>1, <3>2, AggregateStep DEF Rederived
      <4>2. \A i \in 1 .. step - 1 : KeepsRows(plan[i]) /\ Follows(plan, e, i)
        <5>1. \A i \in 1 .. step - 1 : i \in DOMAIN plan \ {0} /\ i # step  BY <1>3, <2>3
        <5> QED BY <4>1, <5>1
      <4>3. \A z \in SourceRows(e.steps, step - 1, {at}) : z = row
        <5> DEFINE j == step - 1
        <5>1. /\ j \in DOMAIN plan /\ \A i \in 1 .. j : KeepsRows(plan[i]) /\ Follows(plan, e, i)
              /\ at \in DOMAIN e.tables[j] /\ row \in SourceRows(e.steps, j, {at})
          BY <2>5, <2>8, <4>2
        <5> HIDE DEF j
        <5>2. \A z \in SourceRows(e.steps, j, {at}) : z = row
          BY <1>1, <4>1, <5>1, OneSource
        <5> QED BY <5>2 DEF j
      <4>4. at \in K  BY <1>6, <2>8, <4>3 DEF Kept
      <4>5. K \in SUBSET DOMAIN t  BY DEF Kept
      <4>6. r.table = e.tables[step] /\ r.lineage = e.steps[step]  OBVIOUS
      <4> HIDE DEF op, t, K, r
      <4>7. \E i \in DOMAIN r.table : at \in MadeOf(r.lineage, i)
        BY <2>10, <4>1, <4>4, <4>5, LeftTyped
      <4> QED BY <2>9, <4>6, <4>7
    <3> QED BY <1>1, <2>5, <3>1, <3>2 DEF IsAnswer, Rederived
  <2>12. answer.reason = Reason(live, step, at)  BY <2>2, <2>4
  <2>13. answer.reason \in {"filter", "limit"}
    BY <2>11, <2>12 DEF Reason
  <2> QED BY <1>6, <2>13
<1> QED BY <1>4, <1>5, <1>6

\* A row that stops is told a reason that is true of it (trace_forward).
THEOREM StopsAreAlwaysExplained == Spec => []StopsAreExplained
<1>1. EngineInvariant => StopsAreExplained
  <2> SUFFICES ASSUME EngineInvariant, NEW id \in DOMAIN executions,
                      NEW row \in DOMAIN Snapshot[executions[id].plan[0].snapshot],
                      ~ ForwardAnswer(executions[id], row).reaches
               PROVE  LET answer == ForwardAnswer(executions[id], row)
                      IN  /\ answer.reason \in {"excluded", "filter", "limit"}
                          /\ answer.reason = "excluded" <=> row \in wanted[id]
    BY DEF StopsAreExplained
  <2>1. IsLive(executions[id]) /\ wanted[id] = executions[id].excluded
    BY DEF EngineInvariant
  <2> QED BY <2>1, StopIsExplained
<1> QED BY <1>1, EngineInvariantHolds, PTL

(***************************************************************************)
(* Leave-one-out values.                                                   *)
(***************************************************************************)

----------------------------------------------------------------------------
(* The numbers of a group without one of its rows.                         *)

LEMMA TotalIsSum ==
    ASSUME NEW s, IsFiniteSet(DOMAIN s)
    PROVE  \E f : Sums(s, DOMAIN s, f) /\ Total(s) = f[DOMAIN s]
<1>1. Total(s) = (CHOOSE f : Sums(s, DOMAIN s, f))[DOMAIN s]
  BY DEF Total, MapThenSumSet, MapThenFoldSet, Sums, SumOver
<1>2. \E f : Sums(s, DOMAIN s, f)  BY SumsExist
<1>3. Sums(s, DOMAIN s, CHOOSE f : Sums(s, DOMAIN s, f))  BY <1>2
<1> QED BY <1>1, <1>3

\* Without a row the ascending list of the rows skips its place.
LEMMA NumbersWithout ==
    ASSUME NEW t, IsTable(t), NEW M \in SUBSET DOMAIN t, NEW x \in Present(t, M)
    PROVE  \E r \in DOMAIN Numbers(t, M) :
              /\ DOMAIN Numbers(t, M) = 0 .. Cardinality(Present(t, M)) - 1
              /\ Numbers(t, M)[r] = t[x].n
              /\ Numbers(t, M \ {x}) = Skip(Numbers(t, M), Cardinality(Present(t, M)), r)
<1> DEFINE P == Present(t, M)
           a == Ascending(P)
           p == Cardinality(P)
           b == Ascending(P \ {x})
<1>1. P \in SUBSET Int /\ IsFiniteSet(P) /\ p \in Nat  BY PresentRows
<1>2. Lists(a, p, P, Less) /\ Asymmetric(Less, P)
  <2> HIDE DEF P
  <2> QED BY <1>1, AscendingLists, LessOrders DEF Orders
<1>3. PICK r \in 0 .. p - 1 : a[r] = x
  <2> HIDE DEF a, P
  <2>1. x \in P  BY DEF P
  <2> QED BY <1>2, <2>1 DEF Lists
<1>4. b = Skip(a, p, r) /\ DOMAIN b = 0 .. p - 2 /\ DOMAIN a = 0 .. p - 1
  <2> HIDE DEF a, p, P
  <2>1. Lists(Skip(a, p, r), p - 1, P \ {x}, Less)  BY <1>2, <1>3, SkipLists
  <2>2. P \ {x} \in SUBSET Int  BY <1>1
  <2>3. b = Skip(a, p, r)  BY <2>1, <2>2, AscendingUnique
  <2>4. DOMAIN a = 0 .. p - 1  BY <1>2 DEF Lists
  <2> QED BY <2>3, <2>4 DEF Skip
<1>5. Present(t, M \ {x}) = P \ {x}  BY DEF Present
<1>6. Numbers(t, M) = [i \in 0 .. p - 1 |-> t[a[i]].n]
  <2> HIDE DEF a, p, P
  <2> QED BY <1>4 DEF Numbers, a, P
<1>7. Numbers(t, M \ {x}) = [i \in 0 .. p - 2 |-> t[b[i]].n]
  <2>1. Numbers(t, M \ {x}) = [i \in DOMAIN b |-> t[b[i]].n]  BY <1>5 DEF Numbers
  <2> HIDE DEF b
  <2> QED BY <1>4, <2>1
<1> HIDE DEF a, p, P, b
<1>8. \A i \in 0 .. p - 2 : t[b[i]].n = IF i < r THEN t[a[i]].n ELSE t[a[i + 1]].n
  BY <1>4 DEF Skip
<1>9. \A i \in 0 .. p - 2 : i \in 0 .. p - 1 /\ i + 1 \in 0 .. p - 1  BY <1>1
<1>10. Numbers(t, M \ {x}) = Skip(Numbers(t, M), p, r)
  BY <1>6, <1>7, <1>8, <1>9 DEF Skip
<1> QED BY <1>3, <1>6, <1>10 DEF p, P

\* A sum without one of its rows.
LEMMA SumWithoutRow ==
    ASSUME NEW t, IsTable(t), NEW M \in SUBSET DOMAIN t, NEW x \in Present(t, M)
    PROVE  SumOf(t, M) \in Int /\ SumOf(t, M \ {x}) = SumOf(t, M) - t[x].n
<1> DEFINE s == Numbers(t, M)
           s2 == Numbers(t, M \ {x})
           p == Cardinality(Present(t, M))
<1>1. p \in Nat /\ IsFiniteSet(Present(t, M)) /\ Present(t, M) \subseteq DOMAIN t  BY PresentRows
<1>2. PICK r \in DOMAIN s : DOMAIN s = 0 .. p - 1 /\ s[r] = t[x].n /\ s2 = Skip(s, p, r)
  BY NumbersWithout
<1>3. \A i \in DOMAIN s : s[i] \in Int
  <2> DEFINE P == Present(t, M)
             a == Ascending(P)
  <2>1. P \in SUBSET Int  BY PresentRows
  <2>2. Lists(a, Cardinality(P), P, Less)
    <3> HIDE DEF P
    <3> QED BY <1>1, <2>1, AscendingLists DEF P
  <2>3. s = [i \in DOMAIN a |-> t[a[i]].n]  BY DEF Numbers
  <2> HIDE DEF a
  <2>4. \A i \in DOMAIN a : a[i] \in DOMAIN t  BY <1>1, <2>2 DEF Lists
  <2>5. \A y \in DOMAIN t : t[y].n \in Int  BY TableRows
  <2> QED BY <2>3, <2>4, <2>5
<1> HIDE DEF s, s2, p
<1>4. IsFiniteSet(DOMAIN s) /\ IsFiniteSet(DOMAIN s2) /\ DOMAIN s2 = 0 .. p - 2
  BY <1>1, <1>2, FS_Interval DEF Skip
<1>5. PICK f : Sums(s, DOMAIN s, f) /\ Total(s) = f[DOMAIN s]  BY <1>4, TotalIsSum
<1>6. PICK f2 : Sums(s2, DOMAIN s2, f2) /\ Total(s2) = f2[DOMAIN s2]  BY <1>4, TotalIsSum
<1> DEFINE h == [k \in 0 .. p - 2 |-> IF k < r THEN k ELSE k + 1]
<1>7. /\ Renumbers(h, s2, DOMAIN s2, s, DOMAIN s)
      /\ \A z : z \in DOMAIN s \ {r} <=> \E k \in DOMAIN s2 : z = h[k]
  <2>0. r \in 0 .. p - 1  BY <1>2
  <2>1. \A k \in 0 .. p - 2 : /\ h[k] \in 0 .. p - 1 /\ h[k] # r
                              /\ s2[k] = s[h[k]]
    BY <1>1, <1>2, <2>0 DEF Skip
  <2>2. ASSUME NEW k \in 0 .. p - 2, NEW j \in 0 .. p - 2, h[k] = h[j] PROVE k = j
    <3>1. CASE k < r  BY <1>1, <2>0, <2>2, <3>1
    <3>2. CASE ~ k < r  BY <1>1, <2>0, <2>2, <3>2
    <3> QED BY <3>1, <3>2
  <2>3. \A i \in (0 .. p - 1) \ {r} : \E k \in 0 .. p - 2 : h[k] = i
    <3> TAKE i \in (0 .. p - 1) \ {r}
    <3>1. CASE i < r
      <4>1. i \in 0 .. p - 2 /\ h[i] = i  BY <1>1, <2>0, <3>1
      <4> QED BY <4>1
    <3>2. CASE ~ i < r
      <4>1. i - 1 \in 0 .. p - 2 /\ h[i - 1] = i  BY <1>1, <2>0, <3>2
      <4> QED BY <4>1
    <3> QED BY <3>1, <3>2
  <2> HIDE DEF h
  <2> QED BY <1>2, <1>4, <2>1, <2>2, <2>3 DEF Renumbers
<1> HIDE DEF h
<1>8. Numbered(s, DOMAIN s) /\ Numbered(s2, DOMAIN s2)
  BY <1>3, <1>4, <1>7 DEF Renumbers, Numbered
<1>9. f2[DOMAIN s2] = f[DOMAIN s \ {r}]
  <2> DEFINE D == DOMAIN s2
             E == DOMAIN s
             H == E \ {r}
  <2>1. /\ Numbered(s2, D) /\ Numbered(s, E)
        /\ Sums(s2, D, f2) /\ Sums(s, E, f)
        /\ Renumbers(h, s2, D, s, E)
        /\ \A z : z \in H <=> \E k \in D : z = h[k]
    BY <1>5, <1>6, <1>7, <1>8
  <2> HIDE DEF D, E, H
  <2>2. f2[D] = f[H]  BY <2>1, SumsMoved
  <2> QED BY <2>2 DEF D, E, H
<1>10. f[DOMAIN s] \in Int /\ f[DOMAIN s] = s[r] + f[DOMAIN s \ {r}] /\ f[DOMAIN s \ {r}] \in Int
  <2> DEFINE E == DOMAIN s
  <2>1. Numbered(s, E) /\ Sums(s, E, f) /\ r \in E
    BY <1>2, <1>5, <1>8
  <2> HIDE DEF E
  <2>2. AddsUp(s, E, f)  BY <2>1, SumsAdd
  <2>3. E \in SUBSET E /\ E \ {r} \in SUBSET E  OBVIOUS
  <2>4. f[E] \in Int /\ f[E] = s[r] + f[E \ {r}] /\ f[E \ {r}] \in Int
    BY <2>1, <2>2, <2>3 DEF AddsUp
  <2> QED BY <2>4 DEF E
<1>11. s[r] \in Int  BY <1>2, <1>3
<1>12. Total(s) \in Int /\ Total(s2) = Total(s) - t[x].n
  BY <1>2, <1>5, <1>6, <1>9, <1>10, <1>11
<1> QED BY <1>12 DEF SumOf, s, s2

\* Without a row its place is missing in the sorted numbers too.
LEMMA SortedWithout ==
    ASSUME NEW t, IsTable(t), NEW M \in SUBSET DOMAIN t, NEW x \in Present(t, M)
    PROVE  LET s == SortedNumbers(t, M)
               p == Cardinality(Present(t, M))
               r == RankOf(t, M, x)
           IN  /\ p \in Nat /\ r \in 0 .. p - 1 /\ DOMAIN s = 0 .. p - 1
               /\ SortedNumbers(t, M \ {x}) = Skip(s, p, r)
<1> DEFINE P == Present(t, M)
           N == NumberOrder(t)
           p == Cardinality(P)
           a == NumbersSorted(t, M)
           b == NumbersSorted(t, M \ {x})
           r == RankOf(t, M, x)
<1>1. P \subseteq DOMAIN t /\ p \in Nat  BY PresentRows
<1>2. /\ \A y, z \in DOMAIN t : <<y, z>> \in N <=>
              t[y].n < t[z].n \/ (t[y].n = t[z].n /\ y < z)
      /\ Orders(N, P) /\ Lists(a, p, P, N)
      /\ SortedNumbers(t, M) = [i \in DOMAIN a |-> t[a[i]].n]
  BY NumbersAreSorted
<1>3. M \ {x} \in SUBSET DOMAIN t  OBVIOUS
<1>4. SortedNumbers(t, M \ {x}) = [i \in DOMAIN b |-> t[b[i]].n]
  BY <1>3, NumbersAreSorted
<1>5. b = RankedIn(P \ {x}, N)
  <2>1. Present(t, M \ {x}) = P \ {x}  BY DEF Present
  <2> QED BY <2>1 DEF NumbersSorted
<1>6. x \in P  OBVIOUS
<1>7. r = Cardinality(Earlier(x, P, N))
  <2>1. Earlier(x, P, N) = {y \in P : t[y].n < t[x].n \/ (t[y].n = t[x].n /\ y < x)}
    <3> HIDE DEF P, N
    <3> QED BY <1>1, <1>2, <1>6 DEF Earlier
  <2> QED BY <2>1 DEF RankOf
<1> HIDE DEF P, N, p, a, b, r
<1>8. Asymmetric(N, P)  BY <1>2 DEF Orders
<1>9. PICK k \in 0 .. p - 1 : a[k] = x  BY <1>2, <1>6 DEF Lists
<1>10. r = k
  <2>1. Cardinality(Earlier(a[k], P, N)) = k  BY <1>2, <1>8, ListsRank
  <2> QED BY <1>7, <1>9, <2>1
<1>11. b = Skip(a, p, r)
  <2>1. Lists(Skip(a, p, r), p - 1, P \ {x}, N)
    <3>1. Lists(Skip(a, p, k), p - 1, P \ {a[k]}, N)  BY <1>2, <1>8, SkipLists
    <3> QED BY <1>9, <1>10, <3>1
  <2>2. Asymmetric(N, P \ {x})  BY <1>8 DEF Asymmetric
  <2>3. Skip(a, p, r) = RankedIn(P \ {x}, N)  BY <2>1, <2>2, ListsUnique
  <2> QED BY <1>5, <2>3
<1>12. DOMAIN a = 0 .. p - 1  BY <1>2 DEF Lists
<1>13. SortedNumbers(t, M \ {x}) = [i \in 0 .. p - 2 |-> t[b[i]].n]
  BY <1>4, <1>11 DEF Skip
<1>14. \A i \in 0 .. p - 2 : b[i] = IF i < r THEN a[i] ELSE a[i + 1]
  BY <1>11 DEF Skip
<1>15. \A i \in 0 .. p - 2 : i \in 0 .. p - 1 /\ i + 1 \in 0 .. p - 1  BY <1>1
<1> DEFINE s == SortedNumbers(t, M)
<1>16. \A i \in 0 .. p - 1 : s[i] = t[a[i]].n  BY <1>2, <1>12
<1>17. DOMAIN s = 0 .. p - 1  BY <1>2, <1>12
<1> HIDE DEF s
<1>18. \A i \in 0 .. p - 2 : t[b[i]].n = IF i < r THEN s[i] ELSE s[i + 1]
  BY <1>14, <1>15, <1>16
<1>19. SortedNumbers(t, M \ {x}) = Skip(s, p, r)
  BY <1>13, <1>18 DEF Skip
<1> QED BY <1>1, <1>9, <1>10, <1>17, <1>19 DEF p, P, r, s

\* Leaving out a row without a number leaves the numbers as they were.
LEMMA NothingWithout ==
    ASSUME NEW t, NEW M, NEW x, x \notin Present(t, M)
    PROVE  /\ Present(t, M \ {x}) = Present(t, M)
           /\ SortedNumbers(t, M \ {x}) = SortedNumbers(t, M)
           /\ SumOf(t, M \ {x}) = SumOf(t, M)
<1>1. Present(t, M \ {x}) = Present(t, M)  BY DEF Present
<1> QED BY <1>1 DEF SortedNumbers, SumOf, Numbers

\* What contributions computes for a row is the value of its group without it,
\* if that value exists.
LEMMA WithoutIsValue ==
    ASSUME NEW op, IsStep(op), op.op = "aggregate", NEW t, IsTable(t),
           NEW M \in SUBSET DOMAIN t, NEW m \in M,
           op.func = "sum" => Fits(SumOf(t, M \ {m}))
    PROVE  Without(op, t, M, m) = AggValue(op, t, M \ {m})
<1> DEFINE s == SortedNumbers(t, M)
           s2 == SortedNumbers(t, M \ {m})
           P == Present(t, M)
           P2 == Present(t, M \ {m})
           p == Cardinality(P)
           p2 == Cardinality(P2)
           r == RankOf(t, M, m)
<1>1. p \in Nat /\ Cardinality(M) \in Nat /\ IsFiniteSet(M) /\ P \subseteq M /\ IsFiniteSet(P)
  BY PresentRows
<1>2. M \ {m} \in SUBSET DOMAIN t  OBVIOUS
<1>3. p2 \in Nat /\ IsFiniteSet(P2)  BY <1>2, PresentRows
<1>4. P2 = P \ {m}  BY DEF Present
<1>5. Height(s) = p /\ Height(s2) = p2
  <2>1. \A N \in SUBSET DOMAIN t :
           DOMAIN SortedNumbers(t, N) = 0 .. Cardinality(Present(t, N)) - 1
    <3> TAKE N \in SUBSET DOMAIN t
    <3> DEFINE L == NumbersSorted(t, N)
    <3>1. DOMAIN L = 0 .. Cardinality(Present(t, N)) - 1
      BY NumbersAreSorted DEF Lists
    <3>2. SortedNumbers(t, N) = [i \in DOMAIN L |-> t[L[i]].n]  BY NumbersAreSorted
    <3> HIDE DEF L
    <3> QED BY <3>1, <3>2
  <2>2. DOMAIN s = 0 .. p - 1 /\ DOMAIN s2 = 0 .. p2 - 1  BY <1>2, <2>1
  <2> HIDE DEF s, s2, p, p2
  <2> QED BY <1>1, <1>3, <2>2, HeightIs
<1>6. m \in P <=> t[m].n # Missing  BY DEF Present
<1>7. P2 = {} <=> p2 = 0  BY <1>3, FS_EmptySet
<1>8. CASE op.func = "count"
  <2>1. Cardinality(M \ {m}) = Cardinality(M) - 1  BY <1>1, SmallerSet
  <2> QED BY <1>8, <2>1 DEF Without, AggValue
<1>9. CASE op.func = "count_non_null"
  <2>1. Without(op, t, M, m) = p2  BY <1>4, <1>9 DEF Without
  <2>2. AggValue(op, t, M \ {m}) = p2  BY <1>5, <1>9 DEF AggValue
  <2> QED BY <2>1, <2>2
<1>10. CASE op.func = "sum"
  <2>1. AggValue(op, t, M \ {m}) = IF p2 = 0 THEN Missing ELSE SumOf(t, M \ {m})
    BY <1>5, <1>10 DEF AggValue
  <2>2. SumOf(t, M \ {m}) = IF m \in P THEN SumOf(t, M) - t[m].n ELSE SumOf(t, M)
    <3>1. CASE m \in P  BY <3>1, SumWithoutRow
    <3>2. CASE m \notin P  BY <3>2, NothingWithout
    <3> QED BY <3>1, <3>2
  <2>3. Without(op, t, M, m) = SumWithout(t, M, m)  BY <1>10 DEF Without
  <2>4. SumWithout(t, M, m) = IF P2 = {} THEN Missing
                              ELSE IF Fits(SumOf(t, M \ {m})) THEN SumOf(t, M \ {m})
                              ELSE Missing
    BY <1>4, <2>2 DEF SumWithout
  <2> QED BY <1>7, <1>10, <2>1, <2>3, <2>4
<1>11. CASE op.func \in {"median", "min", "max", "percentile"} /\ m \notin P
  <2>1. Without(op, t, M, m) = AggValue(op, t, M)
    BY <1>6, <1>11 DEF Without
  <2>2. s2 = s  BY <1>11, NothingWithout
  <2>3. AggValue(op, t, M) = AggValue(op, t, M \ {m})
    BY <1>11, <2>2 DEF AggValue
  <2> QED BY <2>1, <2>3
<1>12. CASE op.func \in {"median", "min", "max", "percentile"} /\ m \in P
  <2>1. /\ r \in 0 .. p - 1 /\ DOMAIN s = 0 .. p - 1 /\ s2 = Skip(s, p, r)
    BY <1>12, SortedWithout
  <2>2. p2 = p - 1  BY <1>1, <1>4, <1>12, SmallerSet
  <2>3. SkipRank(s, r) = s2  BY <1>5, <2>1 DEF SkipRank, Skip
  <2>4. \A k \in 0 .. p - 2 : s2[k] = IF k < r THEN s[k] ELSE s[k + 1]
    <3> HIDE DEF s, s2, p, r
    <3> QED BY <2>1 DEF Skip
  <2>5. t[m].n # Missing  BY <1>6, <1>12
  <2> HIDE DEF s, s2, r, p, p2, P, P2
  <2>6. CASE op.func = "median"
    <3>1. Without(op, t, M, m) = MedianOfSorted(s2)
      BY <2>3, <2>5, <2>6 DEF Without, s, r
    <3>2. AggValue(op, t, M \ {m}) = IF p2 = 0 THEN Missing ELSE MedianOfSorted(s2)
      BY <1>5, <2>6 DEF AggValue, s2
    <3>3. p2 = 0 => MedianOfSorted(s2) = Missing  BY <1>5 DEF MedianOfSorted
    <3> QED BY <3>1, <3>2, <3>3
  <2>7. CASE op.func = "min"
    <3>1. Without(op, t, M, m) = ExtremeWithout(s, 0, 1, r)
      BY <2>5, <2>7 DEF Without, s, r
    <3>2. AggValue(op, t, M \ {m}) = IF p2 = 0 THEN Missing ELSE s2[0]
      BY <1>5, <2>7 DEF AggValue, s2
    <3>3. p2 # 0 => s2[0] = IF r # 0 THEN s[0] ELSE s[1]
      <4> HAVE p2 # 0
      <4>1. 0 \in 0 .. p - 2  BY <1>1, <1>3, <2>2
      <4> QED BY <2>1, <2>4, <4>1
    <3>4. 1 \in DOMAIN s <=> p2 # 0  BY <1>1, <1>3, <2>1, <2>2
    <3>5. p2 = 0 => r = 0  BY <1>1, <2>1, <2>2
    <3> QED BY <3>1, <3>2, <3>3, <3>4, <3>5 DEF ExtremeWithout
  <2>8. CASE op.func = "max"
    <3>1. Without(op, t, M, m) = ExtremeWithout(s, p - 1, p - 2, r)
      BY <1>5, <2>5, <2>8 DEF Without, s, r
    <3>2. AggValue(op, t, M \ {m}) = IF p2 = 0 THEN Missing ELSE s2[p2 - 1]
      BY <1>5, <2>8 DEF AggValue, s2
    <3>3. p2 # 0 => s2[p2 - 1] = IF r # p - 1 THEN s[p - 1] ELSE s[p - 2]
      <4> HAVE p2 # 0
      <4>1. p - 2 \in 0 .. p - 2 /\ p2 - 1 = p - 2 /\ (p - 2) + 1 = p - 1
        BY <1>1, <1>3, <2>2
      <4>2. p - 2 < r <=> r = p - 1  BY <1>1, <2>1
      <4> QED BY <2>4, <4>1, <4>2
    <3>4. p - 2 \in DOMAIN s <=> p2 # 0  BY <1>1, <1>3, <2>1, <2>2
    <3>5. p2 = 0 => r = p - 1  BY <1>1, <2>1, <2>2
    <3> QED BY <3>1, <3>2, <3>3, <3>4, <3>5 DEF ExtremeWithout
  <2>9. CASE op.func = "percentile"
    <3> DEFINE R == PercentileRank(p2, op.p)
    <3>1. Without(op, t, M, m) = PercentileWithout(s, op.p, r)
      BY <2>5, <2>9 DEF Without, s, r
    <3>2. AggValue(op, t, M \ {m}) = IF p2 = 0 THEN Missing ELSE s2[R]
      BY <1>5, <2>9 DEF AggValue, s2
    <3>3. PercentileWithout(s, op.p, r)
            = IF p2 = 0 THEN Missing ELSE s[IF R < r THEN R ELSE R + 1]
      BY <1>5, <2>2 DEF PercentileWithout
    <3>4. p2 # 0 => R \in 0 .. p - 2
      <4> HAVE p2 # 0
      <4>1. op.p \in 1 .. 99  BY <2>9 DEF IsStep
      <4>2. R \in 0 .. p2 - 1  BY <1>3, <4>1, PercentileRankIn
      <4> QED BY <1>1, <2>2, <4>2
    <3> HIDE DEF R
    <3> QED BY <2>4, <3>1, <3>2, <3>3, <3>4
  <2> QED BY <1>12, <2>6, <2>7, <2>8, <2>9
<1> QED BY <1>8, <1>9, <1>10, <1>11, <1>12 DEF IsStep

----------------------------------------------------------------------------
(* The group behind a number, in the execution and in a run without a row. *)

\* Every step but an aggregate makes each row of one.
LEMMA OtherOfOne ==
    ASSUME NEW op, IsStep(op), op.op # "aggregate", NEW t, IsTable(t)
    PROVE  OfOne(RunStep(op, t))
<1>1. CASE KeepsRows(op)  BY <1>1, StepOfOne
<1>2. CASE op.op = "limit"
  <2>1. RunStep(op, t) = Limit(op, t)  BY <1>2 DEF RunStep
  <2>2. Limit(op, t).lineage.kind = "Identity"  BY DEF Limit, Done, Identity
  <2>3. \A o : MadeOf(Limit(op, t).lineage, o) = {o}  BY <2>2 DEF MadeOf
  <2> QED BY <2>1, <2>3 DEF OfOne
<1> QED BY <1>1, <1>2 DEF IsStep, KeepsRows

LEMMA HasSource ==
    ASSUME NEW plan, IsPlan(plan), NEW e, IsExecution(plan, e), Scans(plan, e, NoExclusion),
           NEW m \in DOMAIN plan, \A i \in 1 .. m : KeepsRows(plan[i]) /\ Follows(plan, e, i),
           NEW o \in DOMAIN e.tables[m]
    PROVE  \E z : z \in SourceRows(e.steps, m, {o})
<1> DEFINE Some(k) == \A r \in DOMAIN e.tables[k] : \E u : u \in SourceRows(e.steps, k, {r})
           S == {k \in Nat : k <= m => Some(k)}
<1>0. m \in Nat /\ \A i \in 1 .. m : i \in DOMAIN plan \ {0} /\ i - 1 \in DOMAIN plan
  BY PlanNodes
<1>1. 0 \in S
  <2>1. LET s == Scan(plan[0], NoExclusion) IN \A i : MadeOf(s.lineage, i) = {i}  BY ScanAll
  <2>2. \A r \in DOMAIN e.tables[0] : SourceRows(e.steps, 0, {r}) = {r}
    BY <2>1, TraceScan DEF Scans
  <2>3. Some(0)  BY <2>2
  <2> HIDE DEF Some
  <2> QED BY <2>3
<1>2. ASSUME NEW k \in Nat, k \in S PROVE k + 1 \in S
  <2> DEFINE i == k + 1
  <2> SUFFICES ASSUME i <= m PROVE Some(i)
    <3> HIDE DEF Some
    <3> QED OBVIOUS
  <2>1. i \in 1 .. m /\ i - 1 = k /\ i \in DOMAIN plan \ {0} /\ k \in DOMAIN plan /\ k <= m
    BY <1>0
  <2>2. Some(k)
    <3> HIDE DEF Some
    <3> QED BY <1>2, <2>1
  <2> HIDE DEF i
  <2> TAKE r \in DOMAIN e.tables[i]
  <2>3. \E q : MadeOf(e.steps[i], r) = {q}
    <3> DEFINE op == plan[i]
               t == e.tables[i - 1]
    <3>1. /\ IsStep(op) /\ KeepsRows(op) /\ IsTable(t)
          /\ RunStep(op, t).table = e.tables[i] /\ RunStep(op, t).lineage = e.steps[i]
      BY <2>1 DEF IsPlan, IsExecution, Follows
    <3>2. r \in DOMAIN RunStep(op, t).table  BY <3>1
    <3> HIDE DEF op, t
    <3>3. OfOne(RunStep(op, t))  BY <3>1, StepOfOne
    <3> QED BY <3>1, <3>2, <3>3 DEF OfOne
  <2>4. PICK q : MadeOf(e.steps[i], r) = {q}  BY <2>3
  <2>5. \A w : w \in SourceRows(e.steps, i, {r}) <=>
           \E p \in MadeOf(e.steps[i], r) : w \in SourceRows(e.steps, i - 1, {p})
    BY <2>1, TraceStep
  <2>6. MadeOf(e.steps[i], r) \subseteq DOMAIN e.tables[i - 1]  BY <2>1, TraceStep
  <2>7. q \in DOMAIN e.tables[k]  BY <2>1, <2>4, <2>6
  <2>8. PICK u : u \in SourceRows(e.steps, k, {q})  BY <2>2, <2>7
  <2>9. u \in SourceRows(e.steps, i, {r})  BY <2>1, <2>4, <2>5, <2>8
  <2> QED BY <2>9
<1>3. m \in S
  <2> HIDE DEF S
  <2> QED BY <1>0, <1>1, <1>2, SetInduction
<1>4. Some(m)
  <2> HIDE DEF Some
  <2> QED BY <1>0, <1>3
<1> QED BY <1>4

\* Behind a row of the output is one row of each step after which no other is
\* an aggregate.
LEMMA OneBehind ==
    ASSUME NEW plan, IsPlan(plan), NEW e, IsExecution(plan, e), NEW a \in DOMAIN plan,
           \A i \in a + 1 .. OutputNode(plan) : plan[i].op # "aggregate" /\ Follows(plan, e, i),
           NEW o \in DOMAIN e.tables[OutputNode(plan)]
    PROVE  \E g \in DOMAIN e.tables[a] : Backward(e.steps, OutputNode(plan), {o}, a) = {g}
<1> DEFINE n == OutputNode(plan)
<1>0. n \in Nat /\ DOMAIN plan = 0 .. n /\ a \in 0 .. n  BY PlanNodes
<1>1. PICK f : IsBehind(e.steps, n, {o}, f)  BY <1>0, BehindExists
<1> DEFINE One(j) == \E g \in DOMAIN e.tables[j] : f[j] = {g}
           S == {k \in Nat : k <= n - a => One(n - k)}
<1>2. 0 \in S
  <2>1. f[n] = {o} /\ n - 0 = n  BY <1>0, <1>1 DEF IsBehind
  <2>2. One(n - 0)  BY <2>1
  <2> HIDE DEF One
  <2> QED BY <2>2
<1>3. ASSUME NEW k \in Nat, k \in S PROVE k + 1 \in S
  <2> DEFINE j == n - (k + 1)
             i == n - k
  <2> SUFFICES ASSUME k + 1 <= n - a PROVE One(j)
    <3> HIDE DEF One
    <3> QED OBVIOUS
  <2>1. /\ i \in a + 1 .. n /\ j = i - 1 /\ j + 1 = i /\ j \in 0 .. n /\ j # n
        /\ i \in DOMAIN plan \ {0} /\ k <= n - a
    <3>1. n \in Int /\ a \in Int /\ k \in Int /\ 0 <= a /\ 0 <= k /\ k + 1 <= n - a
      BY <1>0
    <3>2. /\ i \in a + 1 .. n /\ j = i - 1 /\ j + 1 = i /\ j \in 0 .. n /\ j # n
          /\ i \in 0 .. n /\ i # 0 /\ k <= n - a
      BY <3>1
    <3> HIDE DEF i, j
    <3> QED BY <1>0, <3>2
  <2>2. One(i)
    <3> HIDE DEF One
    <3> QED BY <1>3, <2>1
  <2> HIDE DEF i, j, n
  <2>3. PICK p \in DOMAIN e.tables[i] : f[i] = {p}  BY <2>2
  <2>4. f[j] = Store(e.steps)!StepBack(i, f[i])  BY <1>1, <2>1 DEF IsBehind
  <2>5. f[j] = MadeOf(e.steps[i], p)
    <3>1. f[j] = UNION {MadeOf(e.steps[i], r) : r \in {p}}  BY <2>3, <2>4, StepBackMadeOf
    <3> QED BY <3>1
  <2>6. \E q : MadeOf(e.steps[i], p) = {q}
    <3> DEFINE op == plan[i]
               t == e.tables[i - 1]
    <3>1. /\ IsStep(op) /\ op.op # "aggregate" /\ IsTable(t)
          /\ RunStep(op, t).table = e.tables[i] /\ RunStep(op, t).lineage = e.steps[i]
      <4>1. Follows(plan, e, i) /\ op.op # "aggregate"  BY <2>1 DEF n
      <4>2. i - 1 \in DOMAIN plan  BY <2>1, PlanNodes
      <4> QED BY <2>1, <4>1, <4>2 DEF IsPlan, IsExecution, Follows
    <3>2. p \in DOMAIN RunStep(op, t).table  BY <2>3, <3>1
    <3> HIDE DEF op, t
    <3>3. OfOne(RunStep(op, t))  BY <3>1, OtherOfOne
    <3> QED BY <3>1, <3>2, <3>3 DEF OfOne
  <2>7. MadeOf(e.steps[i], p) \subseteq DOMAIN e.tables[i - 1]  BY <2>1, <2>3, TraceStep
  <2> QED BY <2>1, <2>5, <2>6, <2>7
<1>4. \A k \in Nat : k \in S
  <2> HIDE DEF S
  <2> QED BY <1>2, <1>3, SetInduction
<1>5. One(a)
  <2>1. n - a \in Nat /\ n - (n - a) = a  BY <1>0
  <2> HIDE DEF One
  <2> QED BY <1>4, <2>1
<1>6. Backward(e.steps, n, {o}, a) = f[a]
  <2> HIDE DEF n
  <2> QED BY <1>0, <1>1, BackwardIs
<1> QED BY <1>5, <1>6

\* An aggregate of all rows leaves none out.
LEMMA WholeAggregate ==
    ASSUME NEW op, NEW t, Aggregate(op, t).ok,
           NEW r, r.table = Aggregate(op, t).table, r.lineage = Aggregate(op, t).lineage
    PROVE  IsAggregateIn(r, op, t, DOMAIN t)
<1> DEFINE X == DOMAIN t
           keys == Ascending(GroupKeys(op, t))
<1>1. LeftKeys(op, t, X) = GroupKeys(op, t)  BY DEF LeftKeys, GroupKeys
<1>2. \A g : Has(op, t, X, g) = Members(op, t, g)  BY DEF Has, Members
<1>3. \A g : RowOf(op, t, g, Has(op, t, X, g)) = GroupRow(op, t, g)
  BY <1>2 DEF RowOf, GroupRow
<1>4. /\ r.table = [i \in DOMAIN keys |-> GroupRow(op, t, keys[i])]
      /\ r.lineage.kind = "Group" /\ r.lineage.len = Height(keys)
      /\ r.lineage.members = [i \in DOMAIN keys |-> Members(op, t, keys[i])]
  BY Aggregated
<1> HIDE DEF X
<1>5. keys = Ascending(LeftKeys(op, t, X))  BY <1>1
<1> HIDE DEF keys
<1>6. /\ r.table = [i \in DOMAIN keys |-> RowOf(op, t, keys[i], Has(op, t, X, keys[i]))]
      /\ DOMAIN r.lineage.members = DOMAIN keys
      /\ \A i \in DOMAIN keys : r.lineage.members[i] = Has(op, t, X, keys[i])
  BY <1>2, <1>3, <1>4
<1> QED BY <1>4, <1>5, <1>6 DEF IsAggregateIn, X

\* The steps before the aggregate are the base's, the aggregate is that of the
\* rows K of its input, and the steps after it follow.
PartsOf(plan, e, b, K) ==
    LET a == TheAggregate(plan)
    IN  /\ \A i \in 0 .. a - 1 : e.tables[i] = b.tables[i] /\ e.steps[i] = b.steps[i]
        /\ \A i \in a + 1 .. OutputNode(plan) : Follows(plan, e, i)
        /\ IsAggregateIn([table |-> e.tables[a], lineage |-> e.steps[a]],
                         plan[a], b.tables[a - 1], K)

LEMMA AnswerParts ==
    ASSUME NEW plan, IsPlan(plan), IncrementalShape(plan), Execute(plan, NoExclusion).ok,
           NEW rows \in SUBSET Nat, rows # NoExclusion,
           Exclude(plan, Execute(plan, NoExclusion), rows).ok
    PROVE  LET b == Execute(plan, NoExclusion)
           IN  PartsOf(plan, Exclude(plan, b, rows).execution, b,
                       Kept(b, rows, TheAggregate(plan) - 1))
<1> DEFINE a == TheAggregate(plan)
           b == Execute(plan, NoExclusion)
           x == Exclude(plan, b, rows)
           e == Incremental(plan, b, a, Forward(b.steps, rows, a - 1), Forward(b.steps, rows, a))
           K == Kept(b, rows, a - 1)
           t == b.tables[a - 1]
<1>1. /\ a \in DOMAIN plan \ {0} /\ a \in Nat \ {0} /\ a - 1 \in DOMAIN plan
      /\ IsStep(plan[a]) /\ plan[a].op = "aggregate"
  BY AggregateStep
<1>2. /\ IsTable(t) /\ K \in SUBSET DOMAIN t /\ Follows(plan, b, a)
      /\ Forward(b.steps, rows, a - 1) = DOMAIN t \ K
  BY AtAggregate
<1>3. ASSUME x = Derived("unchanged", b), K = DOMAIN t
      PROVE  PartsOf(plan, x.execution, b, K)
  <2>1. x.execution = b  BY <1>3, DerivedOk
  <2>2. \A i \in DOMAIN plan \ {0} : Follows(plan, b, i)
    <3>1. LET y == b IN \A i \in DOMAIN plan \ {0} : Follows(plan, y, i)  BY ExecutionSteps
    <3> QED BY <3>1
  <2>3. \A i \in a + 1 .. OutputNode(plan) : i \in DOMAIN plan \ {0}
    BY <1>1, PlanNodes
  <2> DEFINE op == plan[a]
             r == [table |-> b.tables[a], lineage |-> b.steps[a]]
  <2>4. /\ Aggregate(op, t).ok /\ r.table = Aggregate(op, t).table
        /\ r.lineage = Aggregate(op, t).lineage
    BY <1>1, <1>2 DEF Follows, RunStep
  <2>5. IsAggregateIn(r, op, t, DOMAIN t)
    <3> HIDE DEF r, op, t
    <3> QED BY <2>4, WholeAggregate
  <2>6. IsAggregateIn(r, op, t, K)  BY <1>3, <2>5
  <2> HIDE DEF b, a, K
  <2> QED BY <2>1, <2>2, <2>3, <2>6 DEF PartsOf, a
<1>4. CASE rows = {}
  <2>1. x = Derived("unchanged", b)  BY <1>4 DEF Exclude
  <2>2. K = DOMAIN t  BY <1>4 DEF Kept
  <2> QED BY <1>3, <2>1, <2>2
<1>5. CASE rows # {} /\ Forward(b.steps, rows, a - 1) = {}
  <2>1. x = Derived("unchanged", b)  BY <1>5 DEF Exclude
  <2>2. K = DOMAIN t  BY <1>2, <1>5
  <2> QED BY <1>3, <2>1, <2>2
<1>6. CASE rows # {} /\ Forward(b.steps, rows, a - 1) # {}
  <2>1. x = Derived("incremental", e)  BY <1>6 DEF Exclude
  <2>2. e.ok /\ x.execution = e
    <3> HIDE DEF e
    <3> QED BY <2>1, DerivedOk
  <2>3. PartsOf(plan, e, b, K)
    <3> DEFINE y == e
    <3>1. y = Incremental(plan, b, a, Forward(b.steps, rows, a - 1), Forward(b.steps, rows, a)) /\ y.ok
      BY <2>2
    <3> HIDE DEF y
    <3>2. LET c == TheAggregate(plan)
              d == Execute(plan, NoExclusion)
          IN  /\ DOMAIN y.tables = DOMAIN plan /\ DOMAIN y.steps = DOMAIN plan
              /\ \A i \in 0 .. c - 1 : y.tables[i] = d.tables[i] /\ y.steps[i] = d.steps[i]
              /\ \A i \in c + 1 .. OutputNode(plan) : Follows(plan, y, i)
              /\ IsAggregateIn([table |-> y.tables[c], lineage |-> y.steps[c]],
                               plan[c], d.tables[c - 1], Kept(d, rows, c - 1))
      BY <1>6, <3>1, IncrementalParts
    <3>3. PartsOf(plan, y, b, K)  BY <3>2 DEF PartsOf
    <3> QED BY <3>3 DEF y
  <2> QED BY <2>2, <2>3
<1> QED BY <1>4, <1>5, <1>6

\* A run without some rows, at the aggregate.
LEMMA FullAggregate ==
    ASSUME NEW plan, IsPlan(plan), IncrementalShape(plan), Execute(plan, NoExclusion).ok,
           NEW rows, rows # NoExclusion, Execute(plan, rows).ok
    PROVE  LET a == TheAggregate(plan)
               op == plan[a]
               b == Execute(plan, NoExclusion)
               t == b.tables[a - 1]
               K == Kept(b, rows, a - 1)
               keys == Ascending(LeftKeys(op, t, K))
           IN  /\ FitsIn(op, t, K)
               /\ Execute(plan, rows).tables[a]
                    = [i \in DOMAIN keys |-> RowOf(op, t, keys[i], Has(op, t, K, keys[i]))]
<1> DEFINE a == TheAggregate(plan)
           op == plan[a]
           b == Execute(plan, NoExclusion)
           e == Execute(plan, rows)
           t == b.tables[a - 1]
           K == Kept(b, rows, a - 1)
           r == RunStep(op, e.tables[a - 1])
<1>1. /\ a \in DOMAIN plan \ {0} /\ a \in Nat \ {0} /\ a - 1 \in DOMAIN plan
      /\ IsStep(op) /\ op.op = "aggregate" /\ \A i \in 1 .. a - 1 : KeepsRows(plan[i])
  BY AggregateStep
<1>2. \A ex : Execute(plan, ex).ok =>
         /\ IsExecution(plan, Execute(plan, ex)) /\ Scans(plan, Execute(plan, ex), ex)
         /\ \A i \in DOMAIN plan \ {0} : Follows(plan, Execute(plan, ex), i)
  <2> TAKE ex
  <2> HAVE Execute(plan, ex).ok
  <2>1. LET x == Execute(plan, ex) IN /\ x.tables[0] = Scan(plan[0], ex).table
                                      /\ x.steps[0] = Scan(plan[0], ex).lineage
                                      /\ \A i \in DOMAIN plan \ {0} : Follows(plan, x, i)
    BY ExecutionSteps
  <2> QED BY <2>1, ExecutionTyped DEF Scans
<1>3. /\ IsExecution(plan, b) /\ Scans(plan, b, NoExclusion)
      /\ \A i \in DOMAIN plan \ {0} : Follows(plan, b, i)
      /\ IsExecution(plan, e) /\ Scans(plan, e, rows)
      /\ \A i \in DOMAIN plan \ {0} : Follows(plan, e, i)
  BY <1>2
<1> HIDE DEF a, b, e
<1>4. \A i \in 1 .. a - 1 : i \in DOMAIN plan \ {0}  BY <1>1, PlanNodes
<1>5. \A i \in 0 .. a - 1 : i \in DOMAIN plan  BY <1>1, PlanNodes
<1>6. Shows(b, e, rows, a - 1)
  <2> DEFINE m == a - 1
  <2>1. /\ m \in DOMAIN plan /\ \A i \in 0 .. m : IsTable(b.tables[i])
        /\ \A i \in 1 .. m : KeepsRows(plan[i]) /\ Follows(plan, b, i) /\ Follows(plan, e, i)
    BY <1>1, <1>3, <1>4, <1>5 DEF IsExecution
  <2> HIDE DEF m
  <2>2. Shows(b, e, rows, m)  BY <1>3, <2>1, BeforeShows
  <2> QED BY <2>2 DEF m
<1>7. IsTable(t) /\ K \in SUBSET DOMAIN t  BY <1>1, <1>3 DEF IsExecution, Kept
<1>8. e.tables[a - 1] = Gather(t, Ascending(K))  BY <1>6 DEF Shows
<1>9. r.ok /\ r.table = e.tables[a] /\ r = Aggregate(op, Gather(t, Ascending(K)))
  <2>1. r.ok /\ r.table = e.tables[a]  BY <1>1, <1>3 DEF Follows
  <2>2. r = Aggregate(op, e.tables[a - 1])  BY <1>1 DEF RunStep
  <2> QED BY <1>8, <2>1, <2>2
<1> HIDE DEF r, t, K, op
<1>10. FitsIn(op, t, K) /\ IsAggregateOf(r, op, t, K)  BY <1>1, <1>7, <1>9, LeftAggregate
<1> QED BY <1>9, <1>10 DEF IsAggregateOf, a, op, b, e, t, K

\* The groups of the rows X, with their values.
GroupsOf(op, t, X) ==
    LET keys == Ascending(LeftKeys(op, t, X))
    IN  [i \in DOMAIN keys |-> RowOf(op, t, keys[i], Has(op, t, X, keys[i]))]

\* What contributions says of the group k with members M without m holds of a
\* table of groups.
SaidOf(table, k, op, t, M, m) ==
    LET found == {i \in DOMAIN table : table[i].k = k}
    IN  IF op.grouped /\ Cardinality(M) = 1 THEN found = {}
        ELSE \E i \in found : table[i].n = Without(op, t, M, m)

\* Without a row its group is gone, or has the value that contributions gives.
LEMMA GroupWithout ==
    ASSUME NEW op, IsStep(op), op.op = "aggregate", NEW t, IsTable(t),
           NEW K \in SUBSET DOMAIN t, NEW r, IsAggregateIn(r, op, t, K),
           NEW g \in DOMAIN r.table, NEW m \in r.lineage.members[g],
           NEW K2, K2 = K \ {m}, FitsIn(op, t, K2)
    PROVE  SaidOf(GroupsOf(op, t, K2), r.table[g].k, op, t, r.lineage.members[g], m)
<1> DEFINE M == r.lineage.members[g]
           L == LeftKeys(op, t, K)
           keys == Ascending(L)
           table == GroupsOf(op, t, K2)
           L2 == LeftKeys(op, t, K2)
           keys2 == Ascending(L2)
           kg == r.table[g].k
           found == {i \in DOMAIN table : table[i].k = kg}
<1>1. L \in SUBSET Int /\ IsFiniteSet(L) /\ L2 \in SUBSET Int /\ IsFiniteSet(L2)
  <2>1. K2 \in SUBSET DOMAIN t  OBVIOUS
  <2> QED BY <2>1, LeftAggregate
<1>2. Lists(keys, Cardinality(L), L, Less) /\ Lists(keys2, Cardinality(L2), L2, Less)
  <2> HIDE DEF L, L2
  <2> QED BY <1>1, AscendingLists
<1>3. g \in DOMAIN keys /\ kg = keys[g] /\ M = Has(op, t, K, kg)
  BY DEF IsAggregateIn, RowOf
<1>4. kg \in L
  <2> HIDE DEF keys, L, kg
  <2> QED BY <1>2, <1>3 DEF Lists
<1>5. M \in SUBSET K /\ M \in SUBSET DOMAIN t /\ IsFiniteSet(M) /\ m \in M
  <2>1. M \in SUBSET K  BY <1>3 DEF Has
  <2>2. M \in SUBSET DOMAIN t /\ m \in M  BY <2>1
  <2> HIDE DEF M
  <2> QED BY <2>1, <2>2, PresentRows
<1>6. Has(op, t, K2, kg) = M \ {m}  BY <1>3 DEF Has
<1>7. /\ DOMAIN table = DOMAIN keys2
      /\ \A i \in DOMAIN keys2 : /\ table[i].k = keys2[i]
                                 /\ table[i].n = AggValue(op, t, Has(op, t, K2, keys2[i]))
  BY DEF RowOf, GroupsOf
<1> HIDE DEF table
<1>8. op.func = "sum" => \A y \in L2 : Fits(SumOf(t, Has(op, t, K2, y)))
  BY DEF FitsIn
<1>9. op.grouped => \A y \in K : y \in M <=> t[y].k = kg
  BY <1>3 DEF Has, Members
<1>10. op.grouped => \A y : y \in L2 <=> \E z \in K2 : t[z].k = y
  BY DEF LeftKeys
<1>11. ~ op.grouped => L2 = L  BY DEF LeftKeys
<1>12. CASE op.grouped /\ Cardinality(M) = 1
  <2>1. M \ {m} = {}
    <3> HIDE DEF M
    <3>1. Cardinality(M \ {m}) = 0 /\ IsFiniteSet(M \ {m})  BY <1>5, <1>12, SmallerSet
    <3> QED BY <3>1, FS_EmptySet
  <2>2. kg \notin L2
    <3> HIDE DEF L2, M, kg
    <3> QED BY <1>9, <1>10, <1>12, <2>1
  <2>3. \A i \in DOMAIN keys2 : keys2[i] \in L2
    <3> HIDE DEF keys2, L2
    <3> QED BY <1>2 DEF Lists
  <2>4. found = {}
    <3> HIDE DEF keys2, L2, kg
    <3>1. ASSUME NEW i \in found PROVE FALSE
      <4>1. i \in DOMAIN table /\ table[i].k = kg  OBVIOUS
      <4> HIDE DEF found
      <4> QED BY <1>7, <2>2, <2>3, <4>1
    <3> QED BY <3>1
  <2>5. SaidOf(table, kg, op, t, M, m)
    <3> HIDE DEF M, kg
    <3> QED BY <1>12, <2>4 DEF SaidOf
  <2> QED BY <2>5 DEF table
<1>13. CASE ~ (op.grouped /\ Cardinality(M) = 1)
  <2>1. kg \in L2
    <3>1. CASE op.grouped
      <4>1. M # {m}
        <5> HIDE DEF M
        <5> QED BY <1>13, <3>1, FS_Singleton
      <4>2. PICK y \in M : y # m  BY <1>5, <4>1
      <4> HIDE DEF L2, M, kg
      <4> QED BY <1>5, <1>9, <1>10, <3>1, <4>2
    <3>2. CASE ~ op.grouped  BY <1>4, <1>11, <3>2
    <3> QED BY <3>1, <3>2 DEF IsStep
  <2>2. PICK i \in DOMAIN keys2 : keys2[i] = kg
    <3> HIDE DEF keys2, L2, kg
    <3> QED BY <1>2, <2>1 DEF Lists
  <2>3. Without(op, t, M, m) = AggValue(op, t, M \ {m})
    <3>1. op.func = "sum" => Fits(SumOf(t, M \ {m}))  BY <1>6, <1>8, <2>1
    <3> HIDE DEF M
    <3> QED BY <1>5, <3>1, WithoutIsValue
  <2>4. i \in found /\ table[i].n = AggValue(op, t, M \ {m})
    <3> HIDE DEF keys2, M, kg
    <3> QED BY <1>6, <1>7, <2>2
  <2>5. \E j \in found : table[j].n = Without(op, t, M, m)
    <3> HIDE DEF found, M
    <3> QED BY <2>3, <2>4
  <2>6. SaidOf(table, kg, op, t, M, m)
    <3> HIDE DEF M, kg
    <3> QED BY <1>13, <2>5 DEF SaidOf
  <2> QED BY <2>6 DEF table
<1> QED BY <1>12, <1>13

\* The snapshot rows behind a row are rows of the snapshot.
LEMMA SourcesAreRows ==
    ASSUME NEW plan, IsPlan(plan), NEW e, IsExecution(plan, e), NEW n \in DOMAIN plan,
           NEW o \in DOMAIN e.tables[n], NEW z, z \in SourceRows(e.steps, n, {o})
    PROVE  z \in DOMAIN Snapshot[plan[0].snapshot]
<1> DEFINE t == Snapshot[plan[0].snapshot]
<1>1. 0 \in 0 .. n /\ 0 \in DOMAIN plan  BY PlanNodes
<1>2. PICK r \in DOMAIN e.tables[0] : z \in SourceRows(e.steps, 0, {r})  BY <1>1, TraceBefore
<1>3. z \in MadeOf(e.steps[0], r)  BY <1>2, TraceScan
<1>4. IsTable(t)  BY ExecAssumption DEF IsPlan
<1> HIDE DEF t
<1>5. DOMAIN t = 0 .. Height(t) - 1  BY <1>4, TableRows
<1>6. MapsBelow(e.steps[0], Height(t)) /\ e.steps[0].len = Height(e.tables[0]) /\ IsTable(e.tables[0])
  BY <1>1 DEF IsExecution, IsScanOf, t
<1>7. r \in 0 .. e.steps[0].len - 1  BY <1>2, <1>6, TableRows
<1>8. z \in DOMAIN t  BY <1>3, <1>5, <1>6, <1>7 DEF MapsBelow
<1> QED BY <1>8 DEF t

\* Leaving out the snapshot row behind a row leaves out that row.
LEMMA KeptWithout ==
    ASSUME NEW plan, IsPlan(plan), NEW b, IsExecution(plan, b), NEW n \in DOMAIN plan,
           NEW rows, NEW m \in Kept(b, rows, n), NEW z, z \in SourceRows(b.steps, n, {m})
    PROVE  \A r : r \in Kept(b, rows \cup {z}, n) <=> r \in Kept(b, rows, n) /\ r # m
<1>1. \A r \in DOMAIN b.tables[n] : z \in SourceRows(b.steps, n, {r}) => r = m
  BY TracesDisjoint DEF Kept
<1>2. \A r : SourceRows(b.steps, n, {r}) \cap (rows \cup {z}) = {}
                <=> /\ SourceRows(b.steps, n, {r}) \cap rows = {}
                    /\ z \notin SourceRows(b.steps, n, {r})
  OBVIOUS
<1> QED BY <1>1, <1>2 DEF Kept

\* Of the steps of such a plan only one is an aggregate.
LEMMA OneAggregate ==
    ASSUME NEW plan, IsPlan(plan), IncrementalShape(plan), NEW i \in DOMAIN plan,
           i # TheAggregate(plan)
    PROVE  plan[i].op # "aggregate"
<1>1. Cardinality(Aggregates(plan)) = 1 /\ IsFiniteSet(Aggregates(plan))
  <2>1. Aggregates(plan) \in SUBSET DOMAIN plan  BY DEF Aggregates
  <2> QED BY <2>1, FS_Subset DEF IncrementalShape, IsPlan
<1>2. TheAggregate(plan) \in Aggregates(plan)
  <2>1. Aggregates(plan) # {}  BY <1>1, FS_EmptySet
  <2> QED BY <2>1 DEF TheAggregate
<1>3. Cardinality(Aggregates(plan) \ {TheAggregate(plan)}) = 0
      /\ IsFiniteSet(Aggregates(plan) \ {TheAggregate(plan)})
  BY <1>1, <1>2, SmallerSet
<1>4. Aggregates(plan) \ {TheAggregate(plan)} = {}  BY <1>3, FS_EmptySet
<1> QED BY <1>4 DEF Aggregates

\* A leave-one-out value is that of a run without the row, if there is one.
LEMMA ContributionIsRun ==
    ASSUME NEW live, IsLive(live), IncrementalShape(live.plan),
           NEW row \in DOMAIN live.execution.tables[OutputNode(live.plan)],
           NEW c \in Contributions(live.plan, live.execution, row),
           Execute(live.plan, live.excluded \cup {c.source_row}).ok
    PROVE  SaysWhatARunGives(live, GroupBehind(live.plan, live.execution, row), c,
                             Execute(live.plan, live.excluded \cup {c.source_row}))
<1> DEFINE plan == live.plan
           e == live.execution
           rows == live.excluded
           n == OutputNode(plan)
           a == TheAggregate(plan)
           op == plan[a]
           b == Execute(plan, NoExclusion)
           t == b.tables[a - 1]
           K == Kept(b, rows, a - 1)
           g == GroupBehind(plan, e, row)
           M == e.steps[a].members[g]
           s == c.source_row
           full == Execute(plan, rows \cup {s})
<1>1. /\ IsPlan(plan) /\ rows \in SUBSET Nat /\ IsExecution(plan, e)
      /\ rows \in SUBSET UNION RowSets
  BY LiveAnswers DEF IsAnswer, IsLive
<1>2. rows # NoExclusion  BY <1>1, EngineAssumption
<1>3. /\ a \in DOMAIN plan \ {0} /\ a \in Nat \ {0} /\ a - 1 \in DOMAIN plan
      /\ IsStep(op) /\ op.op = "aggregate" /\ \A i \in 1 .. a - 1 : KeepsRows(plan[i])
  BY <1>1, AggregateStep
<1>4. PartsOf(plan, e, b, K)
  <2>1. /\ Execute(plan, NoExclusion).ok /\ Exclude(plan, b, rows).ok
        /\ e = Exclude(plan, b, rows).execution
    BY DEF IsLive
  <2>2. LET d == Execute(plan, NoExclusion)
        IN  PartsOf(plan, Exclude(plan, d, rows).execution, d,
                    Kept(d, rows, TheAggregate(plan) - 1))
    <3> HIDE DEF plan, rows
    <3>1. IncrementalShape(plan)  BY DEF plan
    <3> QED BY <1>1, <1>2, <2>1, <3>1, AnswerParts
  <2> QED BY <2>1, <2>2
<1>5. IsExecution(plan, b) /\ Scans(plan, b, NoExclusion) /\ \A i \in DOMAIN plan \ {0} : Follows(plan, b, i)
  <2>1. Execute(plan, NoExclusion).ok  BY DEF IsLive
  <2> HIDE DEF plan
  <2>2. LET x == b IN /\ x.tables[0] = Scan(plan[0], NoExclusion).table
                      /\ x.steps[0] = Scan(plan[0], NoExclusion).lineage
                      /\ \A i \in DOMAIN plan \ {0} : Follows(plan, x, i)
    BY <1>1, <2>1, ExecutionSteps
  <2> QED BY <1>1, <2>1, <2>2, ExecutionTyped DEF Scans
<1>6. IncrementalShape(plan) /\ row \in DOMAIN e.tables[n] /\ full.ok
  OBVIOUS
<1>7. PICK m \in M : c = [source_row |-> CHOOSE r \in SourceRows(e.steps, a - 1, {m}) : TRUE,
                          without |-> Without(op, e.tables[a - 1], M, m),
                          removes_group |-> op.grouped /\ Cardinality(M) = 1]
  BY DEF Contributions
<1>0. Execute(plan, NoExclusion).ok  BY DEF IsLive
<1> HIDE DEF plan, e, rows
<1>8. g \in DOMAIN e.tables[a]
  <2>1. \A i \in a + 1 .. n : plan[i].op # "aggregate" /\ Follows(plan, e, i)
    <3>1. \A i \in a + 1 .. n : i \in DOMAIN plan /\ i # a  BY <1>1, <1>3, PlanNodes
    <3> HIDE DEF a
    <3>2. \A i \in DOMAIN plan : i # a => plan[i].op # "aggregate"
      BY <1>1, <1>6, OneAggregate DEF a
    <3>3. \A i \in a + 1 .. n : Follows(plan, e, i)  BY <1>4 DEF PartsOf, a
    <3> QED BY <3>1, <3>2, <3>3
  <2>2. a \in DOMAIN plan  BY <1>3
  <2>3. \E h \in DOMAIN e.tables[a] : Backward(e.steps, n, {row}, a) = {h}
    <3> HIDE DEF a
    <3> QED BY <1>1, <1>6, <2>1, <2>2, OneBehind
  <2> HIDE DEF n, a
  <2>4. g = CHOOSE h \in Backward(e.steps, n, {row}, a) : TRUE  BY DEF GroupBehind, n, a
  <2> HIDE DEF g
  <2> QED BY <2>3, <2>4
<1> HIDE DEF n, a, g, b
<1>9. /\ IsTable(t) /\ K \in SUBSET DOMAIN t
  BY <1>3, <1>5 DEF IsExecution, Kept
<1> DEFINE r == [table |-> e.tables[a], lineage |-> e.steps[a]]
<1>10. IsAggregateIn(r, op, t, K)  BY <1>4 DEF PartsOf, a
<1>11. /\ e.tables[a - 1] = t
       /\ \A i \in 0 .. a - 1 : e.steps[i] = b.steps[i]
  <2>1. \A i \in 0 .. a - 1 : e.tables[i] = b.tables[i] /\ e.steps[i] = b.steps[i]
    BY <1>4 DEF PartsOf, a
  <2>2. a - 1 \in 0 .. a - 1  BY <1>3
  <2> QED BY <2>1, <2>2
<1>12. M = r.lineage.members[g] /\ g \in DOMAIN r.table /\ r.table[g] = e.tables[a][g]
  BY <1>8
<1>13. m \in K
  <2>1. M \subseteq K  BY <1>10, <1>12 DEF IsAggregateIn, Has
  <2> HIDE DEF M
  <2> QED BY <2>1
<1>14. s \in SourceRows(b.steps, a - 1, {m})
  <2> DEFINE j == a - 1
  <2>1. j \in Nat /\ j \in DOMAIN plan  BY <1>3
  <2>2. \A i \in 0 .. j : e.steps[i] = b.steps[i]  BY <1>11
  <2>3. \A i \in 1 .. j : KeepsRows(plan[i]) /\ Follows(plan, b, i)
    <3>1. \A i \in 1 .. j : i \in DOMAIN plan \ {0}  BY <2>1, <1>1, PlanNodes
    <3> QED BY <1>3, <1>5, <3>1
  <2>4. m \in DOMAIN b.tables[j]  BY <1>9, <1>13
  <2>5. s = CHOOSE x \in SourceRows(e.steps, j, {m}) : TRUE  BY <1>7
  <2> HIDE DEF j, s
  <2> DEFINE s1 == e.steps
             s2 == b.steps
             one == {m}
  <2>6. SourceRows(s1, j, one) = SourceRows(s2, j, one)
    <3>1. \A i \in 0 .. j : s1[i] = s2[i]  BY <2>2
    <3> HIDE DEF s1, s2, one
    <3> QED BY <2>1, <3>1, SourceRowsSame
  <2>7. \E z : z \in SourceRows(b.steps, j, {m})  BY <1>1, <1>5, <2>1, <2>3, <2>4, HasSource
  <2>8. s \in SourceRows(b.steps, j, {m})  BY <2>5, <2>6, <2>7
  <2> QED BY <2>8 DEF j
<1>15. s \in DOMAIN Snapshot[plan[0].snapshot]
  <2>1. m \in DOMAIN b.tables[a - 1]  BY <1>9, <1>13
  <2> QED BY <1>1, <1>3, <1>5, <1>14, <2>1, SourcesAreRows
<1>16. rows \cup {s} # NoExclusion
  <2>1. plan[0].snapshot \in DOMAIN Snapshot  BY <1>1 DEF IsPlan
  <2>2. rows \cup {s} \in SUBSET ((UNION RowSets)
                                   \cup UNION {DOMAIN Snapshot[x] : x \in DOMAIN Snapshot})
    <3> HIDE DEF s
    <3> QED BY <1>1, <1>15, <2>1
  <2> HIDE DEF s
  <2> QED BY <2>2, EngineAssumption
<1>17. Kept(b, rows \cup {s}, a - 1) = K \ {m}
  <2> DEFINE j == a - 1
  <2>1. j \in DOMAIN plan /\ m \in Kept(b, rows, j) /\ s \in SourceRows(b.steps, j, {m})
    BY <1>3, <1>13, <1>14
  <2> HIDE DEF j, s
  <2>2. \A x : x \in Kept(b, rows \cup {s}, j) <=> x \in Kept(b, rows, j) /\ x # m
    BY <1>1, <1>5, <2>1, KeptWithout
  <2>3. Kept(b, rows \cup {s}, j) = Kept(b, rows, j) \ {m}  BY <2>2
  <2> QED BY <2>3 DEF j
<1> DEFINE table == full.tables[a]
<1> DEFINE K2 == K \ {m}
<1>18. FitsIn(op, t, K2) /\ table = GroupsOf(op, t, K2)
  <2> DEFINE all == rows \cup {s}
  <2>1. all # NoExclusion /\ Execute(plan, all).ok  BY <1>6, <1>16
  <2> HIDE DEF all
  <2>2. LET a2 == TheAggregate(plan)
            op2 == plan[a2]
            b2 == Execute(plan, NoExclusion)
            t2 == b2.tables[a2 - 1]
            X == Kept(b2, all, a2 - 1)
            keys == Ascending(LeftKeys(op2, t2, X))
        IN  /\ FitsIn(op2, t2, X)
            /\ Execute(plan, all).tables[a2]
                 = [i \in DOMAIN keys |-> RowOf(op2, t2, keys[i], Has(op2, t2, X, keys[i]))]
    BY <1>0, <1>1, <1>6, <2>1, FullAggregate
  <2>3. /\ FitsIn(op, t, Kept(b, all, a - 1))
        /\ Execute(plan, all).tables[a] = GroupsOf(op, t, Kept(b, all, a - 1))
    BY <2>2 DEF a, b, GroupsOf
  <2>4. Kept(b, all, a - 1) = K2  BY <1>17 DEF all
  <2> HIDE DEF K, t, op, K2
  <2> QED BY <2>3, <2>4 DEF all
<1> HIDE DEF table
<1>19. SaidOf(table, e.tables[a][g].k, op, t, M, m)
  <2>1. m \in r.lineage.members[g] /\ g \in DOMAIN r.table /\ K2 = K \ {m}  BY <1>12
  <2> HIDE DEF K, t, op, r, K2
  <2>2. SaidOf(GroupsOf(op, t, K2), r.table[g].k, op, t, r.lineage.members[g], m)
    BY <1>3, <1>9, <1>10, <1>18, <2>1, GroupWithout
  <2> HIDE DEF M
  <2> QED BY <1>12, <1>18, <2>2
<1>20. /\ c.removes_group <=> (op.grouped /\ Cardinality(M) = 1)
       /\ c.without = Without(op, t, M, m)
  BY <1>7, <1>11
<1>21. SaysWhatARunGives(live, g, c, full)
  <2> HIDE DEF full, M, op, t
  <2> QED BY <1>19, <1>20 DEF SaysWhatARunGives, SaidOf, table, a, plan, e
<1> QED BY <1>21 DEF g, full, plan, e, rows

\* Leave-one-out values are those of really leaving the row out, in executions
\* and in counterfactuals of them, if a run without the row does not fail
\* (receipts-cf contributions).
THEOREM ContributionsMatch == Spec => []ContributionsMatchRuns
<1>1. EngineInvariant => ContributionsMatchRuns
  <2> SUFFICES ASSUME EngineInvariant, NEW id \in DOMAIN executions,
                      IncrementalShape(executions[id].plan),
                      NEW row \in DOMAIN executions[id].execution.tables[
                                            OutputNode(executions[id].plan)],
                      NEW c \in Contributions(executions[id].plan, executions[id].execution, row),
                      Execute(executions[id].plan, wanted[id] \cup {c.source_row}).ok
               PROVE  SaysWhatARunGives(executions[id],
                          GroupBehind(executions[id].plan, executions[id].execution, row), c,
                          Execute(executions[id].plan, wanted[id] \cup {c.source_row}))
    BY DEF ContributionsMatchRuns, EveryContribution
  <2>1. IsLive(executions[id]) /\ wanted[id] = executions[id].excluded
    BY DEF EngineInvariant
  <2> DEFINE live == executions[id]
  <2>2. /\ IsLive(live) /\ IncrementalShape(live.plan)
        /\ row \in DOMAIN live.execution.tables[OutputNode(live.plan)]
        /\ c \in Contributions(live.plan, live.execution, row)
        /\ Execute(live.plan, live.excluded \cup {c.source_row}).ok
    BY <2>1
  <2> HIDE DEF live
  <2>3. SaysWhatARunGives(live, GroupBehind(live.plan, live.execution, row), c,
                          Execute(live.plan, live.excluded \cup {c.source_row}))
    BY <2>2, ContributionIsRun
  <2> QED BY <2>1, <2>3 DEF live
<1> QED BY <1>1, EngineInvariantHolds, PTL

=============================================================================
