------------------------------ MODULE PlanShape ------------------------------
(***************************************************************************)
(* What validation asks of a plan before it looks at names and types       *)
(* (receipts-plan/src/plan.rs, validate): a plan is a list of steps, here a *)
(* function on 0 .. n-1, each of which but a scan reads one step, and one  *)
(* of them is the output.                                                  *)
(***************************************************************************)
EXTENDS Integers

Reads(op) == op.op # "scan"

\* Every step reads one that comes before it.
InOrder(plan) ==
    \A i \in DOMAIN plan : Reads(plan[i]) => plan[i].input \in 0 .. i - 1

\* U is what the pass from the last step to the first leaves marked: the
\* output, and whatever a marked step reads.
Marks(U, plan, n, output) ==
    U = {i \in 0 .. n - 1 :
            \/ i = output
            \/ \E j \in U : Reads(plan[j]) /\ plan[j].input = i}

\* Mutant of WellShaped: steps that lead nowhere are let through.
WellShaped_Unmarked(plan, n, output) ==
    n > 0 /\ output \in 0 .. n - 1 /\ InOrder(plan)

\* A valid plan's steps all lead to the output.
WellShaped(plan, n, output) ==
    /\ n > 0 /\ output \in 0 .. n - 1
    /\ InOrder(plan)
    /\ \E U \in SUBSET (0 .. n - 1) :
          Marks(U, plan, n, output) /\ \A i \in 0 .. n - 1 : i \in U

\* Step 0 is the only scan, every other step reads the one before it, and the
\* last one is the output.
Chained(plan, n, output) ==
    /\ output = n - 1
    /\ ~ Reads(plan[0])
    /\ \A i \in 1 .. n - 1 : Reads(plan[i]) /\ plan[i].input = i - 1
=============================================================================
