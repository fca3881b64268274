---------------------------- MODULE ForwardTrace ----------------------------
(***************************************************************************)
(* LineageStore::forward: which rows of a step some snapshot rows flow     *)
(* into (receipts-lineage/src/lib.rs), called by several threads.  Its     *)
(* inverses are built on first use in a OnceLock per step: the first       *)
(* caller to need one builds it while the others wait.                     *)
(***************************************************************************)
EXTENDS StepLineage

CONSTANTS
    Thread,
    Questions,   \* the [scan, rows, node] calls threads make
    MaxCalls     \* bound: calls per thread

ASSUME QuestionAssumption ==
    /\ MaxCalls \in Nat
    /\ Questions \subseteq [scan : Node, rows : SUBSET Nat, node : Node]

VARIABLES
    cell,      \* cell[n]: the OnceLock of step n, empty, building or built
    inverses,  \* inverses[n]: the array it holds once built
    pc,        \* where in forward each thread is
    question,  \* what it was asked
    chain,     \* steps from the asked one down, while climbing and after
    pos,       \* the position in chain that `rows` are rows of the input of
    rows,      \* `current` in the code
    calls

vars == <<cell, inverses, pc, question, chain, pos, rows, calls>>

NoArray == << >>

----------------------------------------------------------------------------
Init ==
    /\ cell = [n \in Node |-> "empty"]
    /\ inverses = [n \in Node |-> NoArray]
    /\ pc = [t \in Thread |-> "idle"]
    /\ question \in [Thread -> Questions]
    /\ chain = [t \in Thread |-> << >>]
    /\ pos = [t \in Thread |-> 0]
    /\ rows = [t \in Thread |-> {}]
    /\ calls = [t \in Thread |-> 0]

Call(t) ==
    /\ pc[t] = "idle"
    /\ calls[t] < MaxCalls
    /\ calls' = [calls EXCEPT ![t] = @ + 1]
    /\ \E q \in Questions :
          /\ question' = [question EXCEPT ![t] = q]
          /\ chain' = [chain EXCEPT ![t] = <<q.node>>]
    /\ pc' = [pc EXCEPT ![t] = "check"]
    /\ UNCHANGED <<cell, inverses, pos, rows>>

\* The assertion that the step asked about is a scan.
Check(t) ==
    /\ pc[t] = "check"
    /\ pc' = [pc EXCEPT ![t] =
                IF IsScan(question[t].scan) THEN "climb" ELSE "panicked"]
    /\ UNCHANGED <<cell, inverses, question, chain, pos, rows, calls>>

Last(s) == s[Len(s)]

\* Mutant of Climb: it climbs on from a scan that is not the one asked about.
Climb_PastScan(t) ==
    /\ pc[t] = "climb"
    /\ Last(chain[t]) # question[t].scan
    /\ chain' = [chain EXCEPT ![t] = Append(@, Inputs[Last(@)])]
    /\ UNCHANGED <<cell, inverses, pc, question, pos, rows, calls>>

\* `while at != scan`: one step towards the scan, or a panic at another scan.
Climb(t) ==
    /\ pc[t] = "climb"
    /\ Last(chain[t]) # question[t].scan
    /\ ~ IsScan(Last(chain[t]))
    /\ chain' = [chain EXCEPT ![t] = Append(@, Inputs[Last(@)])]
    /\ UNCHANGED <<cell, inverses, pc, question, pos, rows, calls>>

WrongScan(t) ==
    /\ pc[t] = "climb"
    /\ Last(chain[t]) # question[t].scan
    /\ IsScan(Last(chain[t]))
    /\ pc' = [pc EXCEPT ![t] = "panicked"]
    /\ UNCHANGED <<cell, inverses, question, chain, pos, rows, calls>>

\* The chain reaches the scan: go back up it with the snapshot rows.
Turn(t) ==
    /\ pc[t] = "climb"
    /\ Last(chain[t]) = question[t].scan
    /\ rows' = [rows EXCEPT ![t] = question[t].rows]
    /\ pos' = [pos EXCEPT ![t] = Len(chain[t])]
    /\ pc' = [pc EXCEPT ![t] = "up"]
    /\ UNCHANGED <<cell, inverses, question, chain, calls>>

Here(t) == chain[t][pos[t]]

\* Mutant of BeginBuild: the cell is not claimed.
BeginBuild_Unclaimed(t) ==
    /\ pc[t] = "up"
    /\ pos[t] >= 1
    /\ NeedsInverse(Here(t))
    /\ cell[Here(t)] = "empty"
    /\ pc' = [pc EXCEPT ![t] = "build"]
    /\ UNCHANGED <<cell, inverses, question, chain, pos, rows, calls>>

\* get_or_init finds the cell empty: this caller builds the inverse.
BeginBuild(t) ==
    /\ pc[t] = "up"
    /\ pos[t] >= 1
    /\ NeedsInverse(Here(t))
    /\ cell[Here(t)] = "empty"
    /\ cell' = [cell EXCEPT ![Here(t)] = "building"]
    /\ pc' = [pc EXCEPT ![t] = "build"]
    /\ UNCHANGED <<inverses, question, chain, pos, rows, calls>>

\* Mutant of FinishBuild: the callers that wait are never woken.
FinishBuild_NoWake(t) ==
    /\ pc[t] = "build"
    /\ inverses' = [inverses EXCEPT ![Here(t)] = InverseOf(Here(t))]
    /\ pc' = [pc EXCEPT ![t] = "up"]
    /\ UNCHANGED <<cell, question, chain, pos, rows, calls>>

\* The array is complete: publish it, and let the callers that wait go on.
FinishBuild(t) ==
    /\ pc[t] = "build"
    /\ inverses' = [inverses EXCEPT ![Here(t)] = InverseOf(Here(t))]
    /\ cell' = [cell EXCEPT ![Here(t)] = "built"]
    /\ pc' = [pc EXCEPT ![t] = "up"]
    /\ UNCHANGED <<question, chain, pos, rows, calls>>

\* One iteration of the loop, the scan's own step first.  A step with an
\* inverse waits until some caller has built it.
Up(t) ==
    /\ pc[t] = "up"
    /\ pos[t] >= 1
    /\ NeedsInverse(Here(t)) => cell[Here(t)] = "built"
    /\ rows' = [rows EXCEPT ![t] = StepForward(Here(t), @, inverses[Here(t)])]
    /\ pos' = [pos EXCEPT ![t] = @ - 1]
    /\ UNCHANGED <<cell, inverses, pc, question, chain, calls>>

\* The asked step's rows are in `rows`.
Answer(t) ==
    /\ pc[t] = "up"
    /\ pos[t] = 0
    /\ pc' = [pc EXCEPT ![t] = "answered"]
    /\ UNCHANGED <<cell, inverses, question, chain, pos, rows, calls>>

Return(t) ==
    /\ pc[t] = "answered"
    /\ pc' = [pc EXCEPT ![t] = "idle"]
    /\ UNCHANGED <<cell, inverses, question, chain, pos, rows, calls>>

Run(t) ==
    \/ Check(t) \/ Climb(t) \/ WrongScan(t) \/ Turn(t)
    \/ BeginBuild(t) \/ FinishBuild(t) \/ Up(t) \/ Answer(t) \/ Return(t)

Next == \E t \in Thread : Call(t) \/ Run(t)

\* A thread inside a call keeps being scheduled; a thread that waits for a
\* OnceLock is woken once it is set.
Fairness == \A t \in Thread : WF_vars(Run(t))

Spec == Init /\ [][Next]_vars

FairSpec == Spec /\ Fairness

----------------------------------------------------------------------------
PCs == {"idle", "check", "climb", "up", "build", "answered", "panicked"}

\* Type correctness of the inverses and of every caller's locals.
TypeOK ==
    /\ cell \in [Node -> {"empty", "building", "built"}]
    /\ DOMAIN inverses = Node
    /\ \A n \in Node : inverses[n] \in {NoArray, InverseOf(n)}
    /\ pc \in [Thread -> PCs]
    /\ question \in [Thread -> Questions]
    /\ chain \in [Thread -> Seq(Node)]
    /\ pos \in [Thread -> Nat]
    /\ DOMAIN rows = Thread
    /\ \A t \in Thread : rows[t] \subseteq Nat
    /\ calls \in [Thread -> 0 .. MaxCalls]

\* An inverse is built by one caller at a time, who is still at it, and is
\* never read half filled: a built cell holds the step's whole inverse.
InversesSound ==
    /\ \A n \in Node : cell[n] = "built" => inverses[n] = InverseOf(n)
    /\ \A t \in Thread : pc[t] = "build" => cell[Here(t)] = "building"
    /\ \A t, u \in Thread :
          pc[t] = "build" /\ pc[u] = "build" /\ Here(t) = Here(u) => t = u

\* forward is the converse of backward: the answer is exactly the rows of
\* the step that some snapshot row asked about is part of, following the
\* same parents a backward trace does.  Rows that a filter, a limit or an
\* exclusion dropped reach nothing.
ForwardInvertsBackward ==
    \A t \in Thread :
        pc[t] = "answered" =>
            LET c == chain[t] IN
            /\ IsChain(c)
            /\ c[1] = question[t].node
            /\ Last(c) = question[t].scan
            /\ rows[t] = Descendants(c, question[t].rows, 1)

\* Nobody waits for ever for an inverse that another thread builds: a call
\* returns, or panics on steps that do not belong together.
CallsReturn ==
    \A t \in Thread : (pc[t] = "check") ~> (pc[t] \in {"answered", "panicked"})
=============================================================================
