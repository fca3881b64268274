------------------------------- MODULE Engine -------------------------------
(***************************************************************************)
(* A session of the engine behind the JavaScript API                       *)
(* (receipts-wasm/src/engine.rs): loaded snapshots and live executions,    *)
(* each kept under an id until it is dropped.  Calls are synchronous, one  *)
(* at a time; the queries that leave the engine as it was are operators.   *)
(***************************************************************************)
EXTENDS Counterfactual

CONSTANTS
    Plans,       \* the plans the page runs
    RowSets,     \* the snapshot rows it asks to leave out
    NoBase,
    MaxRuns,     \* bound: executions from `run` live at once
    MaxIds       \* bound: ids given out

\* What validation lets through: a scan of a snapshot, then steps whose
\* arguments have their types.
IsStep(op) ==
    \/ op.op \in {"map", "project"}
    \/ op.op = "filter" /\ op.least \in Int
    \/ op.op = "sort" /\ op.by \in {"k", "n"} /\ op.descending \in BOOLEAN
    \/ op.op = "limit" /\ op.count \in Nat
    \/ /\ op.op = "aggregate" /\ op.grouped \in BOOLEAN
       /\ op.func \in {"count", "count_non_null", "sum", "median", "min", "max",
                       "percentile"}
       /\ op.func = "percentile" => op.p \in 1 .. 99

IsPlan(plan) ==
    /\ IsFiniteSet(DOMAIN plan) /\ DOMAIN plan = 0 .. OutputNode(plan)
    /\ 0 \in DOMAIN plan
    /\ plan[0].op = "scan" /\ plan[0].snapshot \in DOMAIN Snapshot
    /\ \A i \in DOMAIN plan \ {0} : IsStep(plan[i])

ASSUME EngineAssumption ==
    /\ NoBase \notin Nat /\ MaxRuns \in Nat /\ MaxIds \in Nat
    /\ \A plan \in Plans : IsPlan(plan)
    /\ \A rows \in RowSets : rows \in SUBSET Nat
    /\ \A rows \in SUBSET ((UNION RowSets)
                               \cup UNION {DOMAIN Snapshot[s] : s \in DOMAIN Snapshot}) :
          rows # NoExclusion

VARIABLES
    loaded,       \* the snapshots that were verified and loaded
    executions,   \* id -> [plan, execution, base, excluded]
    next_id,
    reply,        \* how the last call ended
    wanted        \* history: id -> the rows its answers must do without

vars == <<loaded, executions, next_id, reply, wanted>>

----------------------------------------------------------------------------
Init ==
    /\ loaded = {}
    /\ executions = << >>
    /\ next_id = 0
    /\ reply = "none"
    /\ wanted = << >>

\* The engine still answers: a panic would leave it unusable.
Usable == reply # "panicked"

LoadSnapshot(s) ==
    /\ Usable
    /\ loaded' = loaded \cup {s}
    /\ reply' = "ok"
    /\ UNCHANGED <<executions, next_id, wanted>>

Refused ==
    /\ reply' = "error"
    /\ UNCHANGED <<loaded, executions, next_id, wanted>>

\* f with x mapped to y, whether or not x is in f's domain.
With(f, x, y) == [z \in DOMAIN f \cup {x} |-> IF z = x THEN y ELSE f[z]]

\* Mutants of Register: the id is counted up before it is used, and the next
\* id is the number of live executions.
Register_CountedFirst(live, rows) ==
    /\ executions' = With(executions, next_id + 1, live)
    /\ wanted' = With(wanted, next_id + 1, rows)
    /\ next_id' = next_id + 1
    /\ reply' = "ok"
    /\ UNCHANGED loaded

Register_IdReused(live, rows) ==
    /\ executions' = With(executions, Cardinality(DOMAIN executions), live)
    /\ wanted' = With(wanted, Cardinality(DOMAIN executions), rows)
    /\ next_id' = next_id + 1
    /\ reply' = "ok"
    /\ UNCHANGED loaded

\* register: the next id is the execution's for good.
Register(live, rows) ==
    /\ executions' = With(executions, next_id, live)
    /\ wanted' = With(wanted, next_id, rows)
    /\ next_id' = next_id + 1
    /\ reply' = "ok"
    /\ UNCHANGED loaded

Runs == {id \in DOMAIN executions : executions[id].base = NoBase}

\* Validation needs the plan's snapshot to be loaded.
Run(plan) ==
    /\ Usable
    /\ next_id < MaxIds
    /\ Cardinality(Runs) < MaxRuns
    /\ LET e == Execute(plan, NoExclusion)
       IN  IF plan[0].snapshot \in loaded /\ e.ok
           THEN Register([plan |-> plan, execution |-> e,
                          base |-> NoBase, excluded |-> {}], {})
           ELSE Refused

\* Mutant of BaseOf: a counterfactual is its own base.
BaseOf_Itself(id) == id

\* An exclusion from a counterfactual is one from the execution it came
\* from, of both row sets.
BaseOf(id) ==
    IF executions[id].base = NoBase THEN id ELSE executions[id].base

AllExcluded(id, rows) == executions[id].excluded \cup rows

Exclusion(id, rows) ==
    LET base == executions[BaseOf(id)]
    IN  Exclude(base.plan, base.execution, AllExcluded(id, rows))

ExcludeRows(id, rows) ==
    /\ Usable
    /\ next_id < MaxIds
    /\ IF id \notin DOMAIN executions THEN Refused
       ELSE IF BaseOf(id) \notin DOMAIN executions THEN Refused
       ELSE IF ~ Exclusion(id, rows).ok THEN Refused
       ELSE Register([plan |-> executions[BaseOf(id)].plan,
                      execution |-> Exclusion(id, rows).execution,
                      base |-> BaseOf(id),
                      excluded |-> AllExcluded(id, rows)],
                     wanted[id] \cup rows)

DropExecution(id) ==
    /\ Usable
    /\ id \in DOMAIN executions
    /\ executions' = [i \in DOMAIN executions \ {id} |-> executions[i]]
    /\ wanted' = [i \in DOMAIN wanted \ {id} |-> wanted[i]]
    /\ reply' = "ok"
    /\ UNCHANGED <<loaded, next_id>>

\* Leave-one-out values of one row of the output.  backward_row asserts that
\* the row exists.
AskContributions(id, row) ==
    /\ Usable
    /\ id \in DOMAIN executions
    /\ reply' = LET e == executions[id]
                    out == e.execution.tables[OutputNode(e.plan)]
                IN  IF ~ IncrementalShape(e.plan) THEN "error"
                    ELSE IF row \in DOMAIN out THEN "ok" ELSE "panicked"
    /\ UNCHANGED <<loaded, executions, next_id, wanted>>

Ids == 0 .. MaxIds - 1

Next ==
    \/ \E s \in DOMAIN Snapshot : LoadSnapshot(s)
    \/ \E p \in Plans : Run(p)
    \/ \E id \in Ids, rows \in RowSets : ExcludeRows(id, rows)
    \/ \E id \in Ids : DropExecution(id)
    \/ \E id \in Ids, row \in 0 .. 1 : AskContributions(id, row)

Spec == Init /\ [][Next]_vars
----------------------------------------------------------------------------
(* trace_forward: where one snapshot row goes in an execution.             *)

Went(live, row, step) == Forward(live.execution.steps, {row}, step)

\* Why the step that drops a row does so.  `at` is the row it arrived as.
Reason(live, step, at) ==
    LET op == live.plan[step]
    IN  CASE op.op = "scan" -> "excluded"
          [] op.op = "filter" ->
                IF Holds(op, live.execution.tables[step - 1][at])
                THEN "kept by the filter" ELSE "filter"
          [] op.op = "limit" ->
                IF at < op.count THEN "inside the limit" ELSE "limit"
          [] OTHER -> "other"

TheRow(R) == CHOOSE r \in R : \A x \in R : r <= x

\* Mutant of ForwardAnswer: the row is followed even if it was left out, as if
\* the reused scan could tell.
ForwardAnswer_Followed(live, row) ==
    LET out == OutputNode(live.plan)
        drops == {i \in 0 .. out : Went(live, row, i) = {}}
        step == CHOOSE i \in drops : \A j \in drops : i <= j
    IN  IF drops = {}
        THEN [reaches |-> TRUE, output_row |-> TheRow(Went(live, row, out))]
        ELSE [reaches |-> FALSE, step |-> step,
              reason |-> Reason(live, step,
                                IF step = 0 THEN row
                                ELSE TheRow(Went(live, row, step - 1)))]

ForwardAnswer(live, row) ==
    LET out == OutputNode(live.plan)
        drops == {i \in 0 .. out : Went(live, row, i) = {}}
        step == CHOOSE i \in drops : \A j \in drops : i <= j
    IN  IF row \in live.excluded
        THEN [reaches |-> FALSE, step |-> 0, reason |-> "excluded"]
        ELSE IF drops = {}
        THEN [reaches |-> TRUE, output_row |-> TheRow(Went(live, row, out))]
        ELSE [reaches |-> FALSE, step |-> step,
              reason |-> Reason(live, step,
                                IF step = 0 THEN row
                                ELSE TheRow(Went(live, row, step - 1)))]

----------------------------------------------------------------------------
\* The steps that show an exclusion: from the aggregate on if only its
\* groups are recomputed, else all of them.
Shown(plan) ==
    IF IncrementalShape(plan) THEN TheAggregate(plan) .. OutputNode(plan)
    ELSE DOMAIN plan

\* An execution and the full run r agree on step n: the same rows, made of
\* the same snapshot rows.
SameAt(e, r, n) ==
    /\ e.tables[n] = r.tables[n]
    /\ \A row \in DOMAIN e.tables[n] :
          SourceRows(e.steps, n, {row}) = SourceRows(r.steps, n, {row})

\* Whatever chain of exclusions an execution came from, and however it was
\* derived, its numbers and their traces are those of running the plan on
\* the snapshot without every row left out on the way (Engine::exclude,
\* receipts-cf exclude).
CounterfactualsAreFullRuns ==
    \A id \in DOMAIN executions :
        LET live == executions[id]
            full == Execute(live.plan, wanted[id])
        IN  full.ok /\ \A n \in Shown(live.plan) :
                            SameAt(live.execution, full, n)

\* The two directions of a trace agree in every live execution: a snapshot
\* row is said to reach an output row exactly if that row's trace names it
\* (Engine::trace_forward, trace_back).
TracesAgree ==
    \A id \in DOMAIN executions :
        LET live == executions[id]
            out == OutputNode(live.plan)
        IN  \A row \in DOMAIN Snapshot[live.plan[0].snapshot] :
                LET answer == ForwardAnswer(live, row)
                IN  \A o \in DOMAIN live.execution.tables[out] :
                        row \in SourceRows(live.execution.steps, out, {o})
                            <=> answer.reaches /\ answer.output_row = o

\* A row that stops is told a reason that is true of it: it was left out, a
\* filter does not hold for it, or it is past a limit (trace_forward).
StopsAreExplained ==
    \A id \in DOMAIN executions :
        \A row \in DOMAIN Snapshot[executions[id].plan[0].snapshot] :
            LET answer == ForwardAnswer(executions[id], row)
            IN  ~ answer.reaches =>
                    /\ answer.reason \in {"excluded", "filter", "limit"}
                    /\ answer.reason = "excluded" <=> row \in wanted[id]

\* An exclusion fails exactly when running the plan without the rows would
\* (receipts-cf exclude: the two paths also fail alike).
ExclusionsFailAlike ==
    \A id \in DOMAIN executions : \A rows \in RowSets :
        BaseOf(id) \in DOMAIN executions =>
            (Exclusion(id, rows).ok
                <=> Execute(executions[id].plan, wanted[id] \cup rows).ok)

\* What contributions say of row c.source_row is what a run without it gives
\* in the same group.
SaysWhatARunGives(live, g, c, full) ==
    LET a == TheAggregate(live.plan)
        t == full.tables[a]
        found == {i \in DOMAIN t : t[i].k = live.execution.tables[a][g].k}
    IN  IF c.removes_group THEN found = {}
        ELSE \E i \in found : t[i].n = c.without


\* P of every contribution to every number the live executions show.
EveryContribution(P(_, _, _, _)) ==
    \A id \in DOMAIN executions :
        LET live == executions[id]
        IN  IncrementalShape(live.plan) =>
            \A row \in DOMAIN live.execution.tables[OutputNode(live.plan)] :
                LET g == GroupBehind(live.plan, live.execution, row)
                IN  \A c \in Contributions(live.plan, live.execution, row) :
                        P(live, g, c, Execute(live.plan,
                                              wanted[id] \cup {c.source_row}))

\* Leave-one-out values are those of really leaving the row out, in
\* executions and in counterfactuals of them (receipts-cf contributions).
ContributionsMatchRuns ==
    EveryContribution(LAMBDA live, g, c, full :
        full.ok => SaysWhatARunGives(live, g, c, full))

\* "Every other function is exact" (receipts-cf/src/lib.rs:228): a value
\* that contributions calls exact is the value of a run without the row.
ExactContributionsAreRuns ==
    EveryContribution(LAMBDA live, g, c, full :
        full.ok /\ SaysWhatARunGives(live, g, c, full))

\* An id the page holds keeps naming the same execution until it is dropped,
\* and is never given to another one (Engine::register).
HandlesStable ==
    [][/\ next_id' >= next_id
       /\ \A id \in DOMAIN executions' :
             \/ id \in DOMAIN executions /\ executions'[id] = executions[id]
             \/ id >= next_id /\ id < next_id']_vars

\* "Errors become thrown JS exceptions with a plain-English message"
\* (receipts-wasm/src/lib.rs:5): no call panics.
CallsNeverPanic == reply # "panicked"
=============================================================================
