---------------------------- MODULE StepLineage ----------------------------
(***************************************************************************)
(* The row mappings one execution records, one per executed step, and how  *)
(* they compose (receipts-lineage/src/lib.rs).  A step's output rows are   *)
(* numbered from 0; a vector `rows[i]` of the code is a function on        *)
(* 0 .. len-1, and a group's slice rows[offsets[g]..offsets[g+1]] is the   *)
(* set of its members.  Row lists that the code keeps sorted and distinct  *)
(* are sets.                                                               *)
(***************************************************************************)
EXTENDS Integers, Sequences

CONSTANTS
    NumSteps,   \* how many steps the execution has
    Steps,      \* Steps[n]: the StepLineage record of step n
    Inputs,     \* Inputs[n]: the step that n reads, NoStep for a scan
    NoStep

Node == 0 .. NumSteps - 1

IsScan(n) == Steps[n].kind \in {"Source", "SourceSubset"}

\* Rows of the step's output: StepLineage::len.
OutRows(n) == 0 .. Steps[n].len - 1

\* Rows a step's mapping may point to: input_lens[n] of the store.
InRows(n) ==
    CASE Steps[n].kind = "Source"       -> 0 .. Steps[n].len - 1
      [] Steps[n].kind = "SourceSubset" -> 0 .. Steps[n].source_len - 1
      [] OTHER                          -> OutRows(Inputs[n])

Injective(f) == \A i, j \in DOMAIN f : f[i] = f[j] => i = j

(***************************************************************************)
(* What LineageStore::new asserts of step n before a store exists: scans   *)
(* read nothing, every other step reads an earlier one, and the mapping    *)
(* stays inside the input; a group's members are below the input's length  *)
(* and in one group only (distinct_below).                                 *)
(***************************************************************************)
FitsInput(n) ==
    /\ Steps[n].len \in Nat
    /\ IF IsScan(n) THEN Inputs[n] = NoStep ELSE Inputs[n] \in 0 .. n - 1
    /\ \/ Steps[n].kind = "Source"
       \/ /\ Steps[n].kind = "Identity"
          /\ Steps[n].len <= Steps[Inputs[n]].len
       \/ /\ Steps[n].kind \in {"Select", "SourceSubset"}
          /\ Steps[n].kind = "SourceSubset" => Steps[n].source_len \in Nat
          /\ Steps[n].rows \in [OutRows(n) -> InRows(n)]
       \/ /\ Steps[n].kind = "Group"
          /\ Steps[n].members \in [OutRows(n) -> SUBSET InRows(n)]
          /\ \A g, h \in OutRows(n) :
                g # h => Steps[n].members[g] \cap Steps[n].members[h] = {}

ASSUME StoreAssumption ==
    /\ NumSteps \in Nat
    /\ NoStep \notin Nat
    /\ \A n \in Node : FitsInput(n)

(***************************************************************************)
(* The executor writes each input row at most once into a selection: a     *)
(* filter keeps rows, a sort permutes them and an exclusion drops some.    *)
(* `new` does not check this; `forward` relies on it.                      *)
(***************************************************************************)
ASSUME SelectAssumption ==
    \A n \in Node :
        Steps[n].kind \in {"Select", "SourceSubset"} => Injective(Steps[n].rows)

AllRows == UNION {InRows(n) \cup OutRows(n) : n \in Node}

----------------------------------------------------------------------------
(* One step, backward and forward.                                         *)

\* The rows that row r of step n is made of: rows of its input or, for a
\* scan, of the snapshot.
Parents(n, r) ==
    CASE Steps[n].kind \in {"Source", "Identity"}     -> {r}
      [] Steps[n].kind \in {"Select", "SourceSubset"} -> {Steps[n].rows[r]}
      [] Steps[n].kind = "Group"                      -> Steps[n].members[r]

\* step_back for a step that reads another; for a scan, the snapshot rows
\* that backward reports as the last entry of the path.
StepBack(n, R) == UNION {Parents(n, r) : r \in R}

\* The u32::MAX that an inverse holds for a row that was dropped.
Dropped == -1

\* The array an inverse is filled with.  Rows are written in output order,
\* so a row that two outputs name keeps the last.
InverseOf(n) ==
    [r \in InRows(n) |->
        LET outs == {o \in OutRows(n) : r \in Parents(n, o)}
        IN  IF outs = {} THEN Dropped
            ELSE CHOOSE o \in outs : \A p \in outs : p <= o]

\* Mutant of StepForward: a limit cuts nothing.
StepForward_NoCut(n, R, inv) ==
    IF Steps[n].kind \in {"Source", "Identity"}
    THEN R
    ELSE {inv[r] : r \in R \cap InRows(n)} \ {Dropped}

\* One iteration of forward: the output rows of step n that the rows R of
\* its input (of the snapshot, for a scan) flow into, given the inverse inv.
StepForward(n, R, inv) ==
    IF Steps[n].kind \in {"Source", "Identity"}
    THEN {r \in R : r < Steps[n].len}
    ELSE {inv[r] : r \in R \cap InRows(n)} \ {Dropped}

\* Source and Identity steps need no inverse.
NeedsInverse(n) == Steps[n].kind \in {"Select", "SourceSubset", "Group"}

----------------------------------------------------------------------------
(***************************************************************************)
(* What a trace means, without following the code's loops.  A derivation   *)
(* along the steps c[1], c[2], ... (each reading the next) picks one row   *)
(* of every step, each made of the next one's.                             *)
(***************************************************************************)
IsChain(c) ==
    /\ \A i \in 1 .. Len(c) : c[i] \in Node
    /\ \A i \in 1 .. Len(c) - 1 : ~ IsScan(c[i]) /\ c[i + 1] = Inputs[c[i]]

Derivation(c, from, to, d) ==
    \A i \in from .. to - 1 : d[i + 1] \in Parents(c[i], d[i])

\* Rows of step c[k] that some row in R of step c[1] is made of.
Ancestors(c, R, k) ==
    {x \in AllRows : \E d \in [1 .. k -> AllRows] :
        d[1] \in R /\ d[k] = x /\ Derivation(c, 1, k, d)}

\* Rows of step c[k] that are made of some snapshot row in S, c being a
\* chain that ends at a scan.
Descendants(c, S, k) ==
    {x \in OutRows(c[k]) : \E d \in [k .. Len(c) -> AllRows] :
        /\ d[k] = x
        /\ Derivation(c, k, Len(c), d)
        /\ d[Len(c)] \in OutRows(c[Len(c)])
        /\ Parents(c[Len(c)], d[Len(c)]) \cap S # {}}

PathNodes(p) == [i \in DOMAIN p |-> p[i].node]

InRange(k) == k.row \in OutRows(k.node)

\* p is the trace of row k.row of step k.node: one entry per step from
\* k.node to its scan, each with exactly the rows that row is made of; the
\* scan's entry names snapshot rows.
IsTrace(k, p) ==
    LET c == PathNodes(p)
        n == Len(p)
    IN  /\ n >= 1
        /\ IsChain(c)
        /\ c[1] = k.node
        /\ IsScan(c[n])
        /\ \A i \in 1 .. n - 1 : p[i].rows = Ancestors(c, {k.row}, i)
        /\ p[n].rows = StepBack(c[n], Ancestors(c, {k.row}, n))
============================================================================
