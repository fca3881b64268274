------------------------- MODULE StepLineage_proofs -------------------------
(***************************************************************************)
(* Facts about one step's mapping and about derivations, used by the       *)
(* proofs about backward and forward traces.                               *)
(***************************************************************************)
EXTENDS StepLineage, NaturalSets

\* A scan reads nothing; any other step reads an earlier one.
LEMMA InputsAreNodes ==
    ASSUME NEW n \in Node, ~ IsScan(n)
    PROVE  Inputs[n] \in Node /\ InRows(n) = OutRows(Inputs[n])
<1>1. FitsInput(n)  BY StoreAssumption
<1>2. Inputs[n] \in 0 .. n - 1  BY <1>1 DEF FitsInput
<1>3. Inputs[n] \in Node  BY <1>2, StoreAssumption DEF Node
<1>4. InRows(n) = OutRows(Inputs[n])  BY DEF InRows, IsScan
<1> QED BY <1>3, <1>4

\* Every step is of one of the five kinds.
LEMMA StepKinds ==
    ASSUME NEW n \in Node
    PROVE  Steps[n].kind \in {"Source", "SourceSubset", "Identity", "Select", "Group"}
<1>1. FitsInput(n)  BY StoreAssumption
<1> QED BY <1>1 DEF FitsInput

\* A row's parents are rows that the step's input has.
LEMMA ParentsInRange ==
    ASSUME NEW n \in Node, NEW r \in OutRows(n)
    PROVE  Parents(n, r) \subseteq InRows(n)
<1>1. FitsInput(n)  BY StoreAssumption
<1>2. CASE Steps[n].kind = "Source"
  BY <1>1, <1>2 DEF FitsInput, Parents, InRows, OutRows
<1>3. CASE Steps[n].kind = "Identity"
  <2>1. ~ IsScan(n)  BY <1>3 DEF IsScan
  <2>2. InRows(n) = OutRows(Inputs[n]) /\ Inputs[n] \in Node
    BY <2>1, InputsAreNodes
  <2>3. FitsInput(Inputs[n])  BY <2>2, StoreAssumption
  <2> QED BY <1>1, <1>3, <2>2, <2>3 DEF FitsInput, Parents, OutRows
<1>4. CASE Steps[n].kind \in {"Select", "SourceSubset"}
  BY <1>1, <1>4 DEF FitsInput, Parents
<1>5. CASE Steps[n].kind = "Group"
  BY <1>1, <1>5 DEF FitsInput, Parents
<1> QED BY <1>2, <1>3, <1>4, <1>5, StepKinds

LEMMA RowsAreRows ==
    ASSUME NEW n \in Node
    PROVE  OutRows(n) \subseteq AllRows /\ InRows(n) \subseteq AllRows
BY DEF AllRows

LEMMA StepBackInRange ==
    ASSUME NEW n \in Node, NEW R \in SUBSET OutRows(n)
    PROVE  StepBack(n, R) \subseteq InRows(n)
BY ParentsInRange DEF StepBack

----------------------------------------------------------------------------
\* Derivations of k rows only look at the first k - 1 steps.
LEMMA AncestorsAgree ==
    ASSUME NEW c, NEW e, NEW R, NEW k \in Nat,
           \A i \in 1 .. k - 1 : c[i] = e[i]
    PROVE  Ancestors(c, R, k) = Ancestors(e, R, k)
BY DEF Ancestors, Derivation

\* The clicked row is its own and only ancestor at the first step.
LEMMA AncestorsFirst ==
    ASSUME NEW c, NEW r \in AllRows
    PROVE  Ancestors(c, {r}, 1) = {r}
<1>1. ASSUME NEW x \in Ancestors(c, {r}, 1) PROVE x = r
  BY DEF Ancestors
<1>2. r \in Ancestors(c, {r}, 1)
  <2> DEFINE d == [i \in 1 .. 1 |-> r]
  <2>1. d \in [1 .. 1 -> AllRows] /\ d[1] = r  OBVIOUS
  <2>2. Derivation(c, 1, 1, d)  BY DEF Derivation
  <2> QED BY <2>1, <2>2 DEF Ancestors
<1> QED BY <1>1, <1>2

\* One more step of a chain: the ancestors there are the parents of the
\* ancestors here.
LEMMA AncestorsStep ==
    ASSUME NEW c, NEW R, NEW k \in Nat \ {0},
           c[k] \in Node,
           Ancestors(c, R, k) \subseteq OutRows(c[k])
    PROVE  Ancestors(c, R, k + 1) = StepBack(c[k], Ancestors(c, R, k))
<1>1. ASSUME NEW x \in Ancestors(c, R, k + 1)
      PROVE  x \in StepBack(c[k], Ancestors(c, R, k))
  <2>1. PICK d \in [1 .. k + 1 -> AllRows] :
            d[1] \in R /\ d[k + 1] = x /\ Derivation(c, 1, k + 1, d)
    BY <1>1 DEF Ancestors
  <2> DEFINE e == [i \in 1 .. k |-> d[i]]
  <2>2. e \in [1 .. k -> AllRows] /\ e[1] = d[1]  BY <2>1
  <2>3. Derivation(c, 1, k, e)  BY <2>1 DEF Derivation
  <2>4. d[k] \in Ancestors(c, R, k)  BY <2>1, <2>2, <2>3 DEF Ancestors
  <2>5. d[k + 1] \in Parents(c[k], d[k])  BY <2>1 DEF Derivation
  <2> QED BY <2>1, <2>4, <2>5 DEF StepBack
<1>2. ASSUME NEW x \in StepBack(c[k], Ancestors(c, R, k))
      PROVE  x \in Ancestors(c, R, k + 1)
  <2>1. PICK y \in Ancestors(c, R, k) : x \in Parents(c[k], y)
    BY <1>2 DEF StepBack
  <2>2. PICK d \in [1 .. k -> AllRows] :
            d[1] \in R /\ d[k] = y /\ Derivation(c, 1, k, d)
    BY <2>1 DEF Ancestors
  <2>3. x \in AllRows  BY <2>1, ParentsInRange, RowsAreRows
  <2> DEFINE e == [i \in 1 .. k + 1 |-> IF i <= k THEN d[i] ELSE x]
  <2>4. e \in [1 .. k + 1 -> AllRows] /\ e[1] = d[1] /\ e[k + 1] = x
    BY <2>2, <2>3
  <2>5. Derivation(c, 1, k + 1, e)
    <3> SUFFICES ASSUME NEW i \in 1 .. k
                 PROVE  e[i + 1] \in Parents(c[i], e[i])
      BY DEF Derivation
    <3>1. CASE i = k  BY <3>1, <2>1, <2>2
    <3>2. CASE i < k  BY <3>2, <2>2 DEF Derivation
    <3> QED BY <3>1, <3>2
  <2> HIDE DEF e
  <2> QED BY <2>2, <2>3, <2>4, <2>5 DEF Ancestors
<1> QED BY <1>1, <1>2

----------------------------------------------------------------------------
\* A row has one trace: two that satisfy IsTrace are equal, entry by entry.  So
\* invariants that say of a trace that it is one say which one it is.
LEMMA TraceUnique ==
    ASSUME NEW k, NEW p, NEW q,
           NEW S, p \in Seq(S), q \in Seq(S),
           \A e \in S : e = [node |-> e.node, rows |-> e.rows],
           IsTrace(k, p), IsTrace(k, q)
    PROVE  p = q
<1> DEFINE c == PathNodes(p)
           d == PathNodes(q)
           m == Len(p)
           n == Len(q)
<1>1. /\ m \in Nat \ {0} /\ n \in Nat \ {0}
      /\ Len(c) = m /\ Len(d) = n
      /\ \A i \in 1 .. m : c[i] = p[i].node
      /\ \A i \in 1 .. n : d[i] = q[i].node
  <2>1. c = [i \in 1 .. m |-> p[i].node] /\ d = [i \in 1 .. n |-> q[i].node]
    BY DEF PathNodes
  <2>2. m \in Nat /\ n \in Nat  OBVIOUS
  <2>3. c \in Seq({p[i].node : i \in 1 .. m}) /\ d \in Seq({q[i].node : i \in 1 .. n})
    BY <2>1, <2>2
  <2> QED BY <2>1, <2>2, <2>3 DEF IsTrace
<1>2. /\ c[1] = k.node /\ d[1] = k.node
      /\ IsScan(c[m]) /\ IsScan(d[n])
      /\ \A i \in 1 .. m - 1 : ~ IsScan(c[i]) /\ c[i + 1] = Inputs[c[i]]
      /\ \A i \in 1 .. n - 1 : ~ IsScan(d[i]) /\ d[i + 1] = Inputs[d[i]]
      /\ \A i \in 1 .. m - 1 : p[i].rows = Ancestors(c, {k.row}, i)
      /\ \A i \in 1 .. n - 1 : q[i].rows = Ancestors(d, {k.row}, i)
      /\ p[m].rows = StepBack(c[m], Ancestors(c, {k.row}, m))
      /\ q[n].rows = StepBack(d[n], Ancestors(d, {k.row}, n))
  BY <1>1 DEF IsTrace, IsChain
<1> HIDE DEF c, d
\* The nodes agree as long as both go on.
<1>3. \A i \in Nat : i + 1 <= m /\ i + 1 <= n => c[i + 1] = d[i + 1]
  <2> DEFINE T == {i \in Nat : i + 1 <= m /\ i + 1 <= n => c[i + 1] = d[i + 1]}
  <2>1. 0 \in T  BY <1>2
  <2>2. ASSUME NEW i \in Nat, i \in T PROVE i + 1 \in T
    <3> SUFFICES ASSUME (i + 1) + 1 <= m, (i + 1) + 1 <= n
                 PROVE  c[(i + 1) + 1] = d[(i + 1) + 1]
      OBVIOUS
    <3>1. i + 1 \in 1 .. m - 1 /\ i + 1 \in 1 .. n - 1  BY <1>1
    <3>2. c[i + 1] = d[i + 1]  BY <2>2, <3>1, <1>1
    <3> QED BY <3>1, <3>2, <1>2
  <2>3. \A i \in Nat : i \in T => i + 1 \in T  BY <2>2
  <2> HIDE DEF T
  <2>4. Nat \subseteq T  BY <2>1, <2>3, SetInduction
  <2> QED BY <2>4 DEF T
<1>4. \A i \in 1 .. m : i <= n => c[i] = d[i]
  <2> SUFFICES ASSUME NEW i \in 1 .. m, i <= n PROVE c[i] = d[i]
    OBVIOUS
  <2>1. i - 1 \in Nat /\ (i - 1) + 1 = i  BY <1>1
  <2> QED BY <2>1, <1>1, <1>3
<1>5. m = n
  <2>1. ~ (m < n)
    <3> SUFFICES ASSUME m < n PROVE FALSE  OBVIOUS
    <3>1. m \in 1 .. n - 1 /\ m \in 1 .. m /\ m <= n  BY <1>1
    <3>2. c[m] = d[m]  BY <3>1, <1>4
    <3>3. ~ IsScan(d[m])  BY <3>1, <1>2
    <3>4. IsScan(c[m])  BY <1>2
    <3> HIDE DEF m, n
    <3> QED BY <3>2, <3>3, <3>4
  <2>2. ~ (n < m)
    <3> SUFFICES ASSUME n < m PROVE FALSE  OBVIOUS
    <3>1. n \in 1 .. m - 1 /\ n \in 1 .. m /\ n <= n  BY <1>1
    <3>2. c[n] = d[n]  BY <3>1, <1>4
    <3>3. ~ IsScan(c[n])  BY <3>1, <1>2
    <3>4. IsScan(d[n])  BY <1>2
    <3> HIDE DEF m, n
    <3> QED BY <3>2, <3>3, <3>4
  <2> QED BY <2>1, <2>2, <1>1
<1>6. \A i \in 1 .. m : c[i] = d[i]  BY <1>4, <1>5
<1>7. \A i \in 1 .. m : Ancestors(c, {k.row}, i) = Ancestors(d, {k.row}, i)
  <2> SUFFICES ASSUME NEW i \in 1 .. m
               PROVE  Ancestors(c, {k.row}, i) = Ancestors(d, {k.row}, i)
    OBVIOUS
  <2>1. i \in Nat /\ \A j \in 1 .. i - 1 : c[j] = d[j]  BY <1>1, <1>6
  <2> QED BY <2>1, AncestorsAgree
<1>8. \A i \in 1 .. m : p[i].node = q[i].node /\ p[i].rows = q[i].rows
  <2> SUFFICES ASSUME NEW i \in 1 .. m
               PROVE  p[i].node = q[i].node /\ p[i].rows = q[i].rows
    OBVIOUS
  <2>1. p[i].node = q[i].node  BY <1>1, <1>5, <1>6
  <2>2. CASE i \in 1 .. m - 1
    <3>1. p[i].rows = Ancestors(c, {k.row}, i)  BY <2>2, <1>2
    <3>2. i \in 1 .. n - 1  BY <2>2, <1>5
    <3>3. q[i].rows = Ancestors(d, {k.row}, i)  BY <3>2, <1>2
    <3> QED BY <2>1, <3>1, <3>3, <1>7
  <2>3. CASE i = m
    <3>1. p[i].rows = StepBack(c[m], Ancestors(c, {k.row}, m))  BY <2>3, <1>2
    <3>2. q[i].rows = StepBack(d[n], Ancestors(d, {k.row}, n))
      BY <2>3, <1>2, <1>5
    <3>3. c[m] = d[m] /\ Ancestors(c, {k.row}, m) = Ancestors(d, {k.row}, m)
      BY <2>3, <1>6, <1>7
    <3> QED BY <2>1, <3>1, <3>2, <3>3, <1>5
  <2> QED BY <2>2, <2>3, <1>1
<1>9. \A i \in 1 .. m : p[i] = q[i]
  <2> SUFFICES ASSUME NEW i \in 1 .. m PROVE p[i] = q[i]
    OBVIOUS
  <2>1. p[i] \in S /\ q[i] \in S  BY <1>5
  <2>2. /\ p[i] = [node |-> p[i].node, rows |-> p[i].rows]
        /\ q[i] = [node |-> q[i].node, rows |-> q[i].rows]
    BY <2>1
  <2> QED BY <2>2, <1>8
<1> QED BY <1>5, <1>9

----------------------------------------------------------------------------
(***************************************************************************)
(* Forward: an inverse answers for one output row at most, so following it *)
(* up is the converse of following parents down.                           *)
(***************************************************************************)
\* A row of the input is part of one output row at most.
LEMMA OneChild ==
    ASSUME NEW n \in Node, NEW r, NEW o \in OutRows(n), NEW p \in OutRows(n),
           NeedsInverse(n), r \in Parents(n, o), r \in Parents(n, p)
    PROVE  o = p
<1>1. FitsInput(n)  BY StoreAssumption
<1>2. CASE Steps[n].kind \in {"Select", "SourceSubset"}
  <2>1. Injective(Steps[n].rows)  BY <1>2, SelectAssumption
  <2>2. DOMAIN Steps[n].rows = OutRows(n)  BY <1>1, <1>2 DEF FitsInput
  <2>3. Steps[n].rows[o] = r /\ Steps[n].rows[p] = r  BY <1>2 DEF Parents
  <2> QED BY <2>1, <2>2, <2>3 DEF Injective
<1>3. CASE Steps[n].kind = "Group"
  <2>1. r \in Steps[n].members[o] \cap Steps[n].members[p]
    BY <1>3 DEF Parents
  <2> QED BY <1>1, <1>3, <2>1 DEF FitsInput
<1> QED BY <1>2, <1>3 DEF NeedsInverse

\* What the inverse array of a step holds.
LEMMA InverseFinds ==
    ASSUME NEW n \in Node, NeedsInverse(n), NEW r \in InRows(n)
    PROVE  /\ \A o \in OutRows(n) : InverseOf(n)[r] = o <=> r \in Parents(n, o)
           /\ InverseOf(n)[r] \in OutRows(n) \cup {Dropped}
           /\ Dropped \notin OutRows(n)
<1> DEFINE outs == {o \in OutRows(n) : r \in Parents(n, o)}
<1>1. InverseOf(n)[r] = IF outs = {} THEN Dropped
                        ELSE CHOOSE o \in outs : \A p \in outs : p <= o
  BY DEF InverseOf
<1>2. Dropped \notin OutRows(n)  BY DEF Dropped, OutRows
<1>3. CASE outs = {}  BY <1>1, <1>2, <1>3
<1>4. ASSUME NEW o \in outs PROVE InverseOf(n)[r] = o
  <2>1. \A p \in outs : p = o  BY OneChild
  <2>2. o <= o  BY DEF OutRows
  <2>3. \E q \in outs : \A p \in outs : p <= q  BY <2>1, <2>2
  <2>4. (CHOOSE q \in outs : \A p \in outs : p <= q) \in outs  BY <2>3
  <2> HIDE DEF outs
  <2> QED BY <1>1, <2>1, <2>4
<1>5. CASE outs # {}
  <2>1. PICK o \in outs : TRUE  BY <1>5
  <2>2. InverseOf(n)[r] = o  BY <1>4
  <2> QED BY <1>2, <1>4, <2>1, <2>2
<1> QED BY <1>3, <1>5

\* One iteration of forward finds exactly the output rows with a parent
\* among the given rows.
LEMMA StepForwardConverse ==
    ASSUME NEW n \in Node, NEW R \in SUBSET Nat, NEW inv,
           NeedsInverse(n) => inv = InverseOf(n)
    PROVE  StepForward(n, R, inv) =
               {o \in OutRows(n) : Parents(n, o) \cap R # {}}
<1>1. FitsInput(n)  BY StoreAssumption
<1>2. CASE Steps[n].kind \in {"Source", "Identity"}
  BY <1>1, <1>2 DEF StepForward, Parents, OutRows, FitsInput
<1>3. CASE NeedsInverse(n)
  <2>1. StepForward(n, R, inv) =
            {InverseOf(n)[r] : r \in R \cap InRows(n)} \ {Dropped}
    BY <1>3 DEF StepForward, NeedsInverse
  <2>2. ASSUME NEW o \in StepForward(n, R, inv)
        PROVE  o \in OutRows(n) /\ Parents(n, o) \cap R # {}
    <3>1. PICK r \in R \cap InRows(n) : o = InverseOf(n)[r] /\ o # Dropped
      BY <2>1, <2>2
    <3>2. o \in OutRows(n) /\ r \in Parents(n, o)
      BY <1>3, <3>1, InverseFinds
    <3> QED BY <3>1, <3>2
  <2>3. ASSUME NEW o \in OutRows(n), Parents(n, o) \cap R # {}
        PROVE  o \in StepForward(n, R, inv)
    <3>1. PICK r \in R : r \in Parents(n, o)  BY <2>3
    <3>2. r \in InRows(n)  BY <3>1, ParentsInRange
    <3>3. InverseOf(n)[r] = o /\ o # Dropped
      BY <1>3, <3>1, <3>2, InverseFinds
    <3> QED BY <2>1, <3>2, <3>3
  <2> QED BY <2>2, <2>3
<1> QED BY <1>2, <1>3, StepKinds DEF NeedsInverse

\* At the scan, the descendants are the scan's rows with an asked parent.
LEMMA DescendantsFirst ==
    ASSUME NEW c, NEW S, Len(c) \in Nat, c[Len(c)] \in Node
    PROVE  Descendants(c, S, Len(c)) =
               {o \in OutRows(c[Len(c)]) : Parents(c[Len(c)], o) \cap S # {}}
<1> DEFINE k == Len(c)
<1>1. ASSUME NEW o \in OutRows(c[k]), Parents(c[k], o) \cap S # {}
      PROVE  o \in Descendants(c, S, k)
  <2> DEFINE d == [i \in k .. k |-> o]
  <2>1. o \in AllRows  BY RowsAreRows
  <2>2. d \in [k .. k -> AllRows] /\ d[k] = o  BY <2>1
  <2>3. Derivation(c, k, k, d)  BY DEF Derivation
  <2> HIDE DEF d
  <2> QED BY <1>1, <2>2, <2>3 DEF Descendants
<1>2. ASSUME NEW o \in Descendants(c, S, k)
      PROVE  o \in OutRows(c[k]) /\ Parents(c[k], o) \cap S # {}
  BY DEF Descendants
<1> QED BY <1>1, <1>2

\* One step up a chain: the descendants there have a parent among the
\* descendants here.
LEMMA DescendantsStep ==
    ASSUME NEW c, NEW S, IsChain(c), Len(c) \in Nat, NEW k \in 1 .. Len(c) - 1
    PROVE  Descendants(c, S, k) =
               {o \in OutRows(c[k]) :
                    Parents(c[k], o) \cap Descendants(c, S, k + 1) # {}}
<1> DEFINE n == Len(c)
<1>1. /\ c[k] \in Node /\ c[k + 1] \in Node /\ ~ IsScan(c[k])
      /\ c[k + 1] = Inputs[c[k]] /\ InRows(c[k]) = OutRows(c[k + 1])
  <2>1. k \in 1 .. Len(c) /\ k + 1 \in 1 .. Len(c)  OBVIOUS
  <2>2. c[k] \in Node /\ ~ IsScan(c[k]) /\ c[k + 1] = Inputs[c[k]]
    BY <2>1 DEF IsChain
  <2> QED BY <2>2, InputsAreNodes
<1>2. ASSUME NEW o \in Descendants(c, S, k)
      PROVE  Parents(c[k], o) \cap Descendants(c, S, k + 1) # {}
  <2>1. /\ o \in OutRows(c[k])
        /\ \E d \in [k .. n -> AllRows] :
              /\ d[k] = o /\ Derivation(c, k, n, d)
              /\ d[n] \in OutRows(c[n]) /\ Parents(c[n], d[n]) \cap S # {}
    BY DEF Descendants
  <2>2. PICK d \in [k .. n -> AllRows] :
              /\ d[k] = o /\ Derivation(c, k, n, d)
              /\ d[n] \in OutRows(c[n]) /\ Parents(c[n], d[n]) \cap S # {}
    BY <2>1
  <2>3. d[k + 1] \in Parents(c[k], o)  BY <2>2 DEF Derivation
  <2>4. d[k + 1] \in OutRows(c[k + 1])
    BY <1>1, <2>1, <2>3, ParentsInRange
  <2> DEFINE e == [i \in k + 1 .. n |-> d[i]]
  <2>5. e \in [k + 1 .. n -> AllRows] /\ e[k + 1] = d[k + 1] /\ e[n] = d[n]
    OBVIOUS
  <2>6. Derivation(c, k + 1, n, e)  BY <2>2 DEF Derivation
  <2> HIDE DEF e
  <2>7. d[k + 1] \in Descendants(c, S, k + 1)
    BY <2>2, <2>4, <2>5, <2>6 DEF Descendants
  <2> QED BY <2>3, <2>7
<1>3. ASSUME NEW o \in OutRows(c[k]),
             Parents(c[k], o) \cap Descendants(c, S, k + 1) # {}
      PROVE  o \in Descendants(c, S, k)
  <2>1. PICK x \in Descendants(c, S, k + 1) : x \in Parents(c[k], o)
    BY <1>3
  <2>2. PICK d \in [k + 1 .. n -> AllRows] :
              /\ d[k + 1] = x /\ Derivation(c, k + 1, n, d)
              /\ d[n] \in OutRows(c[n]) /\ Parents(c[n], d[n]) \cap S # {}
    BY <2>1 DEF Descendants
  <2> DEFINE e == [i \in k .. n |-> IF i = k THEN o ELSE d[i]]
  <2>3. o \in AllRows  BY <1>1, RowsAreRows
  <2>4. e \in [k .. n -> AllRows] /\ e[k] = o /\ e[n] = d[n]
    BY <2>3
  <2>5. Derivation(c, k, n, e)
    <3> SUFFICES ASSUME NEW i \in k .. n - 1
                 PROVE  e[i + 1] \in Parents(c[i], e[i])
      BY DEF Derivation
    <3>1. CASE i = k  BY <3>1, <2>1, <2>2
    <3>2. CASE i # k  BY <3>2, <2>2 DEF Derivation
    <3> QED BY <3>1, <3>2
  <2> HIDE DEF e
  <2> QED BY <2>2, <2>4, <2>5 DEF Descendants
<1>4. \A o \in Descendants(c, S, k) : o \in OutRows(c[k])
  BY DEF Descendants
<1> QED BY <1>2, <1>3, <1>4

=============================================================================
