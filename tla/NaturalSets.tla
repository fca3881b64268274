----------------------------- MODULE NaturalSets -----------------------------
(***************************************************************************)
(* Least and greatest elements of sets of naturals, induction over the     *)
(* naturals, stated of sets, sets put in order, sums, sets counted by maps, *)
(* values made one from another, and lists.  The library's induction       *)
(* theorems take a predicate as a parameter, which the provers cannot      *)
(* instantiate; the same facts about a SET of numbers can be used with any *)
(* set {n \in Nat : ...}, and those about the order of a set with any      *)
(* relation that is a set of pairs.                                        *)
(***************************************************************************)
EXTENDS Integers, Sequences, Ranking, FiniteSetTheorems, TLAPS

\* A non-empty set of naturals has a least element: its initial segments
\* are finite sets, and strict inclusion of finite sets is well-founded.
LEMMA LeastElement ==
    ASSUME NEW T \in SUBSET Nat, T # {}
    PROVE  \E m \in T : \A n \in T : m <= n
<1> DEFINE R == StrictSubsetOrdering(Nat)
           U == {0 .. n : n \in T}
<1>1. IsWellFoundedOn(R, FiniteSubsetsOf(Nat))
  BY FS_StrictSubsetOrderingWellFounded
<1>2. U \subseteq FiniteSubsetsOf(Nat) /\ U # {}
  <2>1. \A n \in T : IsFiniteSet(0 .. n) /\ 0 .. n \in SUBSET Nat
    <3> TAKE n \in T
    <3>1. n \in Int /\ 0 \in Int  OBVIOUS
    <3>2. IsFiniteSet(0 .. n)  BY <3>1, FS_Interval
    <3> QED BY <3>2
  <2>2. \A n \in T : 0 .. n \in FiniteSubsetsOf(Nat)
    BY <2>1 DEF FiniteSubsetsOf
  <2> QED BY <2>2
<1>3. \A x, y \in T : x < y => <<0 .. x, 0 .. y>> \in R
  BY DEF StrictSubsetOrdering
<1> HIDE DEF R
<1>4. PICK u \in U : \A v \in U : ~ (<<v, u>> \in R)  BY <1>1, <1>2, WFMin
<1>5. PICK m \in T : u = 0 .. m  BY <1>4
<1>6. ASSUME NEW n \in T PROVE m <= n
  <2>1. ~ (<<0 .. n, 0 .. m>> \in R)  BY <1>4, <1>5
  <2>2. ~ (n < m)  BY <2>1, <1>3
  <2>3. n \in Nat /\ m \in Nat  OBVIOUS
  <2> QED BY <2>2, <2>3
<1> QED BY <1>6

\* A set of naturals with an upper bound has a greatest element.
LEMMA GreatestBelow ==
    ASSUME NEW n \in Nat, NEW S \in SUBSET (0 .. n), S # {}
    PROVE  \E m \in S : \A x \in S : x <= m
<1> DEFINE T == {n - x : x \in S}
<1>1. T \in SUBSET Nat /\ T # {}
  <2>1. \A x \in S : n - x \in Nat  OBVIOUS
  <2>2. PICK x \in S : TRUE  OBVIOUS
  <2>3. n - x \in T  OBVIOUS
  <2> QED BY <2>1, <2>3
<1>2. PICK d \in T : \A t \in T : d <= t  BY <1>1, LeastElement
<1>3. PICK m \in S : d = n - m  BY <1>2
<1>4. \A x \in S : n - m <= n - x  BY <1>2, <1>3
<1>5. \A x \in S : x <= m  BY <1>4
<1> QED BY <1>5

\* ... and so has a finite one that is not empty: the member with the most
\* members below it.
LEMMA GreatestElement ==
    ASSUME NEW S \in SUBSET Nat, IsFiniteSet(S), S # {}
    PROVE  \E m \in S : \A x \in S : x <= m
<1> DEFINE Below(r) == {q \in S : q < r}
           T == {Cardinality(Below(r)) : r \in S}
<1>1. \A r \in S : /\ IsFiniteSet(Below(r))
                   /\ Cardinality(Below(r)) \in Nat
                   /\ Cardinality(Below(r)) <= Cardinality(S)
  <2> TAKE r \in S
  <2>1. Below(r) \subseteq S  OBVIOUS
  <2> HIDE DEF Below
  <2> QED BY <2>1, FS_Subset, FS_CardinalityType
<1>2. Cardinality(S) \in Nat  BY FS_CardinalityType
<1>3. T \in SUBSET (0 .. Cardinality(S)) /\ T # {}
  <2>1. \A r \in S : Cardinality(Below(r)) \in 0 .. Cardinality(S)
    <3> HIDE DEF Below
    <3> QED BY <1>1, <1>2
  <2> QED BY <2>1
<1>4. PICK d \in T : \A t \in T : t <= d
  <2> HIDE DEF T
  <2> QED BY <1>2, <1>3, GreatestBelow
<1>5. PICK m \in S : d = Cardinality(Below(m))  BY <1>4
<1>6. ASSUME NEW x \in S PROVE x <= m
  <2>1. SUFFICES ASSUME m < x PROVE FALSE  OBVIOUS
  <2>2. Below(m) \cup {m} \subseteq Below(x)
    <3>1. m \in Nat /\ x \in Nat /\ \A q \in S : q \in Nat  OBVIOUS
    <3>2. \A q \in S : q < m => q < x  BY <2>1, <3>1
    <3> QED BY <2>1, <3>2
  <2>3. m \notin Below(m)  OBVIOUS
  <2> HIDE DEF Below
  <2>4. Cardinality(Below(m) \cup {m}) = Cardinality(Below(m)) + 1
    BY <1>1, <2>3, FS_AddElement
  <2>5. Cardinality(Below(m)) + 1 <= Cardinality(Below(x))
    BY <1>1, <2>2, <2>4, FS_Subset
  <2>6. Cardinality(Below(x)) <= Cardinality(Below(m))  BY <1>4, <1>5
  <2> QED BY <1>1, <2>5, <2>6
<1> QED BY <1>6

\* A set of naturals with 0 and with every successor of its members is Nat.
LEMMA SetInduction ==
    ASSUME NEW S, 0 \in S, \A n \in Nat : n \in S => n + 1 \in S
    PROVE  Nat \subseteq S
<1> SUFFICES ASSUME Nat \ S # {} PROVE FALSE
  OBVIOUS
<1>1. PICK m \in Nat \ S : \A n \in Nat \ S : m <= n  BY LeastElement
<1>2. m # 0  OBVIOUS
<1>3. m - 1 \in Nat /\ ~ (m <= m - 1)  BY <1>2
<1>4. m - 1 \in S  BY <1>1, <1>3
<1>5. (m - 1) + 1 \in S  BY <1>3, <1>4
<1> QED BY <1>5

\* A finite non-empty set has a member whose stamp is least.
LEMMA LeastStamp ==
    ASSUME NEW S, S # {}, NEW f, \A k \in S : f[k] \in Nat
    PROVE  \E k \in S : \A j \in S : f[k] <= f[j]
<1> DEFINE T == {f[k] : k \in S}
<1>1. T \in SUBSET Nat /\ T # {}  OBVIOUS
<1>2. PICK m \in T : \A n \in T : m <= n  BY <1>1, LeastElement
<1>3. PICK k \in S : m = f[k]  BY <1>2
<1> QED BY <1>2, <1>3

----------------------------------------------------------------------------
(* Sets put in order.                                                      *)

\* f lists the m members of S from 0 on, each before the next in R.
Lists(f, m, S, R) ==
    /\ m \in Nat
    /\ f \in [0 .. m - 1 -> S]
    /\ \A x \in S : \E i \in 0 .. m - 1 : f[i] = x
    /\ \A i, j \in 0 .. m - 1 : i < j => <<f[i], f[j]>> \in R

Asymmetric(R, S) == \A x, y \in S : <<x, y>> \in R => <<y, x>> \notin R

Orders(R, S) ==
    /\ Asymmetric(R, S)
    /\ \A x, y \in S : x = y \/ <<x, y>> \in R \/ <<y, x>> \in R
    /\ \A x, y, z \in S : <<x, y>> \in R /\ <<y, z>> \in R => <<x, z>> \in R

\* The members of S that come before x.
Earlier(x, S, R) == {y \in S : <<y, x>> \in R}

\* Ranked, by a relation that is a set.
RankedIn(S, R) ==
    [i \in 0 .. Cardinality(S) - 1 |->
        CHOOSE x \in S : Cardinality(Earlier(x, S, R)) = i]

LEMMA ListsInjective ==
    ASSUME NEW f, NEW m, NEW S, NEW R, Lists(f, m, S, R), Asymmetric(R, S)
    PROVE  \A i, j \in 0 .. m - 1 : f[i] = f[j] => i = j
<1> SUFFICES ASSUME NEW i \in 0 .. m - 1, NEW j \in 0 .. m - 1, f[i] = f[j], i < j
             PROVE  FALSE
  BY DEF Lists
<1>1. f[i] \in S /\ <<f[i], f[j]>> \in R  BY DEF Lists
<1> QED BY <1>1 DEF Asymmetric

LEMMA ListsCount ==
    ASSUME NEW f, NEW m, NEW S, NEW R, Lists(f, m, S, R), Asymmetric(R, S)
    PROVE  IsFiniteSet(S) /\ Cardinality(S) = m
<1>1. m \in Nat /\ f \in [0 .. m - 1 -> S]  BY DEF Lists
<1>2. f \in Bijection(0 .. m - 1, S)
  BY <1>1, ListsInjective DEF Lists, Bijection, Injection, Surjection, IsInjective
<1>3. IsFiniteSet(0 .. m - 1) /\ Cardinality(0 .. m - 1) = m
  BY <1>1, 0 \in Int, m - 1 \in Int, FS_Interval
<1> QED BY <1>2, <1>3, FS_Bijection DEF ExistsBijection

\* The i-th member has i members before it.
LEMMA ListsRank ==
    ASSUME NEW f, NEW m, NEW S, NEW R, Lists(f, m, S, R), Asymmetric(R, S),
           NEW i \in 0 .. m - 1
    PROVE  Cardinality(Earlier(f[i], S, R)) = i
<1> DEFINE E == Earlier(f[i], S, R)
           g == [j \in 0 .. i - 1 |-> f[j]]
<1>1. /\ m \in Nat /\ f \in [0 .. m - 1 -> S] /\ i \in Nat
      /\ \A j \in 0 .. i - 1 : j \in 0 .. m - 1 /\ j < i
  BY DEF Lists
<1>2. \A j \in 0 .. i - 1 : f[j] \in E
  BY <1>1 DEF Lists, Earlier
<1>3. \A x \in E : \E j \in 0 .. i - 1 : f[j] = x
  <2> TAKE x \in E
  <2>1. x \in S /\ <<x, f[i]>> \in R  BY DEF Earlier
  <2>2. PICK j \in 0 .. m - 1 : f[j] = x  BY <2>1 DEF Lists
  <2>3. f[i] \in S /\ <<f[i], x>> \notin R  BY <1>1, <2>1 DEF Asymmetric
  <2>4. ~ (i < j) /\ j # i  BY <2>1, <2>2, <2>3 DEF Lists
  <2>5. j \in 0 .. i - 1  BY <1>1, <2>2, <2>4
  <2> QED BY <2>2, <2>5
<1>4. Lists(g, i, E, R)
  <2>1. g \in [0 .. i - 1 -> E]  BY <1>2
  <2>2. \A j, k \in 0 .. i - 1 : j < k => <<g[j], g[k]>> \in R
    BY <1>1 DEF Lists
  <2> QED BY <1>1, <1>3, <2>1, <2>2 DEF Lists
<1>5. Asymmetric(R, E)  BY DEF Asymmetric, Earlier
<1> QED BY <1>4, <1>5, ListsCount

\* A set has one list only.
LEMMA ListsUnique ==
    ASSUME NEW f, NEW m, NEW S, NEW R, Lists(f, m, S, R), Asymmetric(R, S)
    PROVE  f = RankedIn(S, R)
<1>1. Cardinality(S) = m /\ m \in Nat  BY ListsCount DEF Lists
<1>2. f \in [0 .. m - 1 -> S]  BY DEF Lists
<1>3. ASSUME NEW i \in 0 .. m - 1
      PROVE  f[i] = CHOOSE x \in S : Cardinality(Earlier(x, S, R)) = i
  <2>1. f[i] \in S  BY <1>2
  <2>2. Cardinality(Earlier(f[i], S, R)) = i  BY ListsRank
  <2>3. ASSUME NEW x \in S, Cardinality(Earlier(x, S, R)) = i PROVE x = f[i]
    <3>1. PICK j \in 0 .. m - 1 : f[j] = x  BY DEF Lists
    <3>2. Cardinality(Earlier(f[j], S, R)) = j  BY ListsRank
    <3> QED BY <2>3, <3>1, <3>2
  <2> QED BY <2>1, <2>2, <2>3
<1> QED BY <1>1, <1>2, <1>3 DEF RankedIn

\* A finite set that is ordered has one.
LEMMA RankedLists ==
    ASSUME NEW S, NEW R, IsFiniteSet(S), Orders(R, S)
    PROVE  Lists(RankedIn(S, R), Cardinality(S), S, R)
<1> DEFINE n == Cardinality(S)
           Rank(x) == Cardinality(Earlier(x, S, R))
           ranks == [x \in S |-> Rank(x)]
<1>1. n \in Nat  BY FS_CardinalityType
<1>2. ASSUME NEW x \in S
      PROVE  IsFiniteSet(Earlier(x, S, R)) /\ Rank(x) \in 0 .. n - 1
  <2>1. Earlier(x, S, R) \cup {x} \subseteq S /\ x \notin Earlier(x, S, R)
    BY DEF Earlier, Orders, Asymmetric
  <2>2. IsFiniteSet(Earlier(x, S, R)) /\ Rank(x) \in Nat
    BY <2>1, FS_Subset, FS_CardinalityType
  <2>3. Cardinality(Earlier(x, S, R) \cup {x}) = Rank(x) + 1
    BY <2>1, <2>2, FS_AddElement
  <2>4. Rank(x) + 1 <= n
    <3>1. Cardinality(Earlier(x, S, R) \cup {x}) <= n  BY <2>1, FS_Subset
    <3> QED BY <2>3, <3>1
  <2> QED BY <1>1, <2>2, <2>4
<1>3. ASSUME NEW x \in S, NEW y \in S, <<x, y>> \in R PROVE Rank(x) < Rank(y)
  <2>1. Earlier(x, S, R) \cup {x} \subseteq Earlier(y, S, R) /\ x \notin Earlier(x, S, R)
    BY <1>3 DEF Earlier, Orders, Asymmetric
  <2>2. Cardinality(Earlier(x, S, R) \cup {x}) = Rank(x) + 1
    BY <1>2, <2>1, FS_AddElement
  <2>3. Cardinality(Earlier(x, S, R) \cup {x}) <= Rank(y)  BY <1>2, <2>1, FS_Subset
  <2>4. Rank(x) \in Nat /\ Rank(y) \in Nat  BY <1>2
  <2> QED BY <2>2, <2>3, <2>4
<1>4. \A x, y \in S : Rank(x) = Rank(y) => x = y
  <2> SUFFICES ASSUME NEW x \in S, NEW y \in S, Rank(x) = Rank(y), x # y PROVE FALSE
    OBVIOUS
  <2>1. Rank(x) \in Nat /\ Rank(y) \in Nat  BY <1>2
  <2>2. <<x, y>> \in R \/ <<y, x>> \in R  BY DEF Orders
  <2> QED BY <1>3, <2>1, <2>2
<1>5. \A i \in 0 .. n - 1 : \E x \in S : Rank(x) = i
  <2>1. ranks \in Injection(S, 0 .. n - 1)
    <3> HIDE DEF Rank
    <3> QED BY <1>2, <1>4 DEF Injection, IsInjective
  <2>2. IsFiniteSet(0 .. n - 1) /\ Cardinality(0 .. n - 1) = n
    BY <1>1, 0 \in Int, n - 1 \in Int, FS_Interval
  <2>3. ranks \in Surjection(S, 0 .. n - 1)
    <3> HIDE DEF ranks
    <3> QED BY <2>1, <2>2, FS_Injection
  <2> HIDE DEF Rank
  <2> QED BY <2>3 DEF Surjection
<1> DEFINE f == RankedIn(S, R)
<1>6. ASSUME NEW i \in 0 .. n - 1 PROVE f[i] \in S /\ Rank(f[i]) = i
  BY <1>5 DEF RankedIn
<1>7. f \in [0 .. n - 1 -> S]
  <2>1. f = [i \in 0 .. n - 1 |-> f[i]]  BY DEF RankedIn
  <2> HIDE DEF f
  <2> QED BY <1>6, <2>1
<1> HIDE DEF f, Rank, n
<1>8. \A x \in S : \E i \in 0 .. n - 1 : f[i] = x
  <2> TAKE x \in S
  <2>1. Rank(x) \in 0 .. n - 1  BY <1>2
  <2> QED BY <2>1, <1>4, <1>6
<1>9. \A i, j \in 0 .. n - 1 : i < j => <<f[i], f[j]>> \in R
  <2> SUFFICES ASSUME NEW i \in 0 .. n - 1, NEW j \in 0 .. n - 1, i < j,
                      <<f[i], f[j]>> \notin R
               PROVE  FALSE
    OBVIOUS
  <2>1. f[i] \in S /\ f[j] \in S /\ Rank(f[i]) = i /\ Rank(f[j]) = j  BY <1>6
  <2>2. f[i] = f[j] \/ <<f[j], f[i]>> \in R  BY <2>1 DEF Orders
  <2>3. Rank(f[j]) <= Rank(f[i])
    <3>1. CASE f[i] = f[j]  BY <2>1, <3>1
    <3>2. CASE <<f[j], f[i]>> \in R  BY <1>3, <2>1, <3>2
    <3> QED BY <2>2, <3>1, <3>2
  <2> QED BY <2>1, <2>3
<1> QED BY <1>1, <1>7, <1>8, <1>9 DEF Lists, f, n

Less == {pair \in Int \X Int : pair[1] < pair[2]}

LEMMA LessOrders == ASSUME NEW S \in SUBSET Int PROVE Orders(Less, S)
<1>1. \A x, y \in S : <<x, y>> \in Less <=> x < y  BY DEF Less
<1> QED BY <1>1 DEF Orders, Asymmetric

LEMMA AscendingIsRanked ==
    ASSUME NEW S \in SUBSET Int
    PROVE  Ascending(S) = RankedIn(S, Less)
<1>1. \A x \in S : {y \in S : y < x} = Earlier(x, S, Less)  BY DEF Earlier, Less
<1>2. Ascending(S) = [i \in 0 .. Cardinality(S) - 1 |->
                        CHOOSE x \in S : Cardinality({y \in S : y < x}) = i]
  BY DEF Ascending, Ranked
<1>3. \A i : (CHOOSE x \in S : Cardinality({y \in S : y < x}) = i)
             = (CHOOSE x \in S : Cardinality(Earlier(x, S, Less)) = i)
  BY <1>1
<1> QED BY <1>2, <1>3 DEF RankedIn

LEMMA AscendingLists ==
    ASSUME NEW S \in SUBSET Int, IsFiniteSet(S)
    PROVE  Lists(Ascending(S), Cardinality(S), S, Less)
  BY AscendingIsRanked, LessOrders, RankedLists

LEMMA AscendingUnique ==
    ASSUME NEW S \in SUBSET Int, NEW f, NEW m, Lists(f, m, S, Less)
    PROVE  IsFiniteSet(S) /\ Cardinality(S) = m /\ f = Ascending(S)
<1>1. Asymmetric(Less, S)  BY LessOrders DEF Orders
<1> QED BY <1>1, ListsUnique, ListsCount, AscendingIsRanked

\* The numbers below n are in order.
LEMMA AscendingBelow ==
    ASSUME NEW n \in Nat
    PROVE  Ascending(0 .. n - 1) = [i \in 0 .. n - 1 |-> i]
<1> DEFINE f == [i \in 0 .. n - 1 |-> i]
<1>1. Lists(f, n, 0 .. n - 1, Less)  BY DEF Lists, Less
<1>2. 0 .. n - 1 \in SUBSET Int  OBVIOUS
<1> QED BY <1>1, <1>2, AscendingUnique

\* A list mapped by a function that respects the order.
LEMMA ListsImage ==
    ASSUME NEW f, NEW m, NEW S, NEW R, Lists(f, m, S, R), NEW a, NEW Q, NEW T, NEW g,
           \A x \in S : a[x] \in T, \A z \in T : \E x \in S : z = a[x],
           \A x, y \in S : <<x, y>> \in R => <<a[x], a[y]>> \in Q,
           g \in [0 .. m - 1 -> T], \A i \in 0 .. m - 1 : g[i] = a[f[i]]
    PROVE  Lists(g, m, T, Q)
<1>1. m \in Nat /\ f \in [0 .. m - 1 -> S]  BY DEF Lists
<1>2. \A z \in T : \E i \in 0 .. m - 1 : g[i] = z
  <2> TAKE z \in T
  <2>1. PICK x \in S : z = a[x]  OBVIOUS
  <2>2. PICK i \in 0 .. m - 1 : f[i] = x  BY <2>1 DEF Lists
  <2> QED BY <2>1, <2>2
<1>3. ASSUME NEW i \in 0 .. m - 1, NEW j \in 0 .. m - 1, i < j
      PROVE  <<g[i], g[j]>> \in Q
  <2>1. f[i] \in S /\ f[j] \in S /\ <<f[i], f[j]>> \in R  BY <1>1, <1>3 DEF Lists
  <2>2. <<a[f[i]], a[f[j]]>> \in Q  BY <2>1
  <2> QED BY <2>2
<1> QED BY <1>1, <1>2, <1>3 DEF Lists

\* Numbers moved by a function that keeps their order.
LEMMA AscendingImage ==
    ASSUME NEW S \in SUBSET Int, IsFiniteSet(S), NEW a,
           \A x \in S : a[x] \in Int, \A x, y \in S : x < y => a[x] < a[y]
    PROVE  /\ Cardinality({a[x] : x \in S}) = Cardinality(S)
           /\ Ascending({a[x] : x \in S})
                = [i \in 0 .. Cardinality(S) - 1 |-> a[Ascending(S)[i]]]
<1> DEFINE f == Ascending(S)
           m == Cardinality(S)
           T == {a[x] : x \in S}
<1>1. Lists(f, m, S, Less)  BY AscendingLists
<1>2. \A x, y \in S : <<x, y>> \in Less => <<a[x], a[y]>> \in Less  BY DEF Less
<1>3. Lists([i \in 0 .. m - 1 |-> a[f[i]]], m, T, Less)
  <2> DEFINE g == [i \in 0 .. m - 1 |-> a[f[i]]]
  <2>1. f \in [0 .. m - 1 -> S]
    <3> HIDE DEF f, m
    <3> QED BY <1>1 DEF Lists
  <2>2. g \in [0 .. m - 1 -> T] /\ \A i \in 0 .. m - 1 : g[i] = a[f[i]]
    <3> HIDE DEF f, m
    <3> QED BY <2>1
  <2>3. (\A x \in S : a[x] \in T) /\ \A z \in T : \E x \in S : z = a[x]  OBVIOUS
  <2> HIDE DEF f, m, g, T
  <2>4. Lists(g, m, T, Less)  BY <1>1, <1>2, <2>2, <2>3, ListsImage
  <2> QED BY <2>4 DEF g
<1>4. T \in SUBSET Int  OBVIOUS
<1> HIDE DEF T
<1>5. Cardinality(T) = m /\ [i \in 0 .. m - 1 |-> a[f[i]]] = Ascending(T)
  BY <1>3, <1>4, AscendingUnique
<1> QED BY <1>5 DEF T, f, m

\* Let a list the set K of numbers in order, `all` a set H in the order Q,
\* and let `some` list the places in a of members of H, in the order their
\* values have in Q, and `kept` the places in `all` of members of K.  Then
\* both ways lead to the same list, that of the members of both.
LEMMA ListsOfBoth ==
    ASSUME NEW K, NEW H, NEW Q, NEW Q2, NEW a, NEW p, NEW all, NEW q,
           NEW some, NEW q2, NEW kept, NEW r,
           Lists(a, p, K, Less), Lists(all, q, H, Q),
           Lists(some, q2, {j \in 0 .. p - 1 : a[j] \in H}, Q2),
           Lists(kept, r, {x \in 0 .. q - 1 : all[x] \in K}, Less),
           \A x, y \in 0 .. p - 1 : <<x, y>> \in Q2 <=> <<a[x], a[y]>> \in Q,
           Asymmetric(Q, H)
    PROVE  q2 = r /\ \A i \in 0 .. r - 1 : a[some[i]] = all[kept[i]]
<1> DEFINE B == H \cap K
           f == [i \in 0 .. q2 - 1 |-> a[some[i]]]
           g == [i \in 0 .. r - 1 |-> all[kept[i]]]
<1>1. Lists(f, q2, B, Q)
  <2>1. \A i \in 0 .. q2 - 1 : some[i] \in 0 .. p - 1 /\ a[some[i]] \in B
    BY DEF Lists
  <2>2. \A x \in B : \E i \in 0 .. q2 - 1 : a[some[i]] = x
    <3> TAKE x \in B
    <3>1. PICK j \in 0 .. p - 1 : a[j] = x  BY DEF Lists
    <3>2. PICK i \in 0 .. q2 - 1 : some[i] = j  BY <3>1 DEF Lists
    <3> QED BY <3>1, <3>2
  <2>3. \A i, j \in 0 .. q2 - 1 : i < j => <<a[some[i]], a[some[j]]>> \in Q
    BY <2>1 DEF Lists
  <2> QED BY <2>1, <2>2, <2>3 DEF Lists
<1>2. Lists(g, r, B, Q)
  <2>1. \A i \in 0 .. r - 1 : kept[i] \in 0 .. q - 1 /\ all[kept[i]] \in B
    BY DEF Lists
  <2>2. \A x \in B : \E i \in 0 .. r - 1 : all[kept[i]] = x
    <3> TAKE x \in B
    <3>1. PICK j \in 0 .. q - 1 : all[j] = x  BY DEF Lists
    <3>2. PICK i \in 0 .. r - 1 : kept[i] = j  BY <3>1 DEF Lists
    <3> QED BY <3>1, <3>2
  <2>3. \A i, j \in 0 .. r - 1 : i < j => <<all[kept[i]], all[kept[j]]>> \in Q
    <3> TAKE i, j \in 0 .. r - 1
    <3>1. i < j => kept[i] < kept[j]  BY DEF Lists, Less
    <3> QED BY <2>1, <3>1 DEF Lists
  <2> QED BY <2>1, <2>2, <2>3 DEF Lists
<1>3. Asymmetric(Q, B)  BY DEF Asymmetric
<1>4. f = g
  <2> HIDE DEF f, g, B
  <2>1. f = RankedIn(B, Q)  BY <1>1, <1>3, ListsUnique
  <2>2. g = RankedIn(B, Q)  BY <1>2, <1>3, ListsUnique
  <2> QED BY <2>1, <2>2
<1>5. q2 = r
  <2> HIDE DEF f, g, B
  <2>1. Cardinality(B) = q2  BY <1>1, <1>3, ListsCount
  <2>2. Cardinality(B) = r  BY <1>2, <1>3, ListsCount
  <2> QED BY <2>1, <2>2
<1>6. \A i \in 0 .. r - 1 : f[i] = g[i]  BY <1>4
<1> QED BY <1>5, <1>6


----------------------------------------------------------------------------
\* f without its entry r.
Skip(f, m, r) == [k \in 0 .. m - 2 |-> IF k < r THEN f[k] ELSE f[k + 1]]

\* Without one entry a listing lists the other elements.
LEMMA SkipLists ==
    ASSUME NEW f, NEW m, NEW S, NEW R, Lists(f, m, S, R), Asymmetric(R, S),
           NEW r \in 0 .. m - 1
    PROVE  Lists(Skip(f, m, r), m - 1, S \ {f[r]}, R)
<1> DEFINE g == Skip(f, m, r)
           at == [k \in 0 .. m - 2 |-> IF k < r THEN k ELSE k + 1]
<1>1. m \in Nat /\ m - 1 \in Nat /\ (m - 1) - 1 = m - 2  BY DEF Lists
<1>2. \A k \in 0 .. m - 2 : at[k] \in 0 .. m - 1 /\ at[k] # r /\ g[k] = f[at[k]]
  BY <1>1 DEF Skip
<1>3. \A i, j \in 0 .. m - 2 : i < j => at[i] < at[j]  BY <1>1
<1>4. \A i \in 0 .. m - 1 : i # r => \E k \in 0 .. m - 2 : at[k] = i
  <2> TAKE i \in 0 .. m - 1
  <2> HAVE i # r
  <2>1. CASE i < r
    <3>1. i \in 0 .. m - 2 /\ at[i] = i  BY <1>1, <2>1
    <3> QED BY <3>1
  <2>2. CASE i > r
    <3>1. i - 1 \in 0 .. m - 2 /\ at[i - 1] = i  BY <1>1, <2>2
    <3> QED BY <3>1
  <2> QED BY <1>1, <2>1, <2>2
<1>5. g = [k \in 0 .. m - 2 |-> g[k]]  BY DEF Skip
<1> HIDE DEF g, at
<1>6. \A i, j \in 0 .. m - 1 : f[i] = f[j] => i = j  BY ListsInjective
<1>7. g \in [0 .. (m - 1) - 1 -> S \ {f[r]}]
  <2>1. \A k \in 0 .. m - 2 : g[k] \in S \ {f[r]}  BY <1>2, <1>6 DEF Lists
  <2> QED BY <1>1, <1>5, <2>1
<1>8. ASSUME NEW x \in S \ {f[r]} PROVE \E k \in 0 .. (m - 1) - 1 : g[k] = x
  <2>1. PICK i \in 0 .. m - 1 : f[i] = x  BY DEF Lists
  <2>2. PICK k \in 0 .. m - 2 : at[k] = i  BY <1>4, <2>1
  <2> QED BY <1>1, <1>2, <2>1, <2>2
<1>9. ASSUME NEW i \in 0 .. (m - 1) - 1, NEW j \in 0 .. (m - 1) - 1, i < j
      PROVE  <<g[i], g[j]>> \in R
  <2>1. i \in 0 .. m - 2 /\ j \in 0 .. m - 2  BY <1>1
  <2>2. at[i] \in 0 .. m - 1 /\ at[j] \in 0 .. m - 1 /\ at[i] < at[j]
    BY <1>2, <1>3, <1>9, <2>1
  <2>3. <<f[at[i]], f[at[j]]>> \in R  BY <2>2 DEF Lists
  <2> QED BY <1>2, <2>1, <2>3
<1> QED BY <1>1, <1>7, <1>8, <1>9 DEF Lists, g

\* A list with a new first element.
First(x, f, m) == [i \in 0 .. m |-> IF i = 0 THEN x ELSE f[i - 1]]

LEMMA ListsFirst ==
    ASSUME NEW f, NEW m, NEW S, NEW R, Lists(f, m, S, R), NEW x, NEW Q,
           \A y, z \in S : <<y, z>> \in R => <<y, z>> \in Q,
           \A y \in S : <<x, y>> \in Q
    PROVE  Lists(First(x, f, m), m + 1, S \cup {x}, Q)
<1> DEFINE g == First(x, f, m)
<1>1. m \in Nat /\ \A i \in 0 .. m - 1 : f[i] \in S  BY DEF Lists
<1>2. \A i \in 0 .. m : g[i] = IF i = 0 THEN x ELSE f[i - 1]  BY DEF First
<1>3. \A i \in 0 .. m : i # 0 => i - 1 \in 0 .. m - 1  BY <1>1
<1>4. g \in [0 .. m -> S \cup {x}]
  <2>1. g = [i \in 0 .. m |-> g[i]]  BY DEF First
  <2>2. \A i \in 0 .. m : g[i] \in S \cup {x}  BY <1>1, <1>2, <1>3
  <2> HIDE DEF g
  <2> QED BY <2>1, <2>2
<1> HIDE DEF g
<1>5. \A y \in S \cup {x} : \E i \in 0 .. m : g[i] = y
  <2>1. g[0] = x /\ 0 \in 0 .. m  BY <1>1, <1>2
  <2>2. ASSUME NEW y \in S PROVE \E i \in 0 .. m : g[i] = y
    <3>1. PICK j \in 0 .. m - 1 : f[j] = y  BY DEF Lists
    <3>2. j + 1 \in 0 .. m /\ j + 1 # 0 /\ (j + 1) - 1 = j  BY <1>1
    <3> QED BY <1>2, <3>1, <3>2
  <2> QED BY <2>1, <2>2
<1>6. ASSUME NEW i \in 0 .. m, NEW j \in 0 .. m, i < j PROVE <<g[i], g[j]>> \in Q
  <2>1. j # 0 /\ j - 1 \in 0 .. m - 1  BY <1>1, <1>6
  <2>2. CASE i = 0  BY <1>1, <1>2, <2>1, <2>2
  <2>3. CASE i # 0
    <3>1. i - 1 \in 0 .. m - 1 /\ i - 1 < j - 1  BY <1>6, <2>1, <2>3, <1>1
    <3>2. <<f[i - 1], f[j - 1]>> \in R  BY <2>1, <3>1 DEF Lists
    <3> QED BY <1>1, <1>2, <2>1, <2>3, <3>1, <3>2
  <2> QED BY <2>2, <2>3
<1>7. m + 1 \in Nat /\ (m + 1) - 1 = m  BY <1>1
<1> QED BY <1>4, <1>5, <1>6, <1>7 DEF Lists, g

----------------------------------------------------------------------------
(* Sums.                                                                   *)

SumOver(s, f, d) ==
    IF d = {} THEN 0 ELSE LET x == CHOOSE y \in d : TRUE IN s[x] + f[d \ {x}]

\* f sums s over each subset of D.
Sums(s, D, f) == f = [d \in SUBSET D |-> SumOver(s, f, d)]

LEMMA SmallerSet ==
    ASSUME NEW d, IsFiniteSet(d), NEW x \in d
    PROVE  /\ IsFiniteSet(d \ {x}) /\ Cardinality(d) \in Nat \ {0}
           /\ Cardinality(d \ {x}) = Cardinality(d) - 1
<1>1. /\ IsFiniteSet(d \ {x}) /\ Cardinality(d \ {x}) = Cardinality(d) - 1
  BY FS_RemoveElement
<1>2. Cardinality(d) \in Nat /\ Cardinality(d) # 0  BY FS_CardinalityType, FS_EmptySet
<1> QED BY <1>1, <1>2

LEMMA SumsExist ==
    ASSUME NEW s, NEW D, IsFiniteSet(D)
    PROVE  \E f : Sums(s, D, f)
<1> DEFINE Upto(k) == {d \in SUBSET D : Cardinality(d) <= k}
           Some(f, k) == f = [d \in Upto(k) |-> SumOver(s, f, d)]
           S == {k \in Nat : \E f : Some(f, k)}
<1>1. \A d \in SUBSET D : IsFiniteSet(d) /\ Cardinality(d) \in Nat
  BY FS_Subset, FS_CardinalityType
<1>2. 0 \in S
  <2> DEFINE f == [d \in Upto(0) |-> 0]
  <2>1. \A d \in Upto(0) : d = {}
    <3> TAKE d \in Upto(0)
    <3>1. Cardinality(d) = 0  BY <1>1
    <3> QED BY <1>1, <3>1, FS_EmptySet
  <2>2. \A d \in Upto(0) : SumOver(s, f, d) = 0  BY <2>1 DEF SumOver
  <2>3. Some(f, 0)  BY <2>2
  <2> HIDE DEF f, Some
  <2> QED BY <2>3
<1>3. ASSUME NEW k \in Nat, k \in S PROVE k + 1 \in S
  <2>1. PICK g : Some(g, k)  BY <1>3
  <2> DEFINE f == [d \in Upto(k + 1) |-> SumOver(s, g, d)]
  <2>2. \A d \in Upto(k) : d \in Upto(k + 1)  BY <1>1
  <2>3. \A d \in Upto(k) : f[d] = g[d]  BY <2>1, <2>2
  <2>4. \A d \in Upto(k + 1) : SumOver(s, f, d) = SumOver(s, g, d)
    <3> TAKE d \in Upto(k + 1)
    <3>1. CASE d = {}  BY <3>1 DEF SumOver
    <3>2. CASE d # {}
      <4> DEFINE x == CHOOSE y \in d : TRUE
      <4>1. x \in d  BY <3>2
      <4> HIDE DEF x
      <4>2. Cardinality(d \ {x}) = Cardinality(d) - 1 /\ Cardinality(d) \in Nat
        BY <1>1, <4>1, SmallerSet
      <4>3. d \ {x} \in Upto(k)  BY <4>2
      <4>4. f[d \ {x}] = g[d \ {x}]
        <5> HIDE DEF f, Upto
        <5> QED BY <2>3, <4>3
      <4> HIDE DEF f
      <4> QED BY <3>2, <4>4 DEF SumOver, x
    <3> QED BY <3>1, <3>2
  <2>5. f = [d \in Upto(k + 1) |-> SumOver(s, g, d)]  OBVIOUS
  <2> HIDE DEF f, Upto
  <2>6. Some(f, k + 1)  BY <2>4, <2>5
  <2> HIDE DEF Some
  <2> QED BY <2>6
<1>4. \A k \in Nat : k \in S
  <2> HIDE DEF S
  <2> QED BY <1>2, <1>3, SetInduction
<1>5. PICK f : Some(f, Cardinality(D))  BY <1>1, <1>4
<1>6. Upto(Cardinality(D)) = SUBSET D
  <2>1. \A d \in SUBSET D : Cardinality(d) <= Cardinality(D)  BY FS_Subset
  <2> QED BY <2>1
<1>7. Sums(s, D, f)
  <2> HIDE DEF Upto
  <2> QED BY <1>5, <1>6 DEF Sums
<1> QED BY <1>7

\* s numbers the finite set D.
Numbered(s, D) == IsFiniteSet(D) /\ \A x \in D : s[x] \in Int

\* Any element may be added last.
AddsUp(s, D, f) ==
    /\ f[{}] = 0
    /\ \A d \in SUBSET D : f[d] \in Int /\ \A y \in d : f[d] = s[y] + f[d \ {y}]

\* A sum does not depend on the order in which it is added up.
LEMMA SumsAdd ==
    ASSUME NEW s, NEW D, Numbered(s, D), NEW f, Sums(s, D, f)
    PROVE  AddsUp(s, D, f)
<1> USE DEF Numbered
<1> DEFINE Adds(d) == f[d] \in Int /\ \A y \in d : f[d] = s[y] + f[d \ {y}]
           S == {k \in Nat : \A d \in SUBSET D : Cardinality(d) <= k => Adds(d)}
<1>0. \A d \in SUBSET D : IsFiniteSet(d) /\ Cardinality(d) \in Nat
  BY FS_Subset, FS_CardinalityType
<1>1. \A d \in SUBSET D : f[d] = SumOver(s, f, d)  BY DEF Sums
<1>2. f[{}] = 0  BY <1>1 DEF SumOver
<1>3. 0 \in S
  <2>1. ASSUME NEW d \in SUBSET D, Cardinality(d) <= 0 PROVE Adds(d)
    <3>1. d = {}  BY <1>0, <2>1, FS_EmptySet
    <3> QED BY <1>2, <3>1
  <2> HIDE DEF Adds
  <2> QED BY <2>1
<1>4. ASSUME NEW k \in Nat, k \in S PROVE k + 1 \in S
  <2>1. ASSUME NEW d \in SUBSET D, Cardinality(d) = k + 1 PROVE Adds(d)
    <3>1. d # {} /\ IsFiniteSet(d)  BY <1>0, <2>1, FS_EmptySet
    <3> DEFINE x == CHOOSE y \in d : TRUE
    <3>2. x \in d /\ f[d] = s[x] + f[d \ {x}]  BY <1>1, <3>1 DEF SumOver
    <3> HIDE DEF x
    <3>3. \A y \in d : d \ {y} \in SUBSET D /\ Cardinality(d \ {y}) = k
      BY <2>1, <3>1, SmallerSet
    <3>4. \A y \in d : Adds(d \ {y})
      <4> HIDE DEF Adds
      <4> QED BY <1>4, <3>3
    <3>5. \A y \in d : f[d \ {y}] \in Int /\ s[y] \in Int  BY <3>4
    <3>6. ASSUME NEW y \in d PROVE f[d] = s[y] + f[d \ {y}]
      <4>1. CASE y = x  BY <3>2, <4>1
      <4>2. CASE y # x
        <5> DEFINE both == (d \ {x}) \ {y}
        <5>1. both = (d \ {y}) \ {x}  OBVIOUS
        <5>2. f[d \ {x}] = s[y] + f[both]  BY <3>2, <3>4, <4>2
        <5>3. f[d \ {y}] = s[x] + f[both]  BY <3>2, <3>4, <4>2, <5>1
        <5>4. f[both] \in Int
          <6>1. Cardinality(d \ {x}) = k /\ IsFiniteSet(d \ {x})  BY <3>1, <3>2, <3>3, SmallerSet
          <6>2. y \in d \ {x}  BY <4>2
          <6>3. Cardinality(both) = k - 1 /\ both \in SUBSET D  BY <6>1, <6>2, SmallerSet
          <6>4. Cardinality(both) <= k  BY <6>3
          <6> HIDE DEF Adds, both
          <6>5. Adds(both)  BY <1>4, <6>3, <6>4
          <6> QED BY <6>5 DEF Adds
        <5> HIDE DEF both
        <5> QED BY <3>2, <3>5, <5>2, <5>3, <5>4
      <4> QED BY <4>1, <4>2
    <3>7. f[d] \in Int  BY <3>2, <3>5
    <3> QED BY <3>6, <3>7
  <2>2. ASSUME NEW d \in SUBSET D, Cardinality(d) <= k + 1 PROVE Adds(d)
    <3> HIDE DEF Adds
    <3>1. Cardinality(d) = k + 1 \/ Cardinality(d) <= k  BY <1>0, <2>2
    <3> QED BY <1>4, <2>1, <3>1
  <2> HIDE DEF Adds
  <2> QED BY <2>2
<1>5. \A k \in Nat : k \in S
  <2> HIDE DEF S
  <2> QED BY <1>3, <1>4, SetInduction
<1>6. \A d \in SUBSET D : Adds(d)
  <2> HIDE DEF Adds
  <2> QED BY <1>0, <1>5
<1> QED BY <1>2, <1>6 DEF AddsUp

\* h renumbers what s numbers as s2 does.
Renumbers(h, s, D, s2, D2) ==
    /\ \A x \in D : h[x] \in D2 /\ s[x] = s2[h[x]]
    /\ \A x, y \in D : h[x] = h[y] => x = y

\* Renumbered, the same numbers have the same sum.
LEMMA SumsMoved ==
    ASSUME NEW s, NEW D, Numbered(s, D), NEW f, Sums(s, D, f),
           NEW s2, NEW D2, Numbered(s2, D2), NEW f2, Sums(s2, D2, f2),
           NEW h, Renumbers(h, s, D, s2, D2),
           NEW H, \A z : z \in H <=> \E x \in D : z = h[x]
    PROVE  f[D] = f2[H]
<1> DEFINE Image(d) == {h[x] : x \in d}
           Same(d) == f[d] = f2[Image(d)]
           S == {k \in Nat : \A d \in SUBSET D : Cardinality(d) = k => Same(d)}
<1>0. \A d \in SUBSET D : IsFiniteSet(d) /\ Cardinality(d) \in Nat
  BY FS_Subset, FS_CardinalityType DEF Numbered
<1>1. AddsUp(s, D, f)  BY SumsAdd
<1>2. AddsUp(s2, D2, f2)  BY SumsAdd
<1>3. 0 \in S
  <2>1. ASSUME NEW d \in SUBSET D, Cardinality(d) = 0 PROVE Same(d)
    <3>1. d = {}  BY <1>0, <2>1, FS_EmptySet
    <3>2. Image(d) = {}  BY <3>1
    <3> HIDE DEF Image
    <3> QED BY <1>1, <1>2, <3>1, <3>2 DEF AddsUp
  <2> HIDE DEF Same
  <2> QED BY <2>1
<1>4. ASSUME NEW k \in Nat, k \in S PROVE k + 1 \in S
  <2>1. ASSUME NEW d \in SUBSET D, Cardinality(d) = k + 1 PROVE Same(d)
    <3>1. d # {} /\ IsFiniteSet(d)  BY <1>0, <2>1, FS_EmptySet
    <3>2. PICK x \in d : TRUE  BY <3>1
    <3>3. d \ {x} \in SUBSET D /\ Cardinality(d \ {x}) = k
      <4>1. Cardinality(d \ {x}) = Cardinality(d) - 1  BY <3>1, <3>2, SmallerSet
      <4> QED BY <2>1, <4>1
    <3>4. f[d \ {x}] = f2[Image(d \ {x})]
      <4>1. Same(d \ {x})
        <5> HIDE DEF Same
        <5> QED BY <1>4, <3>3
      <4> QED BY <4>1
    <3>5. Image(d \ {x}) = Image(d) \ {h[x]}
      <4>1. \A y \in d : h[y] = h[x] <=> y = x  BY <3>2 DEF Renumbers
      <4> QED BY <4>1
    <3>6. Image(d) \in SUBSET D2 /\ h[x] \in Image(d)  BY <3>2 DEF Renumbers
    <3>7. f[d] = s[x] + f[d \ {x}] /\ s[x] = s2[h[x]]
      BY <1>1, <3>2 DEF AddsUp, Renumbers
    <3> HIDE DEF Image
    <3>8. f2[Image(d)] = s2[h[x]] + f2[Image(d) \ {h[x]}]  BY <1>2, <3>6 DEF AddsUp
    <3> QED BY <3>4, <3>5, <3>7, <3>8
  <2> HIDE DEF Same
  <2> QED BY <2>1
<1>5. \A k \in Nat : k \in S
  <2> HIDE DEF S
  <2> QED BY <1>3, <1>4, SetInduction
<1>6. Same(D)
  <2> HIDE DEF Same
  <2> QED BY <1>0, <1>5
<1>7. Image(D) = H  OBVIOUS
<1> HIDE DEF Image
<1> QED BY <1>6, <1>7

----------------------------------------------------------------------------
(* Counting by maps.                                                       *)

\* A set that another is mapped to one to one has as many elements.
LEMMA CountMapped ==
    ASSUME NEW S, IsFiniteSet(S), NEW T, NEW h, \A x \in S : h[x] \in T,
           \A z \in T : \E x \in S : z = h[x],
           \A x, y \in S : h[x] = h[y] => x = y
    PROVE  IsFiniteSet(T) /\ Cardinality(T) = Cardinality(S)
<1> DEFINE g == [x \in S |-> h[x]]
<1>1. g \in Bijection(S, T)
  BY DEF Bijection, Injection, Surjection, IsInjective
<1>2. Bijection(S, T) # {}  BY <1>1
<1> QED BY <1>2, FS_Bijection DEF ExistsBijection

\* w[e] pairs for every e of E, as many as N.
Spread(E, w, N) == {x \in E \X (1 .. N) : x[2] <= w[x[1]]}

\* w[e] of the elements of P are mapped to e.
Fibres(P, g, E, w) ==
    /\ \A p \in P : g[p] \in E
    /\ \A e \in E : w[e] = Cardinality({p \in P : g[p] = e})

\* Elements counted by what they are mapped to.
LEMMA CountFibres ==
    ASSUME NEW P, IsFiniteSet(P), NEW g, NEW E, NEW w, Fibres(P, g, E, w),
           NEW N \in Nat, Cardinality(P) <= N
    PROVE  Cardinality(Spread(E, w, N)) = Cardinality(P)
<1> DEFINE F(e) == {p \in P : g[p] = e}
           X == {x \in E \X (1 .. N) : x[2] <= w[x[1]]}
           b(e) == CHOOSE f : f \in Bijection(1 .. w[e], F(e))
           Place(p) == CHOOSE j \in 1 .. w[g[p]] : b(g[p])[j] = p
           h == [p \in P |-> <<g[p], Place(p)>>]
<1>1. \A p \in P : g[p] \in E  BY DEF Fibres
<1>2. ASSUME NEW e \in E
      PROVE  /\ w[e] \in Nat /\ w[e] <= N
             /\ \A j \in 1 .. w[e] : b(e)[j] \in F(e)
             /\ \A j, k \in 1 .. w[e] : b(e)[j] = b(e)[k] => j = k
             /\ \A p \in F(e) : \E j \in 1 .. w[e] : b(e)[j] = p
  <2>1. IsFiniteSet(F(e)) /\ Cardinality(F(e)) <= Cardinality(P)
    <3>1. F(e) \subseteq P  OBVIOUS
    <3> HIDE DEF F
    <3> QED BY <3>1, FS_Subset
  <2>2. w[e] = Cardinality(F(e))  BY DEF Fibres
  <2>3. w[e] \in Nat /\ ExistsBijection(1 .. w[e], F(e))
    <3> HIDE DEF F
    <3> QED BY <2>1, <2>2, FS_CardinalityType
  <2>4. Cardinality(P) \in Nat  BY FS_CardinalityType
  <2>5. w[e] <= N  BY <2>1, <2>2, <2>3, <2>4
  <2>6. \E f : f \in Bijection(1 .. w[e], F(e))
    BY <2>3 DEF ExistsBijection
  <2>7. b(e) \in Bijection(1 .. w[e], F(e))
    <3> HIDE DEF F
    <3> QED BY <2>6
  <2> HIDE DEF b, F
  <2> QED BY <2>3, <2>5, <2>7 DEF Bijection, Injection, Surjection, IsInjective
<1> HIDE DEF b
<1>3. ASSUME NEW p \in P
      PROVE  Place(p) \in 1 .. w[g[p]] /\ b(g[p])[Place(p)] = p
  <2>1. \E j \in 1 .. w[g[p]] : b(g[p])[j] = p  BY <1>1, <1>2
  <2> QED BY <2>1
<1> HIDE DEF Place
<1>4. \A p \in P : h[p] \in X
  <2> TAKE p \in P
  <2>1. g[p] \in E /\ Place(p) \in 1 .. w[g[p]] /\ w[g[p]] \in Nat /\ w[g[p]] <= N
    BY <1>1, <1>2, <1>3
  <2>2. Place(p) \in 1 .. N /\ Place(p) <= w[g[p]]  BY <2>1
  <2> QED BY <2>1, <2>2
<1>5. \A x \in X : \E p \in P : x = h[p]
  <2> TAKE x \in X
  <2>1. PICK e \in E, j \in 1 .. N : x = <<e, j>> /\ j <= w[e]  OBVIOUS
  <2>2. w[e] \in Nat /\ j \in 1 .. w[e]  BY <1>2, <2>1
  <2>3. PICK p \in P : g[p] = e /\ b(e)[j] = p  BY <1>2, <2>2
  <2>4. Place(p) = j  BY <1>2, <1>3, <2>2, <2>3
  <2> QED BY <2>1, <2>3, <2>4
<1>6. \A p, q \in P : h[p] = h[q] => p = q
  <2> SUFFICES ASSUME NEW p \in P, NEW q \in P, h[p] = h[q] PROVE p = q
    OBVIOUS
  <2>1. g[p] = g[q] /\ Place(p) = Place(q)  OBVIOUS
  <2> QED BY <1>3, <2>1
<1> HIDE DEF X, h
<1>7. Cardinality(X) = Cardinality(P)  BY <1>4, <1>5, <1>6, CountMapped
<1> QED BY <1>7 DEF X, Spread

----------------------------------------------------------------------------
(* Numbers in a row, values made one from another, and lists.              *)

\* The numbers below n are n.
LEMMA CountBelow ==
    ASSUME NEW n \in Nat
    PROVE  IsFiniteSet(0 .. n - 1) /\ Cardinality(0 .. n - 1) = n
<1>1. 0 \in Int /\ n - 1 \in Int  OBVIOUS
<1> QED BY <1>1, FS_Interval

\* A larger factor gives a larger product.
LEMMA TimesRises ==
    ASSUME NEW d \in Nat, d > 0, NEW a \in Nat, NEW b \in Nat, a < b
    PROVE  d * a < d * b /\ a <= d * a
<1>1. PICK c \in Nat : b = a + c /\ c > 0
  <2>1. b - a \in Nat /\ b = a + (b - a) /\ b - a > 0  OBVIOUS
  <2> QED BY <2>1
<1>2. d * b = d * a + d * c  BY <1>1
<1>3. d * c > 0 /\ d * a \in Int /\ d * c \in Int  BY <1>1
<1>4. PICK e \in Nat : d = e + 1
  <2>1. d - 1 \in Nat /\ d = (d - 1) + 1  OBVIOUS
  <2> QED BY <2>1
<1>5. d * a = e * a + a /\ e * a \in Nat  BY <1>4
<1> QED BY <1>2, <1>3, <1>5

\* An order of rows is one of whatever has a row each.
LEMMA OrdersBack ==
    ASSUME NEW S, NEW R, Orders(R, S), NEW T, NEW f \in [T -> S],
           \A x, y \in T : f[x] = f[y] => x = y
    PROVE  Orders({p \in T \X T : <<f[p[1]], f[p[2]]>> \in R}, T)
<1> DEFINE Q == {p \in T \X T : <<f[p[1]], f[p[2]]>> \in R}
<1>1. \A x, y \in T : <<x, y>> \in Q <=> <<f[x], f[y]>> \in R  OBVIOUS
<1>2. \A x \in T : f[x] \in S  OBVIOUS
<1> HIDE DEF Q
<1>3. Asymmetric(Q, T)  BY <1>1, <1>2 DEF Orders, Asymmetric
<1>4. \A x, y \in T : x = y \/ <<x, y>> \in Q \/ <<y, x>> \in Q
  BY <1>1, <1>2 DEF Orders
<1>5. \A x, y, z \in T : <<x, y>> \in Q /\ <<y, z>> \in Q => <<x, z>> \in Q
  BY <1>1, <1>2 DEF Orders
<1>6. Orders(Q, T)  BY <1>3, <1>4, <1>5 DEF Orders
<1> QED BY <1>6 DEF Q

\* Values one after the other, each made of the one before.
Repeats(h, N, v, F) == h = [k \in 0 .. N |-> IF k = 0 THEN v ELSE F[<<k, h[k - 1]>>]]

\* What is defined step by step from one value exists, and has values throughout.
LEMMA Iterated ==
    ASSUME NEW N \in Nat, NEW V, NEW v \in V, NEW F \in [(1 .. N) \X V -> V]
    PROVE  /\ \E h : Repeats(h, N, v, F)
           /\ \A h : Repeats(h, N, v, F) => h \in [0 .. N -> V]
<1> DEFINE Step(k, h) == IF k = 0 THEN v ELSE F[<<k, h[k - 1]>>]
           Upto(h, m) == DOMAIN h = 0 .. m /\ \A k \in 0 .. m : h[k] = Step(k, h)
           Done == {m \in Nat : m <= N => \E h : Upto(h, m) /\ h \in [0 .. m -> V]}
<1>1. 0 \in Done
  <2> DEFINE h == [k \in 0 .. 0 |-> v]
  <2>1. Upto(h, 0) /\ h \in [0 .. 0 -> V]  OBVIOUS
  <2> HIDE DEF h, Upto
  <2> QED BY <2>1
<1>2. ASSUME NEW m \in Nat, m \in Done PROVE m + 1 \in Done
  <2> SUFFICES ASSUME m + 1 <= N PROVE \E h : Upto(h, m + 1) /\ h \in [0 .. m + 1 -> V]
    OBVIOUS
  <2>1. PICK h : Upto(h, m) /\ h \in [0 .. m -> V]  BY <1>2
  <2> DEFINE g == [k \in 0 .. m + 1 |-> IF k = m + 1 THEN F[<<k, h[m]>>] ELSE h[k]]
  <2>2. h[m] \in V /\ \A k \in 0 .. m : h[k] \in V  BY <2>1
  <2>3. <<m + 1, h[m]>> \in (1 .. N) \X V  BY <2>2
  <2>4. F[<<m + 1, h[m]>>] \in V  BY <2>3
  <2>5. g \in [0 .. m + 1 -> V]
    <3>1. \A k \in 0 .. m + 1 : k # m + 1 => k \in 0 .. m  OBVIOUS
    <3> QED BY <2>2, <2>4, <3>1
  <2>6. \A k \in 0 .. m + 1 : g[k] = Step(k, g)
    <3> SUFFICES ASSUME NEW k \in 0 .. m + 1 PROVE g[k] = Step(k, g)  OBVIOUS
    <3>1. k # 0 => k - 1 \in 0 .. m /\ k - 1 # m + 1  OBVIOUS
    <3>2. \A i \in 0 .. m : g[i] = h[i]  OBVIOUS
    <3>3. CASE k = m + 1
      <4>1. g[k - 1] = h[m] /\ k # 0  BY <3>1, <3>2, <3>3
      <4> QED BY <3>3, <4>1
    <3>4. CASE k # m + 1
      <4>1. k \in 0 .. m /\ g[k] = h[k]  BY <3>4
      <4>2. h[k] = Step(k, h)  BY <2>1, <4>1
      <4>3. k # 0 => h[k - 1] = g[k - 1]  BY <3>1, <3>2
      <4> HIDE DEF g
      <4> QED BY <4>1, <4>2, <4>3
    <3> QED BY <3>3, <3>4
  <2>7. DOMAIN g = 0 .. m + 1  OBVIOUS
  <2> HIDE DEF g, Step
  <2> QED BY <2>5, <2>6, <2>7
<1> HIDE DEF Done
<1>3. Nat \subseteq Done  BY <1>1, <1>2, SetInduction
<1>4. PICK h : Upto(h, N) /\ h \in [0 .. N -> V]  BY <1>3 DEF Done
<1>5. Repeats(h, N, v, F)
  <2>1. h = [k \in 0 .. N |-> h[k]]  BY <1>4
  <2> HIDE DEF Step
  <2>2. h = [k \in 0 .. N |-> Step(k, h)]  BY <1>4, <2>1
  <2> QED BY <2>2 DEF Repeats, Step
<1>6. ASSUME NEW g, Repeats(g, N, v, F) PROVE g \in [0 .. N -> V]
  <2>1. DOMAIN g = 0 .. N /\ g = [k \in 0 .. N |-> g[k]]
    <3> DEFINE body(k) == IF k = 0 THEN v ELSE F[<<k, g[k - 1]>>]
    <3>1. g = [k \in 0 .. N |-> body(k)]  BY <1>6 DEF Repeats
    <3> HIDE DEF body
    <3> QED BY <3>1
  <2>2. \A k \in 0 .. N : g[k] = IF k = 0 THEN v ELSE F[<<k, g[k - 1]>>]
    <3> DEFINE body(k) == IF k = 0 THEN v ELSE F[<<k, g[k - 1]>>]
    <3>1. g = [k \in 0 .. N |-> body(k)]  BY <1>6 DEF Repeats
    <3> HIDE DEF body
    <3>2. \A k \in 0 .. N : g[k] = body(k)  BY <3>1
    <3> QED BY <3>2 DEF body
  <2> DEFINE E == {m \in Nat : m <= N => g[m] \in V}
  <2>3. 0 \in E
    <3>1. 0 \in 0 .. N  OBVIOUS
    <3>2. g[0] = v  BY <2>2, <3>1
    <3> QED BY <3>2
  <2>4. ASSUME NEW m \in Nat, m \in E PROVE m + 1 \in E
    <3> SUFFICES ASSUME m + 1 <= N PROVE g[m + 1] \in V  OBVIOUS
    <3>1. g[m] \in V  BY <2>4
    <3>2. g[m + 1] = F[<<m + 1, g[m]>>]
      <4>1. m + 1 \in 0 .. N /\ m + 1 # 0 /\ (m + 1) - 1 = m  OBVIOUS
      <4> QED BY <2>2, <4>1
    <3>3. <<m + 1, g[m]>> \in (1 .. N) \X V  BY <3>1
    <3> QED BY <3>2, <3>3
  <2> HIDE DEF E
  <2>5. Nat \subseteq E  BY <2>3, <2>4, SetInduction
  <2>6. \A k \in 0 .. N : g[k] \in V  BY <2>5 DEF E
  <2> QED BY <2>1, <2>6
<1> QED BY <1>5, <1>6

\* Lists of numbers in dictionary order, and then by row.
LexBefore(r, m, a, b) ==
    \/ \E k \in 1 .. m : r[k][a] < r[k][b] /\ \A j \in 1 .. k - 1 : r[j][a] = r[j][b]
    \/ a < b /\ \A k \in 1 .. m : r[k][a] = r[k][b]

LexPairs(r, m, S) == {p \in S \X S : LexBefore(r, m, p[1], p[2])}

\* The lexicographic order of ranks puts rows in one order.
LEMMA LexOrders ==
    ASSUME NEW m \in Nat, NEW S \in SUBSET Int, NEW r,
           \A k \in 1 .. m : \A a \in S : r[k][a] \in Int
    PROVE  Orders(LexPairs(r, m, S), S)
<1> DEFINE R == LexPairs(r, m, S)
           B(a, b) == LexBefore(r, m, a, b)
<1>1. \A a, b \in S : <<a, b>> \in R <=> B(a, b)  BY DEF LexPairs
<1>2. \A a, b \in S : B(a, b) => ~ B(b, a)
  <2> SUFFICES ASSUME NEW a \in S, NEW b \in S, B(a, b), B(b, a) PROVE FALSE
    OBVIOUS
  <2>1. CASE \E k \in 1 .. m : r[k][a] < r[k][b] /\ \A j \in 1 .. k - 1 : r[j][a] = r[j][b]
    <3>1. PICK k \in 1 .. m : r[k][a] < r[k][b] /\ \A j \in 1 .. k - 1 : r[j][a] = r[j][b]
      BY <2>1
    <3>2. CASE \E i \in 1 .. m : r[i][b] < r[i][a] /\ \A j \in 1 .. i - 1 : r[j][b] = r[j][a]
      <4>1. PICK i \in 1 .. m : r[i][b] < r[i][a] /\ \A j \in 1 .. i - 1 : r[j][b] = r[j][a]
        BY <3>2
      <4>2. CASE i < k
        <5>1. i \in 1 .. k - 1  BY <4>2
        <5> QED BY <3>1, <4>1, <5>1
      <4>3. CASE k < i
        <5>1. k \in 1 .. i - 1  BY <4>3
        <5> QED BY <3>1, <4>1, <5>1
      <4>4. CASE k = i  BY <3>1, <4>1, <4>4
      <4> QED BY <4>2, <4>3, <4>4
    <3>3. CASE \A i \in 1 .. m : r[i][b] = r[i][a]
      <4>1. r[k][a] \in Int /\ r[k][b] \in Int /\ r[k][b] = r[k][a]  BY <3>3
      <4> QED BY <3>1, <4>1
    <3> QED BY <3>2, <3>3 DEF LexBefore
  <2>2. CASE a < b /\ \A k \in 1 .. m : r[k][a] = r[k][b]
    BY <2>2 DEF LexBefore
  <2> QED BY <2>1, <2>2 DEF LexBefore
<1>3. \A a, b \in S : a = b \/ B(a, b) \/ B(b, a)
  <2> SUFFICES ASSUME NEW a \in S, NEW b \in S, a # b PROVE B(a, b) \/ B(b, a)
    OBVIOUS
  <2> DEFINE T == {k \in 1 .. m : r[k][a] # r[k][b]}
  <2>1. CASE T = {}
    <3>1. \A k \in 1 .. m : r[k][a] = r[k][b]  BY <2>1
    <3> QED BY <3>1 DEF LexBefore
  <2>2. CASE T # {}
    <3>1. T \in SUBSET Nat  OBVIOUS
    <3>2. PICK k \in T : \A j \in T : k <= j
      <4> HIDE DEF T
      <4> QED BY <2>2, <3>1, LeastElement
    <3>3. \A j \in 1 .. k - 1 : r[j][a] = r[j][b]
      <4> SUFFICES ASSUME NEW j \in 1 .. k - 1, r[j][a] # r[j][b] PROVE FALSE  OBVIOUS
      <4>1. j \in T  BY <3>2
      <4> QED BY <3>2, <4>1
    <3>4. k \in 1 .. m /\ (r[k][a] < r[k][b] \/ r[k][b] < r[k][a])
      <4>1. k \in 1 .. m /\ r[k][a] # r[k][b]  BY <3>2
      <4>2. r[k][a] \in Int /\ r[k][b] \in Int  BY <4>1
      <4> QED BY <4>1, <4>2
    <3>5. CASE r[k][a] < r[k][b]  BY <3>3, <3>4, <3>5 DEF LexBefore
    <3>6. CASE r[k][b] < r[k][a]  BY <3>3, <3>4, <3>6 DEF LexBefore
    <3> QED BY <3>4, <3>5, <3>6
  <2> QED BY <2>1, <2>2
<1>4. \A a, b, c \in S : B(a, b) /\ B(b, c) => B(a, c)
  <2> SUFFICES ASSUME NEW a \in S, NEW b \in S, NEW c \in S, B(a, b), B(b, c)
               PROVE  B(a, c)
    OBVIOUS
  <2> DEFINE At(x, y, k) == r[k][x] < r[k][y] /\ \A j \in 1 .. k - 1 : r[j][x] = r[j][y]
             Same(x, y) == \A k \in 1 .. m : r[k][x] = r[k][y]
  <2>1. \A x, y \in S : B(x, y) <=> ((\E k \in 1 .. m : At(x, y, k)) \/ (x < y /\ Same(x, y)))
    BY DEF LexBefore
  <2>2. CASE (\E k \in 1 .. m : At(a, b, k)) /\ (\E k \in 1 .. m : At(b, c, k))
    <3>1. PICK k \in 1 .. m, i \in 1 .. m : At(a, b, k) /\ At(b, c, i)  BY <2>2
    <3>2. CASE k < i
      <4>1. k \in 1 .. i - 1 /\ \A j \in 1 .. k - 1 : j \in 1 .. i - 1 /\ j \in 1 .. m
        BY <3>2
      <4>2. At(a, c, k)  BY <3>1, <4>1
      <4> QED BY <2>1, <4>2
    <3>3. CASE i < k
      <4>1. i \in 1 .. k - 1 /\ \A j \in 1 .. i - 1 : j \in 1 .. k - 1 /\ j \in 1 .. m
        BY <3>3
      <4>2. At(a, c, i)  BY <3>1, <4>1
      <4> QED BY <2>1, <4>2
    <3>4. CASE i = k
      <4>1. At(a, c, k)  BY <3>1, <3>4
      <4> QED BY <2>1, <4>1
    <3> QED BY <3>2, <3>3, <3>4
  <2>3. CASE (\E k \in 1 .. m : At(a, b, k)) /\ Same(b, c)
    <3>1. PICK k \in 1 .. m : At(a, b, k)  BY <2>3
    <3>2. \A j \in 1 .. k - 1 : j \in 1 .. m  OBVIOUS
    <3>3. At(a, c, k)  BY <2>3, <3>1, <3>2
    <3> QED BY <2>1, <3>3
  <2>4. CASE Same(a, b) /\ (\E k \in 1 .. m : At(b, c, k))
    <3>1. PICK k \in 1 .. m : At(b, c, k)  BY <2>4
    <3>2. \A j \in 1 .. k - 1 : j \in 1 .. m  OBVIOUS
    <3>3. At(a, c, k)  BY <2>4, <3>1, <3>2
    <3> QED BY <2>1, <3>3
  <2>5. CASE a < b /\ Same(a, b) /\ b < c /\ Same(b, c)
    <3>1. Same(a, c)  BY <2>5
    <3>2. a \in Int /\ b \in Int /\ c \in Int /\ a < b /\ b < c  BY <2>5
    <3>3. a < c  BY <3>2
    <3> QED BY <2>1, <3>1, <3>3
  <2> HIDE DEF At, Same, B
  <2> QED BY <2>1, <2>2, <2>3, <2>4, <2>5
<1> HIDE DEF B, R
<1> QED BY <1>1, <1>2, <1>3, <1>4 DEF Orders, Asymmetric, R

\* A list with one more item.
LEMMA AppendedItems ==
    ASSUME NEW V, NEW s \in Seq(V), NEW x
    PROVE  Append(s, x) = [k \in 1 .. Len(s) + 1 |-> IF k = Len(s) + 1 THEN x ELSE s[k]]
<1> DEFINE W == V \cup {x}
<1>1. V \subseteq W /\ x \in W  OBVIOUS
<1> HIDE DEF W
<1>2. s \in Seq(W)  BY <1>1
<1> DEFINE a == Append(s, x)
           n == Len(s)
<1>3. a \in Seq(W) /\ Len(a) = n + 1 /\ n \in Nat  BY <1>1, <1>2
<1>4. a = [k \in 1 .. n + 1 |-> a[k]]
  <2> HIDE DEF a, n
  <2> QED BY <1>3
<1>5. a[n + 1] = x /\ \A k \in 1 .. n : a[k] = s[k]  BY <1>1, <1>2
<1> HIDE DEF a, n
<1>6. \A k \in 1 .. n + 1 : a[k] = IF k = n + 1 THEN x ELSE s[k]  BY <1>3, <1>5
<1>7. a = [k \in 1 .. n + 1 |-> IF k = n + 1 THEN x ELSE s[k]]  BY <1>4, <1>6
<1> QED BY <1>7 DEF a, n

\* One list after another.
LEMMA JoinedItems ==
    ASSUME NEW V, NEW s \in Seq(V), NEW u \in Seq(V)
    PROVE  /\ s \o u \in Seq(V) /\ Len(s \o u) = Len(s) + Len(u)
           /\ \A k \in 1 .. Len(s) : (s \o u)[k] = s[k]
           /\ \A k \in Len(s) + 1 .. Len(s) + Len(u) : (s \o u)[k] = u[k - Len(s)]
OBVIOUS
=============================================================================
