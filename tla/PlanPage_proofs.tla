---------------------------- MODULE PlanPage_proofs ----------------------------
(***************************************************************************)
(* Plans and the pages that ask by them: every plan that validation lets   *)
(* through is a chain and runs, but for an integer that does not fit, every *)
(* table of it of the schema that validation inferred; a filter keeps the  *)
(* rows where its condition is true, whichever way it is found; sorting and *)
(* grouping by encoded words is sorting and grouping by the values; and    *)
(* whatever a person does on a page, it is of one question, which its      *)
(* address opens again.  What an expression is of and comes to is proved by *)
(* going from the least deep expressions up (ExprInduction).               *)
(***************************************************************************)
EXTENDS Page, PlanRun, NaturalSets

----------------------------------------------------------------------------
(* The shape of a plan.                                                    *)

\* Each step but the output is read by a step after it; going from the last
\* step to the first, that can only be the next one.
LEMMA ReadByNext ==
    ASSUME NEW steps, NEW n \in Nat, NEW out,
           DOMAIN steps = 0 .. n - 1, WellShaped(steps, n, out)
    PROVE  /\ out = n - 1
           /\ \A i \in 0 .. n - 2 : Reads(steps[i + 1]) /\ steps[i + 1].input = i
<1>1. \A i \in 0 .. n - 1 :
        i = out \/ \E j \in 0 .. n - 1 : Reads(steps[j]) /\ steps[j].input = i
  BY DEF WellShaped, Marks
<1>2. \A j \in 0 .. n - 1 : Reads(steps[j]) => steps[j].input \in 0 .. j - 1
  BY DEF WellShaped, InOrder
<1>3. n > 0 /\ out \in 0 .. n - 1  BY DEF WellShaped
<1>4. out = n - 1
  <2>1. SUFFICES ASSUME n - 1 # out PROVE FALSE  OBVIOUS
  <2>2. PICK j \in 0 .. n - 1 : Reads(steps[j]) /\ steps[j].input = n - 1
    BY <2>1, <1>1, <1>3
  <2> QED BY <2>2, <1>2
<1> DEFINE Bad == {i \in 0 .. n - 2 : ~ (Reads(steps[i + 1]) /\ steps[i + 1].input = i)}
<1>5. Bad = {}
  <2>1. SUFFICES ASSUME Bad # {} PROVE FALSE  OBVIOUS
  <2>2. Bad \in SUBSET (0 .. n)  OBVIOUS
  <2>3. PICK m \in Bad : \A x \in Bad : x <= m
    <3> HIDE DEF Bad
    <3> QED BY <2>1, <2>2, GreatestBelow
  <2>4. m \in 0 .. n - 2  OBVIOUS
  <2>5. PICK j \in 0 .. n - 1 : Reads(steps[j]) /\ steps[j].input = m
    BY <2>4, <1>1, <1>4
  <2>6. m < j  BY <2>5, <2>4, <1>2
  <2>7. j # m + 1  BY <2>3, <2>5
  <2>8. j - 1 \in 0 .. n - 2 /\ m < j - 1  BY <2>6, <2>7, <2>5, <2>4
  <2>9. j - 1 \notin Bad  BY <2>8, <2>3
  <2>10. steps[(j - 1) + 1].input = j - 1  BY <2>8, <2>9
  <2>11. (j - 1) + 1 = j  BY <2>5
  <2> QED BY <2>5, <2>8, <2>10, <2>11
<1> QED BY <1>4, <1>5

\* Every plan that validation lets through is a chain from one scan to the
\* output, whatever its length (validate).  The executor, exclusions and the
\* summaries of a plan follow inputs from the output on this ground.
THEOREM WellShapedIsChained ==
    ASSUME NEW steps, NEW n \in Nat, NEW out,
           DOMAIN steps = 0 .. n - 1, WellShaped(steps, n, out)
    PROVE  Chained(steps, n, out)
<1>1. n > 0 /\ InOrder(steps)  BY DEF WellShaped
<1>2. ~ Reads(steps[0])  BY <1>1 DEF InOrder
<1>3. \A i \in 1 .. n - 1 : Reads(steps[i]) /\ steps[i].input = i - 1
  <2> TAKE i \in 1 .. n - 1
  <2>1. i - 1 \in 0 .. n - 2 /\ (i - 1) + 1 = i  BY <1>1
  <2> QED BY <2>1, ReadByNext
<1> QED BY <1>2, <1>3, ReadByNext DEF Chained

----------------------------------------------------------------------------
(* Sort keys.                                                              *)

\* What a column holds: values of its type, or nothing.
WellTyped(col, rows) ==
    /\ col.ty \in SortableTypes
    /\ col.cells \in [rows -> CellValues(col.ty) \cup {Missing}]

\* What the bounds of words are.
LEMMA HalfIsPositive ==
    Half \in Nat /\ Half > 0 /\ Infinity \in Nat /\ Infinity < Half
  BY WordAssumption

\* v as u64 ^ (1 << 63): the sign bit is flipped, which adds 2^63.
LEMMA IntegerWord ==
    ASSUME NEW v \in I64
    PROVE  FlipTop(AsWord(v)) = v + Half
  BY HalfIsPositive DEF I64, FlipTop, AsWord

\* The words of decimals are in the order of the decimals, and above 0.
LEMMA DecimalWordsInOrder ==
    ASSUME NEW x \in Finite, NEW y \in Finite
    PROVE  /\ DecimalWord(x) \in Nat /\ DecimalWord(x) > 0
           /\ DecimalWord(x) < DecimalWord(y) <=> Signed(x) < Signed(y)
<1>1. \A w \in Finite :
        /\ DecimalWord(w) \in Int
        /\ Signed(w) \in Int
        /\ Signed(w) < 0 => DecimalWord(w) = Half - 1 + Signed(w)
        /\ Signed(w) >= 0 => DecimalWord(w) = Half + Signed(w)
        /\ - Infinity < Signed(w)
  BY HalfIsPositive DEF Finite, U64, Signed, DecimalWord, FlipTop, Complement
<1> QED
  <2> DEFINE wx == DecimalWord(x)
             wy == DecimalWord(y)
             sx == Signed(x)
             sy == Signed(y)
  <2>1. /\ wx \in Int /\ sx \in Int /\ - Infinity < sx
        /\ sx < 0 => wx = Half - 1 + sx
        /\ sx >= 0 => wx = Half + sx
    BY <1>1
  <2>2. /\ wy \in Int /\ sy \in Int /\ - Infinity < sy
        /\ sy < 0 => wy = Half - 1 + sy
        /\ sy >= 0 => wy = Half + sy
    BY <1>1
  <2>3. wx \in Nat /\ wx > 0 /\ (wx < wy <=> sx < sy)
    <3> HIDE DEF wx, wy, sx, sy
    <3> QED BY <2>1, <2>2, HalfIsPositive
  <2> QED BY <2>3

\* sort_keys: the order of a column's words is the order of its values, and
\* equal values, -0.0 and 0.0 among them, have equal words.  A missing value
\* is 0, and no value is.
LEMMA EncodedInOrder ==
    ASSUME NEW col, NEW rows, WellTyped(col, rows), Encodable(col),
           NEW a \in rows, NEW b \in rows
    PROVE  /\ Encoded(col, a) \in Nat
           /\ Encoded(col, a) < Encoded(col, b) <=> RowLess(col, a, b)
<1> USE DEF IsPresent
<1>1. DOMAIN col.cells = rows  BY DEF WellTyped
<1>2. CASE col.ty \in {"I64", "Timestamp"}
  <2>1. CellValues(col.ty) = I64  BY <1>2 DEF CellValues
  <2>2. \A r \in rows : col.cells[r] = Missing \/ col.cells[r] \in I64
    BY <2>1 DEF WellTyped
  <2>3. \A r \in rows : IsPresent(col, r) =>
            Encoded(col, r) = col.cells[r] + Half
    BY <1>2, <2>2, IntegerWord DEF Encoded
  <2>4. \A r \in rows : ~ IsPresent(col, r) => Encoded(col, r) = 0
    BY DEF Encoded
  <2>5. col.ty # "F64"  BY <1>2
  <2>6. CASE IsPresent(col, a) /\ IsPresent(col, b)
    BY <2>2, <2>3, <2>5, <2>6, HalfIsPositive DEF RowLess, I64
  <2>7. CASE ~ (IsPresent(col, a) /\ IsPresent(col, b))
    <3>1. \A r \in rows : col.cells[r] # - Half
      BY <1>1, <1>2, <2>7 DEF Encodable, HasMissing
    <3> QED BY <2>2, <2>3, <2>4, <2>7, <3>1, HalfIsPositive DEF RowLess, I64
  <2> QED BY <2>6, <2>7
<1>3. CASE col.ty = "F64"
  <2>1. CellValues(col.ty) = Finite  BY <1>3 DEF CellValues
  <2>2. \A r \in rows : col.cells[r] = Missing \/ col.cells[r] \in Finite
    BY <2>1 DEF WellTyped
  <2>3. \A r \in rows : IsPresent(col, r) =>
            Encoded(col, r) = DecimalWord(col.cells[r])
    BY <1>3 DEF Encoded
  <2>4. \A r \in rows : ~ IsPresent(col, r) => Encoded(col, r) = 0
    BY DEF Encoded
  <2>5. CASE IsPresent(col, a) /\ IsPresent(col, b)
    BY <1>3, <2>2, <2>3, <2>5, DecimalWordsInOrder DEF RowLess
  <2>6. CASE ~ IsPresent(col, a) /\ IsPresent(col, b)
    BY <2>2, <2>3, <2>4, <2>6, DecimalWordsInOrder DEF RowLess
  <2>7. CASE IsPresent(col, a) /\ ~ IsPresent(col, b)
    BY <2>2, <2>3, <2>4, <2>7, DecimalWordsInOrder DEF RowLess
  <2>8. CASE ~ IsPresent(col, a) /\ ~ IsPresent(col, b)
    BY <2>4, <2>8 DEF RowLess
  <2> QED BY <2>5, <2>6, <2>7, <2>8
<1>4. CASE col.ty \in {"Bool", "DictUtf8"}
  <2>1. CellValues(col.ty) \in SUBSET Nat
    BY <1>4, HalfIsPositive DEF CellValues
  <2>2. \A r \in rows : col.cells[r] = Missing \/ col.cells[r] \in Nat
    BY <2>1 DEF WellTyped
  <2>3. \A r \in rows : Encoded(col, r) =
            IF IsPresent(col, r) THEN 1 + col.cells[r] ELSE 0
    BY <1>4 DEF Encoded
  <2>4. col.ty # "F64"  BY <1>4
  <2> QED BY <2>2, <2>3, <2>4 DEF RowLess
<1> QED BY <1>2, <1>3, <1>4 DEF WellTyped, SortableTypes

\* The keys of a sort: typed columns of the rows 0 .. n-1.
KeysOf(keys, n) ==
    \A k \in DOMAIN keys :
        /\ WellTyped(keys[k].col, 0 .. n - 1)
        /\ keys[k].descending \in BOOLEAN

\* Descending or not: !w turns the order of the words round.
LEMMA WordsInOrder ==
    ASSUME NEW n \in Nat, NEW keys, KeysOf(keys, n), NEW k \in DOMAIN keys,
           Encodable(keys[k].col), NEW a \in 0 .. n - 1, NEW b \in 0 .. n - 1
    PROVE  /\ Word(keys[k], a) < Word(keys[k], b) <=> KeyLess(keys[k], a, b)
           /\ Word(keys[k], a) = Word(keys[k], b) <=> RowEqual(keys[k].col, a, b)
<1> DEFINE col == keys[k].col
           x == Encoded(col, a)
           y == Encoded(col, b)
<1>1. WellTyped(col, 0 .. n - 1)  BY DEF KeysOf
<1>2. x \in Nat /\ y \in Nat
  BY <1>1, EncodedInOrder
<1>3. x < y <=> RowLess(col, a, b)  BY <1>1, EncodedInOrder
<1>4. y < x <=> RowLess(col, b, a)  BY <1>1, EncodedInOrder
<1>5. x = y <=> RowEqual(col, a, b)  BY <1>2, <1>3, <1>4 DEF RowEqual
<1>6. CASE keys[k].descending
  <2>1. Word(keys[k], a) = 2 * Half - 1 - x /\ Word(keys[k], b) = 2 * Half - 1 - y
    BY <1>6 DEF Word, Complement
  <2>2. KeyLess(keys[k], a, b) <=> y < x  BY <1>4, <1>6 DEF KeyLess
  <2> QED
    <3> HIDE DEF x, y, col
    <3>1. (2 * Half - 1 - x < 2 * Half - 1 - y <=> y < x)
          /\ (2 * Half - 1 - x = 2 * Half - 1 - y <=> x = y)
      BY <1>2, HalfIsPositive
    <3> QED BY <1>5, <2>1, <2>2, <3>1 DEF col
<1>7. CASE ~ keys[k].descending
  <2>1. Word(keys[k], a) = x /\ Word(keys[k], b) = y  BY <1>7 DEF Word
  <2>2. KeyLess(keys[k], a, b) <=> x < y  BY <1>3, <1>7 DEF KeyLess
  <2> QED BY <1>5, <2>1, <2>2
<1> QED BY <1>6, <1>7

\* Sorting the entries (word, ..., word, row) is the stable sort by value.
LEMMA EntriesInOrder ==
    ASSUME NEW n \in Nat, NEW keys, KeysOf(keys, n), DOMAIN keys \in SUBSET Int,
           \A k \in DOMAIN keys : \A j \in 1 .. k - 1 : j \in DOMAIN keys,
           \A k \in DOMAIN keys : Encodable(keys[k].col),
           NEW a \in 0 .. n - 1, NEW b \in 0 .. n - 1
    PROVE  EntryBefore(keys, a, b) <=> ComparedBefore(keys, a, b)
<1>1. \A k \in DOMAIN keys :
        /\ Word(keys[k], a) < Word(keys[k], b) <=> KeyLess(keys[k], a, b)
        /\ Word(keys[k], a) = Word(keys[k], b) <=> RowEqual(keys[k].col, a, b)
  BY WordsInOrder
<1> QED BY <1>1 DEF EntryBefore, ComparedBefore

\* The rows of S by the values of the keys.
RankedRows(keys, S) ==
    [i \in 0 .. Cardinality(S) - 1 |->
        CHOOSE x \in S : Cardinality({y \in S : ComparedBefore(keys, y, x)}) = i]

\* A sort ranks the rows by their values, whether it compares words or values.
LEMMA WordsRank ==
    ASSUME NEW n \in Nat, NEW K, NEW keys \in Seq(K), KeysOf(keys, n)
    PROVE  SortPermutation(n, keys) = RankedRows(keys, 0 .. n - 1)
<1>1. CASE \A k \in DOMAIN keys : Encodable(keys[k].col)
  <2> DEFINE S == 0 .. n - 1
             Rank(x) == Cardinality({y \in S : EntryBefore(keys, y, x)})
             Place(x) == Cardinality({y \in S : ComparedBefore(keys, y, x)})
  <2>1. \A x \in S : Rank(x) = Place(x)
    <3> TAKE x \in S
    <3>1. {y \in S : EntryBefore(keys, y, x)} = {y \in S : ComparedBefore(keys, y, x)}
      BY <1>1, EntriesInOrder
    <3> QED BY <3>1
  <2>2. \A i : (CHOOSE x \in S : Rank(x) = i) = (CHOOSE x \in S : Place(x) = i)
    <3> HIDE DEF Rank, Place, S
    <3> QED BY <2>1
  <2>3. Ranked(S, LAMBDA a, b : EntryBefore(keys, a, b))
          = [i \in 0 .. Cardinality(S) - 1 |-> CHOOSE x \in S : Rank(x) = i]
    BY DEF Ranked
  <2>4. RankedRows(keys, S)
          = [i \in 0 .. Cardinality(S) - 1 |-> CHOOSE x \in S : Place(x) = i]
    BY DEF RankedRows
  <2>5. [i \in 0 .. Cardinality(S) - 1 |-> CHOOSE x \in S : Rank(x) = i]
          = [i \in 0 .. Cardinality(S) - 1 |-> CHOOSE x \in S : Place(x) = i]
    <3> HIDE DEF Rank, Place, S
    <3> QED BY <2>2
  <2> QED BY <1>1, <2>3, <2>4, <2>5 DEF SortPermutation
<1>2. CASE ~ \A k \in DOMAIN keys : Encodable(keys[k].col)
  BY <1>2 DEF SortPermutation, Ranked, RankedRows
<1> QED BY <1>1, <1>2

\* sort_permutation gives the permutation of the stable sort by comparators,
\* for any number of keys, whether it sorts words or falls back on the
\* comparators: null order, both zeros and i64::MIN included.
THEOREM WordsSortLikeValues ==
    ASSUME NEW n \in Nat, NEW K, NEW keys \in Seq(K), KeysOf(keys, n)
    PROVE  SortPermutation(n, keys)
             = Ranked(0 .. n - 1, LAMBDA a, b : ComparedBefore(keys, a, b))
<1>1. SortPermutation(n, keys) = RankedRows(keys, 0 .. n - 1)  BY WordsRank
<1>2. RankedRows(keys, 0 .. n - 1)
        = Ranked(0 .. n - 1, LAMBDA a, b : ComparedBefore(keys, a, b))
  BY DEF Ranked, RankedRows
<1> QED BY <1>1, <1>2

----------------------------------------------------------------------------
(* The pages: what a whole page is.                                        *)

\* A page is a record of these fields.
Fields == {"site", "q", "complaint", "types", "type_menu", "area_menu",
           "zip_shown", "zip", "yours", "order", "list", "shown", "answer",
           "compare", "search"}

IsPage(s) ==
    /\ s = [f \in Fields |-> s[f]]
    /\ s.q = [type |-> s.q.type, area |-> s.q.area]
    /\ s.yours = [hidden |-> s.yours.hidden, says |-> s.yours.says]
    /\ s.site \in DOMAIN Records

\* The types a question may be of: those of the menu, which the pages of New
\* York add to.
Askable(site) == IF site = "nyc" THEN TypesOf(site) ELSE TopTypes(site)

Asks(s) ==
    /\ s.q.type \in Askable(s.site) /\ s.types \subseteq Askable(s.site)
    /\ s.q.area \in Areas(s.site)

\* The menu of areas may name another than the question's only while a ZIP
\* is typed in.
Menus(s) ==
    /\ s.type_menu = s.q.type
    /\ \/ s.area_menu = s.q.area
       \/ s.area_menu = SomeZip /\ s.zip \notin Zips
       \/ s.area_menu = SomeZip /\ s.q.area = Area("zip", s.zip)
    /\ s.zip_shown => s.site = "nyc" /\ s.area_menu = SomeZip

Counts(s) ==
    /\ s.answer = s.q /\ s.compare = Compared(s.site, s.q)
    /\ s.list.q = s.q /\ s.list.order = s.order
    /\ s.list = [q |-> s.list.q, order |-> s.list.order, size |-> s.list.size]
    /\ s.list.size \in Nat /\ s.shown \in 0 .. s.list.size
    /\ s.shown % PAGE = 0 \/ s.shown = s.list.size

\* The address is of the question; a complaint it names is one that the
\* question belongs to.
Names(s, k) ==
    /\ s.site = "nyc" /\ k \in Rows("nyc")
    /\ s.q = QuestionFor(Records["nyc"][k])

Linked(s) ==
    /\ s.search = ToSearch(s.q, s.search.complaint)
    /\ s.search.complaint # Null => Names(s, s.search.complaint)
    /\ s.complaint # Null => s.complaint = s.search.complaint

\* What is said of a complaint that has a type.
EachTyped == \A site \in DOMAIN Records : \A k \in Rows(site) :
                 Records[site][k].type # Null

Right(s) ==
    /\ (~ s.yours.hidden /\ s.yours.says.q # Null) =>
          /\ s.yours.says.q = s.q
          /\ s.yours.says.why = Null <=>
                s.yours.says.of \in Counted(s.site, s.q)
          /\ s.yours.says.why # "elsewhere"

PageInv(s) ==
    /\ IsPage(s) /\ Asks(s) /\ Menus(s) /\ Counts(s) /\ Linked(s)
    /\ s.site # "nyc" => s.yours.hidden
    /\ EachTyped => Right(s)

----------------------------------------------------------------------------
\* A page shows more of its list until all of it is shown.
LEMMA PagesAdd ==
    ASSUME NEW p \in Nat \ {0}, NEW a \in Nat, a % p = 0
    PROVE  (a + p) % p = 0
<1>1. a \div p \in Nat  OBVIOUS
<1>2. a = (a \div p) * p  OBVIOUS
<1>3. \A b \in Nat, n \in Nat : b = n * p => b % p = 0  OBVIOUS
<1>4. a + p = ((a \div p) + 1) * p  BY <1>1, <1>2
<1>5. a + p \in Nat /\ (a \div p) + 1 \in Nat  BY <1>1
<1> QED BY <1>3, <1>4, <1>5

\* ... and never more than it holds.
LEMMA ShowMoreFields ==
    ASSUME NEW s, IsPage(s), s.list.size \in Nat, s.shown \in 0 .. s.list.size,
           s.shown % PAGE = 0 \/ s.shown = s.list.size
    PROVE  LET t == ShowMore(s)
           IN  /\ t = [s EXCEPT !.shown = t.shown]
               /\ t.shown \in 0 .. s.list.size
               /\ t.shown % PAGE = 0 \/ t.shown = s.list.size
<1> DEFINE n == IF s.list.size - s.shown < PAGE THEN s.list.size ELSE s.shown + PAGE
<1>1. ShowMore(s) = [s EXCEPT !.shown = n]  BY DEF ShowMore
<1>2. ShowMore(s).shown = n  BY <1>1 DEF IsPage, Fields
<1>3. PAGE \in Nat \ {0}  BY PageAssumption
<1>4. n \in 0 .. s.list.size  BY <1>3
<1>5. n % PAGE = 0 \/ n = s.list.size
  <2>1. CASE s.list.size - s.shown < PAGE  BY <2>1
  <2>2. CASE ~ (s.list.size - s.shown < PAGE) /\ s.shown = s.list.size
    BY <2>2, <1>3
  <2>3. CASE ~ (s.list.size - s.shown < PAGE) /\ s.shown % PAGE = 0
    <3>1. s.shown \in Nat /\ n = s.shown + PAGE  BY <2>3
    <3> HIDE DEF n
    <3> QED BY <3>1, <1>3, <2>3, PagesAdd
  <2> QED BY <2>1, <2>2, <2>3
<1> QED BY <1>1, <1>2, <1>4, <1>5

\* The complaints of a question can be counted.
LEMMA CountedIsFinite ==
    ASSUME NEW site \in DOMAIN Records, NEW q
    PROVE  Cardinality(Counted(site, q)) \in Nat
<1>1. IsFiniteSet(Rows(site))  BY PageAssumption DEF Rows
<1>2. Counted(site, q) \subseteq Rows(site)  BY DEF Counted
<1> QED BY <1>1, <1>2, FS_Subset, FS_CardinalityType

\* Fields that listing and answering leave alone.
SameAsked(s, t) ==
    /\ t.site = s.site /\ t.q = s.q /\ t.complaint = s.complaint
    /\ t.types = s.types /\ t.type_menu = s.type_menu
    /\ t.area_menu = s.area_menu /\ t.zip_shown = s.zip_shown /\ t.zip = s.zip
    /\ t.yours = s.yours /\ t.order = s.order

\* A new list is of the question and in the order chosen.
LEMMA ListComplaintsFields ==
    ASSUME NEW s, IsPage(s), s.answer = s.q, s.compare = Compared(s.site, s.q)
    PROVE  LET t == ListComplaints(s)
           IN  IsPage(t) /\ SameAsked(s, t) /\ Counts(t) /\ t.search = s.search
<1> DEFINE n == Cardinality(Counted(s.site, s.q))
           m == IF n < LIST_MAX THEN n ELSE LIST_MAX
           u == [s EXCEPT !.list = [q |-> s.q, order |-> s.order, size |-> m],
                          !.shown = 0]
           t == ShowMore(u)
<1>1. m \in Nat
  <2>1. n \in Nat  BY CountedIsFinite DEF IsPage
  <2> QED BY <2>1, PageAssumption
<1>2. ListComplaints(s) = t  BY DEF ListComplaints
<1> HIDE DEF n, m
<1>3. /\ IsPage(u) /\ u.shown = 0
      /\ u.list = [q |-> s.q, order |-> s.order, size |-> m]
      /\ SameAsked(s, u) /\ u.search = s.search
      /\ u.answer = s.answer /\ u.compare = s.compare
  BY DEF IsPage, SameAsked, Fields
<1>4. u.list.size = m /\ 0 % PAGE = 0
  <2>1. PAGE \in Nat \ {0}  BY PageAssumption
  <2>2. 0 % PAGE = 0  BY <2>1
  <2> QED BY <1>3, <2>2
<1> HIDE DEF u
<1>5. /\ t = [u EXCEPT !.shown = t.shown]
      /\ t.shown \in 0 .. m
      /\ t.shown % PAGE = 0 \/ t.shown = m
  BY <1>1, <1>3, <1>4, ShowMoreFields
<1> HIDE DEF t
<1>6. /\ IsPage(t) /\ t.list = u.list /\ t.answer = u.answer /\ t.compare = u.compare
      /\ SameAsked(u, t) /\ t.search = u.search
  <2> DEFINE k == t.shown
  <2>1. t = [u EXCEPT !.shown = k]  BY <1>5
  <2> HIDE DEF k
  <2> QED BY <1>3, <2>1 DEF IsPage, SameAsked, Fields
<1>7. SameAsked(s, t)  BY <1>3, <1>6 DEF SameAsked
<1>8. Counts(t)
  <2>1. t.site = s.site /\ t.q = s.q /\ t.order = s.order  BY <1>7 DEF SameAsked
  <2> QED BY <2>1, <1>1, <1>3, <1>4, <1>5, <1>6 DEF Counts
<1> QED BY <1>2, <1>3, <1>6, <1>7, <1>8

\* Answering: the list, the comparison and the address of the question.
LEMMA AnswerFields ==
    ASSUME NEW s, IsPage(s)
    PROVE  LET t == Answer(s)
           IN  /\ IsPage(t) /\ SameAsked(s, t) /\ Counts(t)
               /\ t.search = ToSearch(s.q, s.complaint)
<1> DEFINE u == [s EXCEPT !.answer = s.q, !.compare = Compared(s.site, s.q)]
           v == ListComplaints(u)
           t == Answer(s)
<1>1. /\ IsPage(u) /\ SameAsked(s, u) /\ u.answer = u.q
      /\ u.compare = Compared(u.site, u.q)
  BY DEF IsPage, SameAsked, Fields
<1> HIDE DEF u
<1>2. IsPage(v) /\ SameAsked(u, v) /\ Counts(v)  BY <1>1, ListComplaintsFields
<1>3. t = [v EXCEPT !.search = ToSearch(v.q, v.complaint)]
  BY DEF Answer, UpdateUrl, u
<1> HIDE DEF v, t
<1>4. /\ IsPage(t) /\ SameAsked(v, t) /\ t.search = ToSearch(v.q, v.complaint)
      /\ t.answer = v.answer /\ t.compare = v.compare /\ t.list = v.list
      /\ t.shown = v.shown
  BY <1>2, <1>3 DEF IsPage, SameAsked, Fields
<1>5. SameAsked(s, t)  BY <1>1, <1>2, <1>4 DEF SameAsked
<1>6. Counts(t)  BY <1>2, <1>4 DEF Counts, SameAsked
<1>7. t.search = ToSearch(s.q, s.complaint)  BY <1>1, <1>2, <1>4 DEF SameAsked
<1> QED BY <1>4, <1>5, <1>6, <1>7 DEF t

----------------------------------------------------------------------------
\* What a page must be to be answered.
Ready(s) ==
    /\ IsPage(s) /\ Asks(s) /\ Menus(s)
    /\ s.complaint # Null => Names(s, s.complaint)
    /\ s.site # "nyc" => s.yours.hidden
    /\ EachTyped => Right(s)

\* Answering a page that is ready makes it whole: the address is of its question.
LEMMA AnswerInv ==
    ASSUME NEW s, Ready(s)
    PROVE  PageInv(Answer(s)) /\ SameAsked(s, Answer(s))
<1> DEFINE t == Answer(s)
<1>1. /\ IsPage(t) /\ SameAsked(s, t) /\ Counts(t)
      /\ t.search = ToSearch(s.q, s.complaint)
  BY AnswerFields DEF Ready
<1> HIDE DEF t
<1>2. Asks(t)  BY <1>1 DEF Ready, Asks, SameAsked
<1>3. Menus(t)  BY <1>1 DEF Ready, Menus, SameAsked
<1>4. Linked(t)
  <2>1. t.search.complaint = s.complaint  BY <1>1 DEF ToSearch
  <2>2. t.search = ToSearch(t.q, t.search.complaint)
    BY <1>1, <2>1 DEF SameAsked
  <2>3. s.complaint # Null => Names(t, s.complaint)
    BY <1>1 DEF Ready, Names, SameAsked
  <2> QED BY <1>1, <2>1, <2>2, <2>3 DEF Linked, SameAsked
<1>5. EachTyped => Right(t)  BY <1>1 DEF Ready, Right, SameAsked
<1>6. t.site # "nyc" => t.yours.hidden  BY <1>1 DEF Ready, SameAsked
<1>7. PageInv(t) /\ SameAsked(s, t)
  BY <1>1, <1>2, <1>3, <1>4, <1>5, <1>6 DEF PageInv
<1> QED BY <1>7 DEF t

\* Areas by their kinds.
LEMMA AreaKinds ==
    ASSUME NEW site, NEW area \in Areas(site)
    PROVE  /\ area.kind = "zip" =>
                 area = Area("zip", area.value) /\ area.value \in Zips
           /\ area \in AreaMenu(site) \/ (area.kind = "zip" /\ site = "nyc")
           /\ area \in AreaMenu(site) => area.kind # "zip"
           /\ area.kind = "city" => area = City
  BY DEF Areas, AreaMenu, Area, City

\* The page whose question is now of `area`.
Moved(s, area) ==
    [s EXCEPT !.q.area = area,
              !.area_menu = IF area.kind = "zip" THEN SomeZip ELSE area,
              !.zip_shown = area.kind = "zip",
              !.zip = IF area.kind = "zip" THEN area.value ELSE @]

MovesTo(s, t, area) ==
    /\ IsPage(t)
    /\ t.site = s.site /\ t.q = Question(s.q.type, area)
    /\ t.complaint = s.complaint /\ t.types = s.types
    /\ t.type_menu = s.type_menu /\ t.yours = s.yours
    /\ t.area_menu = IF area.kind = "zip" THEN SomeZip ELSE area
    /\ t.zip_shown = (area.kind = "zip")
    /\ t.zip = IF area.kind = "zip" THEN area.value ELSE s.zip

\* What moving to another area changes of a page, and what it keeps.
LEMMA MovedFields ==
    ASSUME NEW s, IsPage(s), NEW area
    PROVE  MovesTo(s, Moved(s, area), area)
<1> DEFINE m == IF area.kind = "zip" THEN SomeZip ELSE area
           z == IF area.kind = "zip" THEN area.value ELSE s.zip
           b == (area.kind = "zip")
           t == Moved(s, area)
<1>1. t = [s EXCEPT !.q.area = area, !.area_menu = m, !.zip_shown = b, !.zip = z]
  BY DEF Moved, IsPage, Fields
<1> HIDE DEF m, z, b, t
<1>2. /\ IsPage(t)
      /\ t.site = s.site /\ t.q = Question(s.q.type, area)
      /\ t.complaint = s.complaint /\ t.types = s.types
      /\ t.type_menu = s.type_menu /\ t.yours = s.yours
      /\ t.area_menu = m /\ t.zip_shown = b /\ t.zip = z
  BY <1>1 DEF IsPage, Fields, Question
<1> QED BY <1>2 DEF m, z, b, t, MovesTo

\* Asking of another area, when the types are right.
LEMMA SetAreaFields ==
    ASSUME NEW s, IsPage(s), NEW area \in Areas(s.site),
           s.q.type \in Askable(s.site), s.types \subseteq Askable(s.site),
           s.type_menu = s.q.type
    PROVE  LET t == SetArea(s, area)
           IN  /\ IsPage(t) /\ Asks(t) /\ Menus(t) /\ Counts(t)
               /\ t.site = s.site /\ t.q = Question(s.q.type, area)
               /\ t.complaint = s.complaint /\ t.yours = s.yours
               /\ t.search = ToSearch(t.q, t.complaint)
<1> DEFINE u == Moved(s, area)
<1>0. MovesTo(s, u, area)  BY MovedFields
<1> DEFINE t == SetArea(s, area)
<1>2. t = Answer(u)  BY DEF SetArea, Moved
<1> HIDE DEF u, t
<1>1. /\ IsPage(u)
      /\ u.site = s.site /\ u.q = Question(s.q.type, area)
      /\ u.complaint = s.complaint /\ u.types = s.types
      /\ u.type_menu = s.type_menu /\ u.yours = s.yours
      /\ u.area_menu = IF area.kind = "zip" THEN SomeZip ELSE area
      /\ u.zip_shown = (area.kind = "zip")
      /\ u.zip = IF area.kind = "zip" THEN area.value ELSE s.zip
  BY <1>0 DEF MovesTo
<1>3. u.q.type = s.q.type /\ u.q.area = area  BY <1>1 DEF Question
<1>4. Asks(u)  BY <1>1, <1>3 DEF Asks
<1>5. Menus(u)
  <2>1. CASE area.kind = "zip"
    <3>1. area = Area("zip", area.value) /\ s.site = "nyc"  BY <2>1, AreaKinds
    <3> QED BY <1>1, <1>3, <2>1, <3>1 DEF Menus
  <2>2. CASE area.kind # "zip"  BY <1>1, <1>3, <2>2 DEF Menus
  <2> QED BY <2>1, <2>2
<1>6. /\ IsPage(t) /\ SameAsked(u, t) /\ Counts(t)
      /\ t.search = ToSearch(u.q, u.complaint)
  BY <1>1, <1>2, AnswerFields
<1>7. Asks(t) /\ Menus(t)  BY <1>4, <1>5, <1>6 DEF Asks, Menus, SameAsked
<1>8. /\ IsPage(t) /\ Asks(t) /\ Menus(t) /\ Counts(t)
      /\ t.site = s.site /\ t.q = Question(s.q.type, area)
      /\ t.complaint = s.complaint /\ t.yours = s.yours
      /\ t.search = ToSearch(t.q, t.complaint)
  BY <1>1, <1>6, <1>7 DEF SameAsked
<1> QED BY <1>8 DEF t

\* ... which makes a whole page when no complaint is being checked.
LEMMA SetAreaInv ==
    ASSUME NEW s, IsPage(s), NEW area \in Areas(s.site),
           s.q.type \in Askable(s.site), s.types \subseteq Askable(s.site),
           s.type_menu = s.q.type, s.complaint = Null, s.yours.hidden
    PROVE  LET t == SetArea(s, area)
           IN  /\ PageInv(t) /\ t.site = s.site
               /\ t.q = Question(s.q.type, area) /\ t.complaint = Null
<1> DEFINE t == SetArea(s, area)
<1>1. /\ IsPage(t) /\ Asks(t) /\ Menus(t) /\ Counts(t)
      /\ t.site = s.site /\ t.q = Question(s.q.type, area)
      /\ t.complaint = s.complaint /\ t.yours = s.yours
      /\ t.search = ToSearch(t.q, t.complaint)
  BY SetAreaFields
<1> HIDE DEF t
<1>2. t.search.complaint = Null  BY <1>1 DEF ToSearch
<1>3. Linked(t)  BY <1>1, <1>2 DEF Linked
<1>4. PageInv(t)  BY <1>1, <1>3 DEF PageInv, Right
<1> QED BY <1>1, <1>4 DEF t

----------------------------------------------------------------------------
\* The most common type: of those with the greatest count, the first by name.
LEMMA CommonType ==
    ASSUME NEW site \in DOMAIN Records
    PROVE  MostCommon(site) \in TopTypes(site)
<1> DEFINE T == TypesOf(site)
           N == {Count(site, t) : t \in T}
<1>1. IsFiniteSet(Rows(site))  BY PageAssumption DEF Rows
<1>2. \A t : Count(site, t) \in Nat
  <2> TAKE t
  <2>1. {k \in Rows(site) : Records[site][k].type = t} \subseteq Rows(site)  OBVIOUS
  <2> QED BY <1>1, <2>1, FS_Subset, FS_CardinalityType DEF Count
<1>3. T # {}
  <2>1. PICK k \in Rows(site) : Records[site][k].type # Null
    BY PageAssumption DEF Rows
  <2> DEFINE t == Records[site][k].type
  <2>2. t \in Types  BY <2>1, PageAssumption DEF Rows
  <2> DEFINE K == {j \in Rows(site) : Records[site][j].type = t}
  <2>3. K # {} /\ K \subseteq Rows(site)  BY <2>1
  <2>4. IsFiniteSet(K)  BY <1>1, <2>3, FS_Subset
  <2>5. Cardinality(K) # 0  BY <2>3, <2>4, FS_EmptySet
  <2>6. Count(site, t) = Cardinality(K)  BY DEF Count
  <2>7. Count(site, t) > 0  BY <2>5, <2>6, <1>2
  <2> QED BY <2>2, <2>7 DEF TypesOf
<1>4. IsFiniteSet(N)
  <2>1. \A t : Count(site, t) <= Cardinality(Rows(site))
    <3> TAKE t
    <3>1. {k \in Rows(site) : Records[site][k].type = t} \subseteq Rows(site)  OBVIOUS
    <3> QED BY <1>1, <3>1, FS_Subset DEF Count
  <2>2. Cardinality(Rows(site)) \in Nat  BY <1>1, FS_CardinalityType
  <2>3. N \subseteq 0 .. Cardinality(Rows(site))  BY <2>1, <2>2, <1>2
  <2>4. IsFiniteSet(0 .. Cardinality(Rows(site)))  BY <2>2, FS_Interval
  <2> QED BY <2>3, <2>4, FS_Subset
<1>5. PICK n \in N : \A m \in N : m <= n
  <2>1. N \in SUBSET Nat /\ N # {}  BY <1>2, <1>3
  <2> HIDE DEF N
  <2> QED BY <2>1, <1>4, GreatestElement
<1> DEFINE B == {t \in T : Count(site, t) = n}
<1>6. B # {}  BY <1>5
<1>7. T \subseteq Nat  BY PageAssumption DEF TypesOf
<1>8. PICK b \in B : \A t \in B : b <= t
  <2>1. B \in SUBSET Nat  BY <1>7
  <2> HIDE DEF B
  <2> QED BY <2>1, <1>6, LeastElement
<1>9. b \in T /\ Count(site, b) = n  BY <1>8
<1>10. \A t \in T : Count(site, t) <= n
  BY <1>5
<1>11. \A t \in T \ {b} : MoreCommon(site, b, t) /\ ~ MoreCommon(site, t, b)
  <2> TAKE t \in T \ {b}
  <2>1. Count(site, t) \in Nat /\ Count(site, b) \in Nat /\ Count(site, t) <= n
    BY <1>2, <1>10
  <2>2. t \in Nat /\ b \in Nat /\ t # b  BY <1>7, <1>9
  <2>3. CASE Count(site, t) = n
    <3>1. b <= t  BY <1>8, <2>3
    <3> QED BY <3>1, <2>1, <2>2, <2>3, <1>9 DEF MoreCommon
  <2>4. CASE Count(site, t) # n
    BY <2>1, <2>4, <1>9 DEF MoreCommon
  <2> QED BY <2>3, <2>4
<1>12. ~ MoreCommon(site, b, b)  BY <1>2, <1>7, <1>9 DEF MoreCommon
<1>13. {u \in T : MoreCommon(site, u, b)} = {}  BY <1>11, <1>12
<1>14. Cardinality({u \in T : MoreCommon(site, u, b)}) < TYPES
  <2>1. Cardinality({}) = 0 /\ 0 < TYPES  BY FS_EmptySet, PageAssumption
  <2> QED BY <1>13, <2>1
<1>15. b \in TopTypes(site)  BY <1>9, <1>14 DEF TopTypes
<1>16. TopTypes(site) \subseteq T  BY DEF TopTypes
<1>17. \E t \in TopTypes(site) :
          \A u \in TopTypes(site) \ {t} : MoreCommon(site, t, u)
  BY <1>11, <1>15, <1>16
<1> QED BY <1>17 DEF MostCommon

\* The page with its menus filled.
LEMMA FilledFields ==
    ASSUME NEW site \in DOMAIN Records
    PROVE  LET s == Filled(site)
           IN  /\ Ready(s) /\ s.site = site /\ s.q.area = City /\ s.complaint = Null
               /\ s.q.type \in TopTypes(site) /\ s.types = TopTypes(site)
               /\ s.yours.hidden
<1> DEFINE type == IF site = "nyc" /\ Preferred \in TopTypes(site)
                   THEN Preferred ELSE MostCommon(site)
           s == Filled(site)
<1>1. type \in TopTypes(site)  BY CommonType
<1>2. s = [site |-> site, q |-> Question(type, City), complaint |-> Null,
           types |-> TopTypes(site), type_menu |-> type, area_menu |-> City,
           zip_shown |-> FALSE, zip |-> Null,
           yours |-> [hidden |-> TRUE, says |-> Saying(Null)],
           order |-> "slowest", list |-> [q |-> Null, order |-> Null, size |-> 0],
           shown |-> 0, answer |-> Null, compare |-> {}, search |-> Null]
  BY DEF Filled
<1> HIDE DEF type, s
<1>3. /\ s.site = site /\ s.q = Question(type, City) /\ s.complaint = Null
      /\ s.types = TopTypes(site) /\ s.type_menu = type /\ s.area_menu = City
      /\ s.zip_shown = FALSE /\ s.yours = [hidden |-> TRUE, says |-> Saying(Null)]
  BY <1>2
<1>4. s = [f \in Fields |-> s[f]]  BY <1>2 DEF Fields
<1>5. s.q.type = type /\ s.q.area = City /\ s.yours.hidden  BY <1>3 DEF Question
<1>6. IsPage(s)  BY <1>3, <1>4 DEF IsPage, Question
<1>7. TopTypes(site) \subseteq Askable(site)  BY DEF TopTypes, Askable
<1>8. City \in Areas(site)  BY DEF Areas, AreaMenu
<1>9. Asks(s)  BY <1>1, <1>3, <1>5, <1>7, <1>8 DEF Asks
<1>10. Menus(s)  BY <1>3, <1>5 DEF Menus
<1>11. Ready(s)  BY <1>3, <1>5, <1>6, <1>9, <1>10 DEF Ready, Right
<1>12. /\ Ready(s) /\ s.site = site /\ s.q.area = City /\ s.complaint = Null
       /\ s.q.type \in TopTypes(site) /\ s.types = TopTypes(site)
       /\ s.yours.hidden
  BY <1>1, <1>3, <1>5, <1>11
<1> QED BY <1>12 DEF s

\* A complaint's question is one that the page may ask.
LEMMA QuestionAsked ==
    ASSUME NEW k \in Rows("nyc"), Records["nyc"][k].type # Null
    PROVE  LET q == QuestionFor(Records["nyc"][k])
           IN  /\ q = Question(q.type, q.area)
               /\ q.type \in Askable("nyc") /\ q.area \in Areas("nyc")
<1> DEFINE r == Records["nyc"][k]
           q == QuestionFor(r)
           K == {j \in Rows("nyc") : Records["nyc"][j].type = r.type}
<1>1. "nyc" \in DOMAIN Records  BY PageAssumption
<1>2. r.type \in Types  BY <1>1, PageAssumption DEF Rows
<1>3. Count("nyc", r.type) > 0
  <2>1. IsFiniteSet(Rows("nyc"))  BY <1>1, PageAssumption DEF Rows
  <2>2. K # {} /\ IsFiniteSet(K)  BY <2>1, FS_Subset
  <2>3. Cardinality(K) \in Nat /\ Cardinality(K) # 0
    BY <2>2, FS_EmptySet, FS_CardinalityType
  <2>4. Count("nyc", r.type) = Cardinality(K)  BY DEF Count
  <2> QED BY <2>3, <2>4
<1>4. r.type \in Askable("nyc")  BY <1>2, <1>3 DEF Askable, TypesOf
<1>5. q.type = r.type /\ q = Question(q.type, q.area)
  BY DEF QuestionFor, Question
<1>6. q.area \in Areas("nyc")
  <2>1. CASE r.board \in Districts
    <3>1. r.board # Null  BY <2>1, PageAssumption
    <3>2. r.board \in ValuesOf("nyc", "board")  BY <3>1 DEF ValuesOf
    <3>3. q.area = Area("board", r.board)  BY <2>1 DEF QuestionFor, Question
    <3> QED BY <2>1, <3>2, <3>3 DEF Areas, AreaMenu
  <2>2. CASE r.board \notin Districts /\ r.borough \in Boroughs
    <3>1. q.area = Area("borough", r.borough)  BY <2>2 DEF QuestionFor, Question
    <3> QED BY <2>2, <3>1 DEF Areas, AreaMenu
  <2>3. CASE r.board \notin Districts /\ r.borough \notin Boroughs
    <3>1. q.area = City  BY <2>3 DEF QuestionFor, Question
    <3> QED BY <3>1 DEF Areas, AreaMenu
  <2> QED BY <2>1, <2>2, <2>3
<1> QED BY <1>4, <1>5, <1>6

----------------------------------------------------------------------------
\* Asking of a type and an area that the page may ask about.
LEMMA SetQuestionFields ==
    ASSUME NEW s, IsPage(s), NEW q, q = Question(q.type, q.area),
           q.type \in Askable(s.site), q.area \in Areas(s.site),
           s.types \subseteq Askable(s.site)
    PROVE  LET t == SetQuestion(s, q)
           IN  /\ IsPage(t) /\ Asks(t) /\ Menus(t) /\ Counts(t)
               /\ t.site = s.site /\ t.q = q
               /\ t.complaint = s.complaint /\ t.yours = s.yours
               /\ t.search = ToSearch(t.q, t.complaint)
<1> DEFINE u == [s EXCEPT !.type_menu = q.type, !.types = @ \cup {q.type},
                          !.q.type = q.type]
<1>1. /\ IsPage(u) /\ u.site = s.site /\ u.q.type = q.type
      /\ u.types = s.types \cup {q.type} /\ u.type_menu = q.type
      /\ u.complaint = s.complaint /\ u.yours = s.yours
  BY DEF IsPage, Fields
<1>2. SetQuestion(s, q) = SetArea(u, q.area)  BY DEF SetQuestion
<1> HIDE DEF u
<1>3. u.types \subseteq Askable(u.site)  BY <1>1
<1> DEFINE t == SetArea(u, q.area)
<1>4. /\ IsPage(t) /\ Asks(t) /\ Menus(t) /\ Counts(t)
      /\ t.site = u.site /\ t.q = Question(u.q.type, q.area)
      /\ t.complaint = u.complaint /\ t.yours = u.yours
      /\ t.search = ToSearch(t.q, t.complaint)
  BY <1>1, <1>3, SetAreaFields
<1> HIDE DEF t
<1>5. t.q = q  BY <1>1, <1>4
<1> QED BY <1>1, <1>2, <1>4, <1>5 DEF t

\* Under its own question a complaint is not dropped for its type or area.
LEMMA VerdictRight ==
    ASSUME NEW k \in Rows("nyc")
    PROVE  LET q == QuestionFor(Records["nyc"][k])
               v == Verdict("nyc", k, q)
           IN  /\ v.of = k /\ v.q = q
               /\ v.why = Null <=> k \in Counted("nyc", q)
               /\ v.why # "elsewhere"
<1> DEFINE r == Records["nyc"][k]
           q == QuestionFor(r)
           filters == WaitFilters(q)
           dropping == {i \in DOMAIN filters : ~ Passes(filters[i], r, q)}
           d == DroppedBy(r, q)
<1>1. r.type = q.type  BY DEF QuestionFor, Question
<1>2. Within(r, q.area)
  <2>1. CASE r.board \in Districts
    <3>1. q.area = Area("board", r.board)  BY <2>1 DEF QuestionFor, Question
    <3>2. q.area.kind = "board" /\ q.area.value = r.board  BY <3>1 DEF Area
    <3>3. r[q.area.kind] = r.board  BY <3>2
    <3> QED BY <3>2, <3>3 DEF Within
  <2>2. CASE r.board \notin Districts /\ r.borough \in Boroughs
    <3>1. q.area = Area("borough", r.borough)  BY <2>2 DEF QuestionFor, Question
    <3>2. q.area.kind = "borough" /\ q.area.value = r.borough  BY <3>1 DEF Area
    <3>3. r[q.area.kind] = r.borough  BY <3>2
    <3> QED BY <3>2, <3>3 DEF Within
  <2>3. CASE r.board \notin Districts /\ r.borough \notin Boroughs
    <3>1. q.area = City  BY <2>3 DEF QuestionFor, Question
    <3> QED BY <3>1 DEF Within, City
  <2> QED BY <2>1, <2>2, <2>3
<1> HIDE DEF q
<1>3. Passes("type", r, q) /\ Passes("area", r, q)  BY <1>1, <1>2 DEF Passes
<1>4. \A i \in DOMAIN filters :
         /\ filters[i] \in {"type", "area", "closed", "forwards"}
         /\ i \in 1 .. 4
  BY DEF WaitFilters
<1> HIDE DEF filters
<1>5. \A i \in dropping : filters[i] \in {"closed", "forwards"}
  <2> TAKE i \in dropping
  <2>1. i \in DOMAIN filters /\ ~ Passes(filters[i], r, q)  OBVIOUS
  <2>2. filters[i] # "type" /\ filters[i] # "area"  BY <2>1, <1>3
  <2> QED BY <2>1, <2>2, <1>4
<1>6. dropping # {} => \E i \in dropping : \A j \in dropping : i <= j
  <2>1. dropping \in SUBSET Nat  BY <1>4
  <2> HIDE DEF dropping
  <2> QED BY <2>1, LeastElement
<1>7. d = IF dropping = {} THEN Null
          ELSE filters[CHOOSE i \in dropping : \A j \in dropping : i <= j]
  BY DEF DroppedBy, filters
<1> HIDE DEF dropping, d
<1>8. d \in {Null, "closed", "forwards"}  BY <1>5, <1>6, <1>7
<1>9. Null \notin {"closed", "forwards", "open", "backwards", "elsewhere"}
  BY PageAssumption
<1>10. WhyNotCounted(d) = Null <=> d = Null
  BY <1>8, <1>9 DEF WhyNotCounted
<1>11. WhyNotCounted(d) # "elsewhere"
  BY <1>8, <1>9 DEF WhyNotCounted
<1>12. k \in Counted("nyc", q) <=> d = Null  BY DEF Counted, d
<1> QED BY <1>10, <1>11, <1>12 DEF Verdict, d, q

\* Saying something, and naming a complaint, change nothing else.
SameBut(s, t, changed) == \A f \in Fields \ changed : t[f] = s[f]

\* Saying something changes nothing but what is said.
LEMMA SaidFields ==
    ASSUME NEW s, IsPage(s), NEW x
    PROVE  LET t == [s EXCEPT !.yours.says = x]
           IN  /\ IsPage(t) /\ SameBut(s, t, {"yours"})
               /\ t.yours = [hidden |-> s.yours.hidden, says |-> x]
<1> DEFINE y == [s.yours EXCEPT !.says = x]
           t == [s EXCEPT !.yours = y]
<1>1. y = [hidden |-> s.yours.hidden, says |-> x]  BY DEF IsPage
<1>2. [s EXCEPT !.yours.says = x] = t  OBVIOUS
<1> HIDE DEF y
<1>3. t.yours = y /\ \A f \in Fields \ {"yours"} : t[f] = s[f]
  BY DEF IsPage, Fields
<1>4. IsPage(t)  BY <1>1, <1>3 DEF IsPage, Fields
<1> QED BY <1>1, <1>2, <1>3, <1>4 DEF SameBut

Named(s, x, k) == UpdateUrl([s EXCEPT !.yours.says = x, !.complaint = k])

\* Naming a place changes what is said, the complaint and the search.
LEMMA NamedFields ==
    ASSUME NEW s, IsPage(s), NEW x, NEW k
    PROVE  LET t == Named(s, x, k)
           IN  /\ IsPage(t) /\ SameBut(s, t, {"yours", "complaint", "search"})
               /\ t.yours = [hidden |-> s.yours.hidden, says |-> x]
               /\ t.complaint = k /\ t.search = ToSearch(s.q, k)
<1> DEFINE u == [s EXCEPT !.yours.says = x]
           v == [u EXCEPT !.complaint = k]
           t == [v EXCEPT !.search = ToSearch(v.q, v.complaint)]
<1>1. /\ IsPage(u) /\ SameBut(s, u, {"yours"})
      /\ u.yours = [hidden |-> s.yours.hidden, says |-> x]
  BY SaidFields
<1>2. Named(s, x, k) = t  BY DEF Named, UpdateUrl
<1> HIDE DEF u
<1>3. v.complaint = k /\ \A f \in Fields \ {"complaint"} : v[f] = u[f]
  BY <1>1 DEF IsPage, Fields
<1>4. IsPage(v)  BY <1>1, <1>3 DEF IsPage, Fields
<1>5. v.q = s.q
  <2>1. "q" \in Fields \ {"complaint"} /\ "q" \in Fields \ {"yours"}
    BY DEF Fields
  <2> QED BY <1>1, <1>3, <2>1 DEF SameBut
<1> HIDE DEF v
<1>6. t.search = ToSearch(s.q, k) /\ \A f \in Fields \ {"search"} : t[f] = v[f]
  BY <1>3, <1>4, <1>5 DEF IsPage, Fields
<1>7. IsPage(t)  BY <1>4, <1>6 DEF IsPage, Fields
<1> HIDE DEF t
<1>8. SameBut(s, t, {"yours", "complaint", "search"})
  BY <1>1, <1>3, <1>6 DEF SameBut
<1>9. t.complaint = k /\ t.yours = u.yours
  BY <1>3, <1>6 DEF Fields
<1> QED BY <1>1, <1>2, <1>6, <1>7, <1>8, <1>9

\* ... so that the menus and the answer stay as they are.
LEMMA SameButSaid ==
    ASSUME NEW s, NEW t, SameBut(s, t, {"yours", "complaint", "search"})
    PROVE  /\ t.site = s.site /\ t.q = s.q
           /\ Asks(s) => Asks(t)
           /\ Menus(s) => Menus(t)
           /\ Counts(s) => Counts(t)
<1>1. /\ t.site = s.site /\ t.q = s.q /\ t.types = s.types
      /\ t.type_menu = s.type_menu /\ t.area_menu = s.area_menu
      /\ t.zip_shown = s.zip_shown /\ t.zip = s.zip /\ t.order = s.order
      /\ t.list = s.list /\ t.shown = s.shown /\ t.answer = s.answer
      /\ t.compare = s.compare
  BY DEF SameBut, Fields
<1> QED BY <1>1 DEF Asks, Menus, Counts

\* Checking a complaint keeps the page whole, whatever is typed in.
LEMMA LookUpInv ==
    ASSUME NEW s, PageInv(s), s.site = "nyc", NEW raw
    PROVE  LET t == LookUp(s, raw)
           IN  /\ PageInv(t) /\ t.site = "nyc"
               /\ (raw \in Rows("nyc") /\ Records["nyc"][raw].type # Null) =>
                     /\ t.q = QuestionFor(Records["nyc"][raw])
                     /\ t.complaint = raw
<1> DEFINE shown == [s EXCEPT !.yours.hidden = FALSE]
           q == QuestionFor(Records["nyc"][raw])
           asked == SetQuestion(shown, q)
           t == LookUp(s, raw)
<1>0. /\ Malformed \notin Rows("nyc") /\ Null \notin Rows("nyc")
      /\ "nyc" \in DOMAIN Records
  BY PageAssumption DEF Rows
<1>1. /\ IsPage(shown) /\ SameBut(s, shown, {"yours"})
      /\ shown.complaint = s.complaint /\ shown.search = s.search
      /\ shown.yours = [hidden |-> FALSE, says |-> s.yours.says]
  BY DEF PageInv, IsPage, Fields, SameBut
<1>2. t = IF raw = Malformed
          THEN [shown EXCEPT !.yours.says = Saying(raw)]
          ELSE IF raw \notin Rows("nyc")
          THEN UpdateUrl([shown EXCEPT !.yours.says = Saying(raw),
                                       !.complaint = Null])
          ELSE IF q.type = Null
          THEN shown
          ELSE UpdateUrl([asked EXCEPT !.yours.says = Verdict("nyc", raw, q),
                                       !.complaint = raw])
  BY DEF LookUp
<1> HIDE DEF shown, t
<1>3. /\ shown.site = "nyc" /\ shown.q = s.q
      /\ Asks(shown) /\ Menus(shown) /\ Counts(shown) /\ Linked(shown)
  <2>1. SameBut(s, shown, {"yours", "complaint", "search"})
    BY <1>1 DEF SameBut
  <2>2. shown.site = "nyc" /\ shown.q = s.q
    BY <2>1, SameButSaid
  <2>3. Asks(shown) /\ Menus(shown) /\ Counts(shown)
    BY <2>1, SameButSaid DEF PageInv
  <2>4. Linked(shown)  BY <1>1, <2>2 DEF PageInv, Linked, Names
  <2> QED BY <2>2, <2>3, <2>4
<1>4. Saying(raw).q = Null  BY DEF Saying
<1>5. CASE raw = Malformed
  <2>1. /\ IsPage(t) /\ SameBut(shown, t, {"yours"})
        /\ t.yours = [hidden |-> shown.yours.hidden, says |-> Saying(raw)]
    BY <1>1, <1>2, <1>5, SaidFields
  <2>2. SameBut(shown, t, {"yours", "complaint", "search"})
    BY <2>1 DEF SameBut
  <2>3. t.site = "nyc" /\ Asks(t) /\ Menus(t) /\ Counts(t) /\ t.q = shown.q
    BY <1>3, <2>2, SameButSaid
  <2>4. t.complaint = shown.complaint /\ t.search = shown.search
    BY <2>1 DEF SameBut, Fields
  <2>5. Linked(t)  BY <1>3, <2>3, <2>4 DEF Linked, Names
  <2>6. Right(t)  BY <1>4, <2>1 DEF Right
  <2>7. PageInv(t)  BY <2>1, <2>3, <2>5, <2>6 DEF PageInv
  <2> QED BY <1>0, <1>5, <2>3, <2>7 DEF t
<1>6. CASE raw # Malformed /\ raw \notin Rows("nyc")
  <2> DEFINE x == Saying(raw)
  <2>1. t = Named(shown, x, Null)  BY <1>2, <1>6 DEF Named
  <2>2. x.q = Null  BY <1>4
  <2> HIDE DEF x
  <2>3. /\ IsPage(t) /\ SameBut(shown, t, {"yours", "complaint", "search"})
        /\ t.yours = [hidden |-> shown.yours.hidden, says |-> x]
        /\ t.complaint = Null /\ t.search = ToSearch(shown.q, Null)
    <3>1. IsPage(shown)  BY <1>1
    <3> QED BY <2>1, <3>1, NamedFields
  <2>4. t.site = "nyc" /\ Asks(t) /\ Menus(t) /\ Counts(t) /\ t.q = shown.q
    BY <1>3, <2>3, SameButSaid
  <2>5. t.search.complaint = Null  BY <2>3 DEF ToSearch
  <2>6. Linked(t)  BY <2>3, <2>4, <2>5 DEF Linked
  <2>7. Right(t)  BY <2>2, <2>3 DEF Right
  <2>8. PageInv(t)  BY <2>3, <2>4, <2>6, <2>7 DEF PageInv
  <2> QED BY <1>6, <2>4, <2>8 DEF t
<1>7. CASE raw \in Rows("nyc") /\ q.type = Null
  <2>1. t = shown  BY <1>0, <1>2, <1>7
  <2>2. Records["nyc"][raw].type = Null  BY <1>7 DEF QuestionFor, Question
  <2>3. ~ EachTyped  BY <1>0, <1>7, <2>2 DEF EachTyped
  <2>4. PageInv(t)  BY <1>1, <1>3, <2>1, <2>3 DEF PageInv
  <2> QED BY <1>3, <2>1, <2>2, <2>4 DEF t
<1>8. CASE raw \in Rows("nyc") /\ q.type # Null
  <2>1. Records["nyc"][raw].type # Null  BY <1>8 DEF QuestionFor, Question
  <2>2. /\ q = Question(q.type, q.area)
        /\ q.type \in Askable("nyc") /\ q.area \in Areas("nyc")
    BY <1>8, <2>1, QuestionAsked
  <2> DEFINE v == Verdict("nyc", raw, q)
  <2>3. /\ v.of = raw /\ v.q = q
        /\ v.why = Null <=> raw \in Counted("nyc", q)
        /\ v.why # "elsewhere"
    BY <1>8, VerdictRight
  <2>4. t = Named(asked, v, raw)  BY <1>0, <1>2, <1>8 DEF Named
  <2>5. q = QuestionFor(Records["nyc"][raw])  OBVIOUS
  <2> HIDE DEF v, q
  <2>6. shown.types \subseteq Askable(shown.site)  BY <1>3 DEF Asks
  <2>7. /\ IsPage(asked) /\ Asks(asked) /\ Menus(asked) /\ Counts(asked)
        /\ asked.site = "nyc" /\ asked.q = q /\ asked.yours = shown.yours
    BY <1>1, <1>3, <2>2, <2>6, SetQuestionFields
  <2> HIDE DEF asked
  <2>8. /\ IsPage(t) /\ SameBut(asked, t, {"yours", "complaint", "search"})
        /\ t.yours = [hidden |-> asked.yours.hidden, says |-> v]
        /\ t.complaint = raw /\ t.search = ToSearch(asked.q, raw)
    BY <2>4, <2>7, NamedFields
  <2>9. t.site = "nyc" /\ Asks(t) /\ Menus(t) /\ Counts(t) /\ t.q = q
    BY <2>7, <2>8, SameButSaid
  <2>10. t.search.complaint = raw  BY <2>8 DEF ToSearch
  <2>11. Names(t, raw)  BY <1>8, <2>5, <2>9 DEF Names
  <2>12. Linked(t)  BY <2>7, <2>8, <2>9, <2>10, <2>11 DEF Linked
  <2>13. Right(t)  BY <2>3, <2>8, <2>9 DEF Right
  <2>14. PageInv(t)  BY <2>8, <2>9, <2>12, <2>13 DEF PageInv
  <2> QED BY <2>5, <2>8, <2>9, <2>14 DEF t
<1> QED BY <1>5, <1>6, <1>7, <1>8

----------------------------------------------------------------------------
\* What an address asks for: an area of some site, or none.
LEMMA AddressAsks ==
    ASSUME NEW search,
           search.area \in AreaTexts
    PROVE  FromSearch(search).area \in Areas("nyc") \cup Areas("westchester")
<1>1. City \in Areas("nyc")  BY DEF Areas, AreaMenu
<1> QED BY <1>1 DEF FromSearch, AreaTexts

\* Reading an address gives what was written.
LEMMA AddressRead ==
    ASSUME NEW site \in DOMAIN Records, NEW q, q = Question(q.type, q.area),
           q.area \in Areas(site), NEW k, k # Malformed
    PROVE  FromSearch(ToSearch(q, k)) =
              [type |-> q.type, area |-> q.area, complaint |-> k]
<1> DEFINE x == ToSearch(q, k)
<1>1. /\ x.type = q.type /\ x.complaint = k
      /\ x.area = IF q.area.kind = "city" THEN Null ELSE q.area
  BY DEF ToSearch
<1> HIDE DEF x
<1>2. /\ q.area.kind = "zip" => q.area.value \in Zips
      /\ q.area.kind = "city" => q.area = City
  BY AreaKinds
<1>3. q.area \notin {Null, Malformed}
  BY AreaAssumption, PageAssumption
<1> DEFINE a == IF x.area \in {Null, Malformed} THEN City
                ELSE IF x.area.kind = "zip" /\ x.area.value \notin Zips THEN City
                ELSE x.area
           c == IF x.complaint = Malformed THEN Null ELSE x.complaint
<1>4. FromSearch(x) = [type |-> x.type, area |-> a, complaint |-> c]
  BY DEF FromSearch
<1>5. a = q.area  BY <1>1, <1>2, <1>3
<1>6. c = k  BY <1>1
<1> HIDE DEF a, c
<1>7. FromSearch(x) = [type |-> q.type, area |-> q.area, complaint |-> k]
  BY <1>1, <1>4, <1>5, <1>6
<1> QED BY <1>7 DEF x

\* Loading either site gives a whole page, for any address; and for one that
\* names a question the site may ask, or a complaint, that question.
LEMMA LoadCityInv ==
    ASSUME NEW search,
           search.area \in AreaTexts
    PROVE  LET t == LoadCity(search)
               want == FromSearch(search)
           IN  /\ PageInv(t) /\ t.site = "nyc"
               /\ (/\ want.type \in Askable("nyc") /\ want.area \in Areas("nyc")
                   /\ want.complaint = Null) =>
                     t.q = Question(want.type, want.area)
               /\ (/\ want.complaint \in Rows("nyc")
                   /\ Records["nyc"][want.complaint].type # Null) =>
                     /\ t.q = QuestionFor(Records["nyc"][want.complaint])
                     /\ t.complaint = want.complaint
<1> DEFINE s == Filled("nyc")
           want == FromSearch(search)
           area == IF want.area.kind = "zip" \/ want.area \in AreaMenu("nyc")
                   THEN want.area ELSE City
           asked == IF want.type \in TypesOf("nyc")
                    THEN SetQuestion(s, Question(want.type, area)) ELSE Answer(s)
           t == LoadCity(search)
<1>0. "nyc" \in DOMAIN Records /\ Null \notin Rows("nyc")  BY PageAssumption DEF Rows
<1>1. /\ Ready(s) /\ s.site = "nyc" /\ s.q.area = City /\ s.complaint = Null
      /\ s.q.type \in TopTypes("nyc") /\ s.types = TopTypes("nyc")
      /\ s.yours.hidden
  BY <1>0, FilledFields
<1>2. want.area \in Areas("nyc") \cup Areas("westchester")  BY AddressAsks
<1>3. t = IF want.complaint = Null THEN asked ELSE LookUp(asked, want.complaint)
  BY DEF LoadCity
<1> HIDE DEF s, want, t
<1>4. area \in Areas("nyc") /\ (want.area \in Areas("nyc") => area = want.area)
  <2>1. City \in Areas("nyc") /\ AreaMenu("nyc") \subseteq Areas("nyc")
    BY DEF Areas, AreaMenu
  <2>2. ASSUME want.area.kind = "zip" PROVE want.area \in Areas("nyc")
    <3>1. CASE want.area \in Areas("nyc")  BY <3>1
    <3>2. CASE want.area \in Areas("westchester")
      BY <2>2, <3>2, AreaKinds
    <3> QED BY <1>2, <3>1, <3>2
  <2>3. want.area \in Areas("nyc") =>
           want.area.kind = "zip" \/ want.area \in AreaMenu("nyc")
    BY AreaKinds
  <2> QED BY <2>1, <2>2, <2>3
<1> HIDE DEF area
<1>5. /\ PageInv(asked) /\ asked.site = "nyc"
      /\ want.type \in TypesOf("nyc") => asked.q = Question(want.type, area)
  <2>1. CASE want.type \in TypesOf("nyc")
    <3> DEFINE q == Question(want.type, area)
    <3>1. q = Question(q.type, q.area) /\ q.type = want.type /\ q.area = area
      BY DEF Question
    <3>2. q.type \in Askable("nyc") /\ TopTypes("nyc") \subseteq Askable("nyc")
      BY <2>1, <3>1 DEF Askable, TopTypes
    <3> HIDE DEF q
    <3> DEFINE a == SetQuestion(s, q)
    <3>3. IsPage(s)  BY <1>1 DEF Ready
    <3>4. /\ IsPage(a) /\ Asks(a) /\ Menus(a) /\ Counts(a)
          /\ a.site = s.site /\ a.q = q
          /\ a.complaint = s.complaint /\ a.yours = s.yours
          /\ a.search = ToSearch(a.q, a.complaint)
      BY <1>1, <1>4, <3>1, <3>2, <3>3, SetQuestionFields
    <3>5. asked = a  BY <2>1 DEF q
    <3> HIDE DEF a, asked
    <3>6. a.search.complaint = Null  BY <1>1, <3>4 DEF ToSearch
    <3>7. Linked(a)  BY <1>1, <3>4, <3>6 DEF Linked
    <3>8. Right(a)  BY <1>1, <3>4 DEF Right
    <3>9. PageInv(a)  BY <1>1, <3>4, <3>7, <3>8 DEF PageInv
    <3> QED BY <1>1, <3>4, <3>5, <3>9 DEF q
  <2>2. CASE want.type \notin TypesOf("nyc")
    <3>1. asked = Answer(s)  BY <2>2
    <3>2. PageInv(Answer(s)) /\ SameAsked(s, Answer(s))  BY <1>1, AnswerInv
    <3> QED BY <1>1, <2>2, <3>1, <3>2 DEF SameAsked
  <2> QED BY <2>1, <2>2
<1> HIDE DEF asked
<1>6. CASE want.complaint = Null
  <2>1. t = asked  BY <1>3, <1>6
  <2>2. PageInv(t) /\ t.site = "nyc"  BY <1>5, <2>1
  <2>3. (want.type \in Askable("nyc") /\ want.area \in Areas("nyc")) =>
           t.q = Question(want.type, want.area)
    BY <1>4, <1>5, <2>1 DEF Askable
  <2> QED BY <1>0, <1>6, <2>2, <2>3 DEF t, want
<1>7. CASE want.complaint # Null
  <2>1. t = LookUp(asked, want.complaint)  BY <1>3, <1>7
  <2>2. /\ PageInv(t) /\ t.site = "nyc"
        /\ (/\ want.complaint \in Rows("nyc")
            /\ Records["nyc"][want.complaint].type # Null) =>
              /\ t.q = QuestionFor(Records["nyc"][want.complaint])
              /\ t.complaint = want.complaint
    BY <1>5, <2>1, LookUpInv
  <2> QED BY <1>7, <2>2 DEF t, want
<1> QED BY <1>6, <1>7

\* The same for the towns, whose address names no complaint.
LEMMA LoadTownsInv ==
    ASSUME NEW search
    PROVE  LET t == LoadTowns(search)
               want == FromSearch(search)
           IN  /\ PageInv(t) /\ t.site = "westchester" /\ t.complaint = Null
               /\ (/\ want.type \in Askable("westchester")
                   /\ want.area \in Areas("westchester")) =>
                     t.q = Question(want.type, want.area)
<1> DEFINE s == Filled("westchester")
           want == FromSearch(search)
           type == IF want.type \in TopTypes("westchester") THEN want.type
                   ELSE s.q.type
           area == IF want.area \in AreaMenu("westchester") THEN want.area ELSE City
           u == [s EXCEPT !.q = Question(type, area), !.type_menu = type,
                          !.area_menu = area]
<1>0. "westchester" \in DOMAIN Records  BY PageAssumption
<1>1. /\ Ready(s) /\ s.site = "westchester" /\ s.q.area = City /\ s.complaint = Null
      /\ s.q.type \in TopTypes("westchester") /\ s.types = TopTypes("westchester")
      /\ s.yours.hidden
  BY <1>0, FilledFields
<1>2. LoadTowns(search) = Answer(u)  BY DEF LoadTowns
<1>3. type \in TopTypes("westchester")  BY <1>1
<1>4. /\ Areas("westchester") = AreaMenu("westchester")
      /\ City \in Areas("westchester")
      /\ Askable("westchester") = TopTypes("westchester")
  BY DEF Areas, AreaMenu, Askable
<1>5. area \in Areas("westchester")  BY <1>4
<1>6. (/\ want.type \in Askable("westchester")
       /\ want.area \in Areas("westchester")) =>
         Question(type, area) = Question(want.type, want.area)
  BY <1>4
<1> HIDE DEF s, want, type, area
<1>7. Filled("westchester").zip_shown = FALSE  BY DEF Filled
<1>8. /\ IsPage(u) /\ u.site = "westchester" /\ u.q = Question(type, area)
      /\ u.type_menu = type /\ u.area_menu = area /\ u.complaint = Null
      /\ u.types = s.types /\ u.yours = s.yours /\ u.zip_shown = s.zip_shown
  BY <1>1 DEF Ready, IsPage, Fields, Question
<1> HIDE DEF u
<1>9. u.q.type = type /\ u.q.area = area  BY <1>8 DEF Question
<1>10. Asks(u)  BY <1>1, <1>3, <1>4, <1>5, <1>8, <1>9 DEF Asks
<1>11. Menus(u)  BY <1>7, <1>8, <1>9 DEF Menus, s
<1>12. Ready(u)  BY <1>1, <1>8, <1>10, <1>11 DEF Ready, Right
<1>13. PageInv(Answer(u)) /\ SameAsked(u, Answer(u))  BY <1>12, AnswerInv
<1> QED BY <1>2, <1>6, <1>8, <1>13 DEF SameAsked, want

\* Either site.
LEMMA LoadInv ==
    ASSUME NEW site \in DOMAIN Records, NEW search,
           search.area \in AreaTexts
    PROVE  PageInv(Load(site, search))
<1>1. site = "nyc" \/ site = "westchester"  BY PageAssumption
<1> QED BY <1>1, LoadCityInv, LoadTownsInv DEF Load

\* The address of a page opens the question and the complaint of the page.
LEMMA AddressOpens ==
    ASSUME NEW s, PageInv(s)
    PROVE  /\ s.search.area \in AreaTexts
           /\ Load(s.site, s.search).q = s.q
           /\ s.complaint # Null => Load(s.site, s.search).complaint = s.complaint
<1> DEFINE k == s.search.complaint
           want == FromSearch(s.search)
<1>1. /\ IsPage(s) /\ s.site \in DOMAIN Records /\ s.q = Question(s.q.type, s.q.area)
      /\ s.q.type \in Askable(s.site) /\ s.q.area \in Areas(s.site)
      /\ s.search = ToSearch(s.q, k)
      /\ k # Null => Names(s, k)
      /\ s.complaint # Null => s.complaint = k
  BY DEF PageInv, IsPage, Asks, Linked, Question
<1>2. s.site = "nyc" \/ s.site = "westchester"  BY <1>1, PageAssumption
<1>3. /\ "nyc" \in DOMAIN Records
      /\ Null \notin Rows("nyc") /\ Malformed \notin Rows("nyc")
  BY PageAssumption DEF Rows
<1> HIDE DEF k
<1>4. s.search.area = IF s.q.area.kind = "city" THEN Null ELSE s.q.area
  BY <1>1 DEF ToSearch
<1>5. s.search.area \in AreaTexts
  BY <1>1, <1>2, <1>4 DEF AreaTexts
<1>6. CASE k # Malformed
  <2>1. want = [type |-> s.q.type, area |-> s.q.area, complaint |-> k]
    BY <1>1, <1>6, AddressRead
  <2>2. want.type = s.q.type /\ want.area = s.q.area /\ want.complaint = k
    BY <2>1
  <2> HIDE DEF want
  <2>3. CASE s.site = "westchester"
    <3>1. LoadTowns(s.search).q = Question(s.q.type, s.q.area)
      BY <1>1, <2>2, <2>3, LoadTownsInv DEF want
    <3>2. k = Null  BY <1>1, <2>3 DEF Names
    <3> QED BY <1>1, <1>5, <2>3, <3>1, <3>2 DEF Load
  <2>4. CASE s.site = "nyc" /\ k = Null
    <3>1. LoadCity(s.search).q = Question(s.q.type, s.q.area)
      BY <1>1, <1>5, <2>2, <2>4, LoadCityInv DEF want
    <3> QED BY <1>1, <1>5, <2>4, <3>1 DEF Load
  <2>5. CASE s.site = "nyc" /\ k # Null
    <3>1. k \in Rows("nyc") /\ s.q = QuestionFor(Records["nyc"][k])
      BY <1>1, <2>5 DEF Names
    <3>2. Records["nyc"][k].type # Null
      <4>1. s.q.type # Null
        BY <1>1, <2>5, PageAssumption DEF Askable, TypesOf
      <4>2. s.q.type = Records["nyc"][k].type
        BY <3>1 DEF QuestionFor, Question
      <4> QED BY <4>1, <4>2
    <3>3. LoadCity(s.search).q = s.q /\ LoadCity(s.search).complaint = k
      BY <1>5, <2>2, <3>1, <3>2, LoadCityInv DEF want
    <3> QED BY <1>1, <1>5, <2>5, <3>3 DEF Load
  <2> QED BY <1>2, <2>3, <2>4, <2>5
<1>7. k # Malformed
  <2>1. CASE k = Null
    <3>1. Null # Malformed  BY PageAssumption
    <3> QED BY <2>1, <3>1
  <2>2. CASE k # Null  BY <1>1, <1>3, <2>2 DEF Names
  <2> QED BY <2>1, <2>2
<1> QED BY <1>6, <1>7

----------------------------------------------------------------------------
(* What a person does.                                                     *)

\* A forgotten complaint.
LEMMA ForgetFields ==
    ASSUME NEW s, PageInv(s)
    PROVE  LET t == ForgetComplaint(s)
           IN  /\ IsPage(t) /\ t.yours.hidden /\ t.complaint = Null
               /\ SameBut(s, t, {"yours", "complaint"})
               /\ Asks(t) /\ Menus(t) /\ Counts(t) /\ Linked(t) /\ PageInv(t)
               /\ t.site = s.site /\ t.q = s.q /\ t.types = s.types
               /\ t.type_menu = t.q.type
<1> DEFINE t == ForgetComplaint(s)
<1>1. /\ IsPage(t) /\ t.yours = [hidden |-> TRUE, says |-> s.yours.says]
      /\ t.complaint = Null /\ t.search = s.search /\ t.types = s.types
      /\ SameBut(s, t, {"yours", "complaint"})
  BY DEF PageInv, IsPage, Fields, SameBut, ForgetComplaint
<1> HIDE DEF t
<1>2. SameBut(s, t, {"yours", "complaint", "search"})  BY <1>1 DEF SameBut
<1>3. Asks(t) /\ Menus(t) /\ Counts(t) /\ t.site = s.site /\ t.q = s.q
  BY <1>2, SameButSaid DEF PageInv
<1>4. Linked(t)  BY <1>1, <1>3 DEF PageInv, Linked, Names
<1>5. PageInv(t)  BY <1>1, <1>3, <1>4 DEF PageInv, Right
<1>6. t.type_menu = t.q.type  BY <1>3 DEF Menus
<1> QED BY <1>1, <1>3, <1>4, <1>5, <1>6 DEF t

\* Another type: the complaint is forgotten first.
LEMMA ChooseTypeKeeps ==
    ASSUME PageInv(page), ChooseType
    PROVE  PageInv(page')
<1> DEFINE s == ForgetComplaint(page)
<1>1. PICK t \in page.types :
         page' = Answer([s EXCEPT !.type_menu = t, !.q.type = t])
  BY DEF ChooseType
<1>2. /\ IsPage(s) /\ s.yours.hidden /\ s.complaint = Null
      /\ Asks(s) /\ Menus(s) /\ s.site = page.site /\ s.types = page.types
  BY ForgetFields
<1> HIDE DEF s
<1> DEFINE u == [s EXCEPT !.type_menu = t, !.q.type = t]
<1>3. /\ IsPage(u) /\ u.site = s.site /\ u.q.type = t /\ u.q.area = s.q.area
      /\ u.types = s.types /\ u.type_menu = t /\ u.area_menu = s.area_menu
      /\ u.zip_shown = s.zip_shown /\ u.zip = s.zip /\ u.yours = s.yours
      /\ u.complaint = s.complaint
  BY <1>2 DEF IsPage, Fields
<1> HIDE DEF u
<1>4. Asks(u)  BY <1>1, <1>2, <1>3 DEF Asks
<1>5. Menus(u)  BY <1>2, <1>3 DEF Menus
<1>6. Ready(u)  BY <1>2, <1>3, <1>4, <1>5 DEF Ready, Right
<1> QED BY <1>1, <1>6, AnswerInv DEF u

\* Choosing an area of the menu or of the comparison.
MoveTo(a) ==
    page' = IF page.site = "nyc" THEN SetArea(ForgetComplaint(page), a)
            ELSE Answer([page EXCEPT !.q.area = a, !.area_menu = a])

\* Moving to another area of the menu keeps a page of one question.
LEMMA MoveKeeps ==
    ASSUME PageInv(page), NEW a \in AreaMenu(page.site), MoveTo(a)
    PROVE  PageInv(page')
<1>1. a \in Areas(page.site) /\ a.kind # "zip"  BY AreaKinds DEF Areas
<1>2. CASE page.site = "nyc"
  <2> DEFINE s == ForgetComplaint(page)
  <2>1. /\ IsPage(s) /\ s.yours.hidden /\ s.complaint = Null
        /\ Asks(s) /\ s.type_menu = s.q.type /\ s.site = page.site
    BY ForgetFields
  <2>2. page' = SetArea(s, a)  BY <1>2 DEF MoveTo
  <2> HIDE DEF s
  <2> QED BY <1>1, <2>1, <2>2, SetAreaInv DEF Asks
<1>3. CASE page.site # "nyc"
  <2> DEFINE u == [page EXCEPT !.q.area = a, !.area_menu = a]
  <2>1. page' = Answer(u)  BY <1>3 DEF MoveTo
  <2>2. IsPage(page)  BY DEF PageInv
  <2>3. /\ IsPage(u) /\ u.site = page.site /\ u.q.type = page.q.type /\ u.q.area = a
        /\ u.types = page.types /\ u.type_menu = page.type_menu /\ u.area_menu = a
        /\ u.zip_shown = page.zip_shown /\ u.zip = page.zip
        /\ u.yours = page.yours /\ u.complaint = page.complaint
    BY <2>2 DEF IsPage, Fields
  <2> HIDE DEF u
  <2>4. page.yours.hidden /\ page.complaint = Null
    BY <1>3 DEF PageInv, Linked, Names
  <2>5. ~ page.zip_shown  BY <1>3 DEF PageInv, Menus
  <2>6. Asks(u)  BY <1>1, <2>3 DEF PageInv, Asks
  <2>7. Menus(u)  BY <2>3, <2>5 DEF PageInv, Menus
  <2>8. Ready(u)  BY <2>3, <2>4, <2>6, <2>7 DEF Ready, Right
  <2> QED BY <2>1, <2>8, AnswerInv
<1> QED BY <1>2, <1>3

\* Every area of the comparison is in the menu.
LEMMA ComparedAreas ==
    ASSUME NEW site \in DOMAIN Records, NEW q
    PROVE  Compared(site, q) \subseteq AreaMenu(site)
<1>1. \A other, column : \A v :
         v \in {Records[site][k][column] : k \in Counted(site, other)} /\ v # Null
         => v \in ValuesOf(site, column)
  BY DEF Counted, ValuesOf
<1>2. CASE site # "nyc"
  <2>1. Compared(site, q) =
           {Area("town", t) : t \in
               {Records[site][k]["town"] :
                  k \in Counted(site, Question(q.type, City))} \ {Null}}
    BY <1>2 DEF Compared
  <2> QED BY <1>1, <1>2, <2>1 DEF AreaMenu
<1>3. CASE site = "nyc"
  <2> SUFFICES ASSUME NEW a \in Compared(site, q) PROVE a \in AreaMenu(site)
    OBVIOUS
  <2>1. \/ \E other : \E d \in
              {Records[site][k]["board"] : k \in Counted(site, other)} \cap Districts :
              a = Area("board", d)
        \/ \E b \in Boroughs : a = Area("borough", b)
    BY <1>3 DEF Compared
  <2>2. Null \notin Districts  BY PageAssumption
  <2> QED BY <1>1, <1>3, <2>1, <2>2 DEF AreaMenu
<1> QED BY <1>2, <1>3

\* Both ways to choose an area.
LEMMA ChooseAreaKeeps ==
    ASSUME PageInv(page), ChooseArea \/ PickCompared
    PROVE  PageInv(page')
<1>1. page.compare \subseteq AreaMenu(page.site)
  <2>1. page.site \in DOMAIN Records /\ page.compare = Compared(page.site, page.q)
    BY DEF PageInv, IsPage, Counts
  <2> QED BY <2>1, ComparedAreas
<1>2. PICK a \in AreaMenu(page.site) : MoveTo(a)
  BY <1>1 DEF ChooseArea, PickCompared, MoveTo
<1> QED BY <1>2, MoveKeeps

\* The box for a ZIP.
LEMMA ZipKeeps ==
    ASSUME NEW s, IsPage(s), Asks(s), s.type_menu = s.q.type, s.site = "nyc",
           s.complaint = Null, s.yours.hidden, NEW z \in Zips
    PROVE  PageInv(SetArea(s, Area("zip", z)))
<1>1. Area("zip", z) \in Areas("nyc")  BY DEF Areas
<1> QED BY <1>1, SetAreaInv DEF Asks

\* "a ZIP code": without one in the box the old answer and address stay.
LEMMA ChooseZipKeeps ==
    ASSUME PageInv(page), ChooseZip
    PROVE  PageInv(page')
<1> DEFINE f == ForgetComplaint(page)
           s == [f EXCEPT !.area_menu = SomeZip, !.zip_shown = TRUE]
<1>1. /\ page.site = "nyc"
      /\ page' = IF s.zip \in Zips THEN SetArea(s, Area("zip", s.zip)) ELSE s
  BY DEF ChooseZip
<1>2. /\ IsPage(f) /\ f.yours.hidden /\ f.complaint = Null
      /\ Asks(f) /\ Menus(f) /\ Counts(f) /\ Linked(f) /\ f.site = page.site
      /\ f.type_menu = f.q.type
  BY ForgetFields
<1> HIDE DEF f
<1>3. /\ IsPage(s) /\ s.area_menu = SomeZip /\ s.zip_shown = TRUE
      /\ s.site = f.site /\ s.q = f.q /\ s.complaint = f.complaint
      /\ s.types = f.types /\ s.type_menu = f.type_menu /\ s.zip = f.zip
      /\ s.yours = f.yours /\ s.order = f.order /\ s.list = f.list
      /\ s.shown = f.shown /\ s.answer = f.answer /\ s.compare = f.compare
      /\ s.search = f.search
  BY <1>2 DEF IsPage, Fields
<1> HIDE DEF s
<1>4. Asks(s)  BY <1>2, <1>3 DEF Asks
<1>5. CASE s.zip \in Zips
  <2>1. page' = SetArea(s, Area("zip", s.zip))  BY <1>1, <1>5
  <2> QED BY <1>1, <1>2, <1>3, <1>4, <1>5, <2>1, ZipKeeps
<1>6. CASE s.zip \notin Zips
  <2>1. page' = s  BY <1>1, <1>6
  <2>2. Menus(s)  BY <1>1, <1>2, <1>3, <1>6 DEF Menus
  <2>3. Counts(s) /\ Linked(s)  BY <1>2, <1>3 DEF Counts, Linked, Names
  <2>4. PageInv(s)  BY <1>2, <1>3, <1>4, <2>2, <2>3 DEF PageInv, Right
  <2> QED BY <2>1, <2>4
<1> QED BY <1>5, <1>6

\* Typing: the question follows as soon as the text is a ZIP.
LEMMA TypeZipKeeps ==
    ASSUME PageInv(page), TypeZip
    PROVE  PageInv(page')
<1> DEFINE s(text) == [page EXCEPT !.zip = text]
<1>1. page.site = "nyc" /\ page.zip_shown  BY DEF TypeZip
<1>2. PICK text \in Texts :
         page' = IF text \in Zips
                 THEN SetArea(ForgetComplaint(s(text)), Area("zip", text))
                 ELSE s(text)
  BY DEF TypeZip
<1> DEFINE u == s(text)
<1>3. IsPage(page)  BY DEF PageInv
<1>4. /\ IsPage(u) /\ u.zip = text /\ u.area_menu = page.area_menu
      /\ u.zip_shown = page.zip_shown
      /\ u.site = page.site /\ u.q = page.q /\ u.complaint = page.complaint
      /\ u.types = page.types /\ u.type_menu = page.type_menu
      /\ u.yours = page.yours /\ u.order = page.order /\ u.list = page.list
      /\ u.shown = page.shown /\ u.answer = page.answer
      /\ u.compare = page.compare /\ u.search = page.search
  BY <1>3 DEF IsPage, Fields
<1>5. page' = IF text \in Zips
              THEN SetArea(ForgetComplaint(u), Area("zip", text)) ELSE u
  BY <1>2
<1> HIDE DEF u
<1>6. Asks(u) /\ Counts(u) /\ Linked(u) /\ u.type_menu = u.q.type
  BY <1>4 DEF PageInv, Asks, Counts, Linked, Names, Menus
<1>7. EachTyped => Right(u)  BY <1>4 DEF PageInv, Right
<1>8. CASE text \notin Zips
  <2>1. Menus(u)  BY <1>1, <1>4, <1>8 DEF PageInv, Menus
  <2>2. PageInv(u)  BY <1>1, <1>4, <1>6, <1>7, <2>1 DEF PageInv
  <2> QED BY <1>5, <1>8, <2>2
<1>9. CASE text \in Zips
  <2> DEFINE t == ForgetComplaint(u)
  <2>1. /\ IsPage(t) /\ t.yours.hidden /\ t.complaint = Null
        /\ t.site = u.site /\ t.q = u.q /\ t.types = u.types
        /\ t.type_menu = u.type_menu
    BY <1>4 DEF ForgetComplaint, IsPage, Fields
  <2>2. page' = SetArea(t, Area("zip", text))  BY <1>5, <1>9
  <2> HIDE DEF t
  <2>3. Asks(t)  BY <1>6, <2>1 DEF Asks
  <2> QED BY <1>1, <1>4, <1>6, <1>9, <2>1, <2>2, <2>3, ZipKeeps
<1> QED BY <1>8, <1>9

\* Another order: a new list of the same question.
LEMMA ChooseOrderKeeps ==
    ASSUME PageInv(page), ChooseOrder
    PROVE  PageInv(page')
<1>1. PICK o : page' = ListComplaints([page EXCEPT !.order = o])  BY DEF ChooseOrder
<1> DEFINE u == [page EXCEPT !.order = o]
           t == ListComplaints(u)
<1>2. IsPage(page)  BY DEF PageInv
<1>3. /\ IsPage(u) /\ u.site = page.site /\ u.q = page.q
      /\ u.complaint = page.complaint /\ u.types = page.types
      /\ u.type_menu = page.type_menu /\ u.area_menu = page.area_menu
      /\ u.zip_shown = page.zip_shown /\ u.zip = page.zip
      /\ u.yours = page.yours /\ u.answer = page.answer
      /\ u.compare = page.compare /\ u.search = page.search
  BY <1>2 DEF IsPage, Fields
<1> HIDE DEF u
<1>4. u.answer = u.q /\ u.compare = Compared(u.site, u.q)
  BY <1>3 DEF PageInv, Counts
<1>5. IsPage(t) /\ SameAsked(u, t) /\ Counts(t) /\ t.search = u.search
  BY <1>3, <1>4, ListComplaintsFields
<1> HIDE DEF t
<1>6. Asks(t) /\ Menus(t) /\ Linked(t)
  BY <1>3, <1>5 DEF PageInv, Asks, Menus, Linked, Names, SameAsked
<1>7. EachTyped => Right(t)  BY <1>3, <1>5 DEF PageInv, Right, SameAsked
<1>8. t.site # "nyc" => t.yours.hidden  BY <1>3, <1>5 DEF PageInv, SameAsked
<1>9. PageInv(t)  BY <1>5, <1>6, <1>7, <1>8 DEF PageInv
<1> QED BY <1>1, <1>9 DEF t, u

\* The rest of the list.
LEMMA MoreKeeps ==
    ASSUME PageInv(page), More
    PROVE  PageInv(page')
<1> DEFINE t == ShowMore(page)
           n == t.shown
<1>1. page' = t  BY DEF More
<1>2. IsPage(page) /\ Counts(page)  BY DEF PageInv
<1>3. /\ t = [page EXCEPT !.shown = n]
      /\ n \in 0 .. page.list.size
      /\ n % PAGE = 0 \/ n = page.list.size
  BY <1>2, ShowMoreFields DEF Counts
<1> HIDE DEF n, t
<1>4. /\ IsPage(t) /\ t.shown = n /\ t.site = page.site /\ t.q = page.q
      /\ t.complaint = page.complaint /\ t.types = page.types
      /\ t.type_menu = page.type_menu /\ t.area_menu = page.area_menu
      /\ t.zip_shown = page.zip_shown /\ t.zip = page.zip
      /\ t.yours = page.yours /\ t.answer = page.answer
      /\ t.compare = page.compare /\ t.search = page.search
      /\ t.list = page.list /\ t.order = page.order
  BY <1>2, <1>3 DEF IsPage, Fields
<1>5. Counts(t)  BY <1>2, <1>3, <1>4 DEF Counts
<1>6. Asks(t) /\ Menus(t) /\ Linked(t)
  BY <1>4 DEF PageInv, Asks, Menus, Linked, Names
<1>7. EachTyped => Right(t)  BY <1>4 DEF PageInv, Right
<1>8. t.site # "nyc" => t.yours.hidden  BY <1>4 DEF PageInv
<1>9. PageInv(t)  BY <1>4, <1>5, <1>6, <1>7, <1>8 DEF PageInv
<1> QED BY <1>1, <1>9

\* Whatever is done, the page stays whole.
LEMMA PageKeeps ==
    ASSUME PageInv(page), Next
    PROVE  PageInv(page')
<1>1. CASE ChooseType  BY <1>1, ChooseTypeKeeps
<1>2. CASE ChooseArea \/ PickCompared  BY <1>2, ChooseAreaKeeps
<1>3. CASE ChooseZip  BY <1>3, ChooseZipKeeps
<1>4. CASE TypeZip  BY <1>4, TypeZipKeeps
<1>5. CASE SubmitZip
  <2> DEFINE search == [type |-> Null, area |-> Null, complaint |-> Null]
  <2>1. page' = Load("nyc", search) /\ search.area = Null  BY <1>5 DEF SubmitZip
  <2>2. "nyc" \in DOMAIN Records  BY PageAssumption
  <2>3. search.area \in AreaTexts  BY <2>1 DEF AreaTexts
  <2> HIDE DEF search
  <2> QED BY <2>1, <2>2, <2>3, LoadInv
<1>6. CASE ChooseOrder  BY <1>6, ChooseOrderKeeps
<1>7. CASE More  BY <1>7, MoreKeeps
<1>8. CASE CheckComplaint
  <2>1. PICK raw : page.site = "nyc" /\ page' = LookUp(page, raw)
    BY <1>8 DEF CheckComplaint
  <2> QED BY <2>1, LookUpInv
<1>9. CASE Reload
  <2>1. page' = Load(page.site, page.search)  BY <1>9 DEF Reload
  <2>2. page.site \in DOMAIN Records  BY DEF PageInv, IsPage
  <2>3. page.search.area \in AreaTexts
    BY AddressOpens
  <2> QED BY <2>1, <2>2, <2>3, LoadInv
<1> QED BY <1>1, <1>2, <1>3, <1>4, <1>5, <1>6, <1>7, <1>8, <1>9 DEF Next

\* Every page that either site shows is whole: its menus, its answer and its
\* address are of one question, whatever address it was opened by and whatever
\* was done since (app.js, westchester/app.js).
THEOREM PagesStayWhole == Spec => []PageInv(page)
<1>1. Init => PageInv(page)
  <2> SUFFICES ASSUME Init PROVE PageInv(page)  OBVIOUS
  <2>1. PICK site \in DOMAIN Records, search \in Addresses :
           page = Load(site, search)
    BY DEF Init
  <2>2. search.area \in AreaTexts
    BY DEF Addresses
  <2> QED BY <2>1, <2>2, LoadInv
<1>2. PageInv(page) /\ [Next]_page => PageInv(page)'
  BY PageKeeps
<1> QED BY <1>1, <1>2, PTL DEF Spec

\* A copied link opens the question and the complaint of the page it was copied
\* from (updateUrl, load).
THEOREM LinksOpenThePage == Spec => []AddressOpensThePage
<1>1. PageInv(page) => AddressOpensThePage
  BY AddressOpens DEF AddressOpensThePage
<1> QED BY <1>1, PagesStayWhole, PTL

\* The menus, the answer, the comparison and the list are of one question,
\* through every handler (setArea, answer, listComplaints).
THEOREM PagesAreOfOneQuestion == Spec => []OneQuestion
<1>1. PageInv(page) => OneQuestion
  BY DEF PageInv, Menus, Counts, OneQuestion
<1> QED BY <1>1, PagesStayWhole, PTL

\* If every complaint has a type, what is said of a complaint is said of the
\* answer above it and right (lookUp).  Without, it is not: naming a missing
\* type throws half way through the handler.
THEOREM VerdictsAreOfTheAnswer ==
    ASSUME EachTyped
    PROVE  Spec => []VerdictIsOfAnswer
<1>1. PageInv(page) => VerdictIsOfAnswer
  BY DEF PageInv, Right, Counts, VerdictIsOfAnswer
<1> QED BY <1>1, PagesStayWhole, PTL

\* The expressions that one is made of are less deep.
LEMMA InnerIsShallower ==
    ASSUME NEW e \in Exprs, NEW a \in Inner(e)
    PROVE  a \in Exprs /\ Depth[a] \in Nat /\ Depth[e] \in Nat /\ Depth[a] < Depth[e]
BY ExprAssumption

\* What holds of an expression if it holds of those it is made of holds of all.
LEMMA ExprInduction ==
    ASSUME NEW S,
           \A e \in Exprs : (\A a \in Inner(e) : a \in S) => e \in S
    PROVE  Exprs \subseteq S
<1> DEFINE N == {n \in Nat : \A e \in Exprs : Depth[e] < n => e \in S}
<1>1. 0 \in N  BY ExprAssumption
<1>2. \A n \in Nat : n \in N => n + 1 \in N
  <2> SUFFICES ASSUME NEW n \in N, NEW e \in Exprs, Depth[e] < n + 1 PROVE e \in S
    OBVIOUS
  <2>1. \A a \in Inner(e) : a \in S
    <3> TAKE a \in Inner(e)
    <3>1. Depth[a] < n  BY InnerIsShallower
    <3> QED BY <3>1, InnerIsShallower
  <2> QED BY <2>1
<1>3. Nat \subseteq N
  <2> HIDE DEF N
  <2> QED BY <1>1, <1>2, SetInduction
<1>4. MaxDepth + 1 \in N  BY <1>3, ExprAssumption
<1> QED BY <1>4, ExprAssumption

\* A type depends on the types of the parts.
LEMMA TypeStepLocal ==
    ASSUME NEW e \in Exprs, NEW schema, NEW f, NEW g,
           \A a \in Inner(e) : f[a] = g[a]
    PROVE  TypeStep(e, schema, f) = TypeStep(e, schema, g)
<1>1. CASE e.x \in {"column", "literal"}  BY <1>1 DEF TypeStep
<1>2. CASE e.x \in {"compare", "arith"}
  <2>1. f[e.a] = g[e.a] /\ f[e.b] = g[e.b]  BY <1>2 DEF Inner
  <2> QED BY <1>2, <2>1 DEF TypeStep
<1>3. CASE e.x \in {"and", "or"}
  <2>1. \A i \in DOMAIN e.args : f[e.args[i]] = g[e.args[i]]  BY <1>3 DEF Inner
  <2>2. [i \in DOMAIN e.args |-> UsableAs(f[e.args[i]], "Bool")]
          = [i \in DOMAIN e.args |-> UsableAs(g[e.args[i]], "Bool")]
    BY <2>1
  <2> QED BY <1>3, <2>2 DEF TypeStep
<1>4. CASE e.x \in {"not", "is_null", "in", "date_trunc", "lat", "lon"}
  <2>1. f[e.a] = g[e.a]  BY <1>4 DEF Inner
  <2> QED BY <1>4, <2>1 DEF TypeStep
<1> QED BY <1>1, <1>2, <1>3, <1>4, ExprAssumption DEF ExprKinds

\* There is a type of every expression: TypesIn is what its definition says.
LEMMA TypesAre ==
    ASSUME NEW schema
    PROVE  TypesIn(schema) = [e \in Exprs |-> TypeStep(e, schema, TypesIn(schema))]
<1> DEFINE Step(e, f) == TypeStep(e, schema, f)
           Solves(f, n) == \A e \in Exprs : Depth[e] < n => f[e] = Step(e, f)
           N == {n \in Nat : \E f : Solves(f, n)}
<1>1. 0 \in N  BY ExprAssumption
<1>2. \A n \in Nat : n \in N => n + 1 \in N
  <2> SUFFICES ASSUME NEW n \in N PROVE n + 1 \in N  OBVIOUS
  <2>1. PICK f : Solves(f, n)  OBVIOUS
  <2> DEFINE g == [e \in Exprs |-> IF Depth[e] < n THEN f[e] ELSE Step(e, f)]
  <2>2. ASSUME NEW e \in Exprs, Depth[e] < n + 1 PROVE g[e] = Step(e, g)
    <3>1. g[e] = Step(e, f)  BY <2>1
    <3>2. \A a \in Inner(e) : f[a] = g[a]
      <4> TAKE a \in Inner(e)
      <4>1. Depth[a] < n  BY <2>2, InnerIsShallower
      <4> QED BY <4>1, InnerIsShallower
    <3> HIDE DEF g
    <3> QED BY <3>1, <3>2, TypeStepLocal
  <2>3. Solves(g, n + 1)  BY <2>2
  <2> HIDE DEF g
  <2> QED BY <2>3
<1>3. MaxDepth + 1 \in N
  <2> HIDE DEF N
  <2> QED BY <1>1, <1>2, SetInduction, ExprAssumption
<1>4. PICK f : Solves(f, MaxDepth + 1)  BY <1>3
<1> DEFINE Eq(h) == h = [e \in Exprs |-> Step(e, h)]
           g == [e \in Exprs |-> f[e]]
<1>5. \A e \in Exprs : g[e] = Step(e, g)
  <2> TAKE e \in Exprs
  <2>1. g[e] = Step(e, f)  BY <1>4, ExprAssumption
  <2>2. \A a \in Inner(e) : f[a] = g[a]  BY InnerIsShallower
  <2> HIDE DEF g
  <2> QED BY <2>1, <2>2, TypeStepLocal
<1>6. Eq(g)  BY <1>5
<1>7. TypesIn(schema) = CHOOSE h : Eq(h)  BY DEF TypesIn
<1> HIDE DEF Eq, g
<1>8. Eq(TypesIn(schema))  BY <1>6, <1>7
<1> QED BY <1>8 DEF Eq

\* What an expression is evaluated to depends on what the parts are.
LEMMA EvalStepLocal ==
    ASSUME NEW e \in Exprs, NEW t, NEW f, NEW g,
           \A a \in Inner(e) : f[a] = g[a]
    PROVE  EvalStep(e, t, f) = EvalStep(e, t, g)
<1>1. CASE e.x \in {"column", "literal"}  BY <1>1 DEF EvalStep
<1>2. CASE e.x \in {"compare", "arith"}
  <2>1. f[e.a] = g[e.a] /\ f[e.b] = g[e.b]  BY <1>2 DEF Inner
  <2> QED BY <1>2, <2>1 DEF EvalStep
<1>3. CASE e.x \in {"and", "or"}
  <2>1. \A k \in DOMAIN e.args : f[e.args[k]] = g[e.args[k]]  BY <1>3 DEF Inner
  <2>2. [k \in DOMAIN e.args |-> f[e.args[k]]] = [k \in DOMAIN e.args |-> g[e.args[k]]]
    BY <2>1
  <2> QED BY <1>3, <2>2 DEF EvalStep
<1>4. CASE e.x \in {"not", "is_null", "in", "date_trunc", "lat", "lon"}
  <2>1. f[e.a] = g[e.a]  BY <1>4 DEF Inner
  <2> QED BY <1>4, <2>1 DEF EvalStep
<1> QED BY <1>1, <1>2, <1>3, <1>4, ExprAssumption DEF ExprKinds

\* DatumsIn is what its definition says.
LEMMA DatumsAre ==
    ASSUME NEW t
    PROVE  DatumsIn(t) = [e \in Exprs |-> EvalStep(e, t, DatumsIn(t))]
<1> DEFINE Step(e, f) == EvalStep(e, t, f)
           Solves(f, n) == \A e \in Exprs : Depth[e] < n => f[e] = Step(e, f)
           N == {n \in Nat : \E f : Solves(f, n)}
<1>1. 0 \in N  BY ExprAssumption
<1>2. \A n \in Nat : n \in N => n + 1 \in N
  <2> SUFFICES ASSUME NEW n \in N PROVE n + 1 \in N  OBVIOUS
  <2>1. PICK f : Solves(f, n)  OBVIOUS
  <2> DEFINE g == [e \in Exprs |-> IF Depth[e] < n THEN f[e] ELSE Step(e, f)]
  <2>2. ASSUME NEW e \in Exprs, Depth[e] < n + 1 PROVE g[e] = Step(e, g)
    <3>1. g[e] = Step(e, f)  BY <2>1
    <3>2. \A a \in Inner(e) : f[a] = g[a]
      <4> TAKE a \in Inner(e)
      <4>1. Depth[a] < n  BY <2>2, InnerIsShallower
      <4> QED BY <4>1, InnerIsShallower
    <3> HIDE DEF g
    <3> QED BY <3>1, <3>2, EvalStepLocal
  <2>3. Solves(g, n + 1)  BY <2>2
  <2> HIDE DEF g
  <2> QED BY <2>3
<1>3. MaxDepth + 1 \in N
  <2> HIDE DEF N
  <2> QED BY <1>1, <1>2, SetInduction, ExprAssumption
<1>4. PICK f : Solves(f, MaxDepth + 1)  BY <1>3
<1> DEFINE Eq(h) == h = [e \in Exprs |-> Step(e, h)]
           g == [e \in Exprs |-> f[e]]
<1>5. \A e \in Exprs : g[e] = Step(e, g)
  <2> TAKE e \in Exprs
  <2>1. g[e] = Step(e, f)  BY <1>4, ExprAssumption
  <2>2. \A a \in Inner(e) : f[a] = g[a]  BY InnerIsShallower
  <2> HIDE DEF g
  <2> QED BY <2>1, <2>2, EvalStepLocal
<1>6. Eq(g)  BY <1>5
<1>7. DatumsIn(t) = CHOOSE h : Eq(h)  BY DEF DatumsIn
<1> HIDE DEF Eq, g
<1>8. Eq(DatumsIn(t))  BY <1>6, <1>7
<1> QED BY <1>8 DEF Eq

\* Whether a filter is covered depends on its conjuncts.
LEMMA CoversStepLocal ==
    ASSUME NEW e \in Exprs, NEW t, NEW f, NEW g,
           \A a \in Inner(e) : f[a] = g[a]
    PROVE  CoversStep(e, t, f) = CoversStep(e, t, g)
<1>1. CASE e.x = "and"
  <2>1. \A k \in DOMAIN e.args : f[e.args[k]] = g[e.args[k]]  BY <1>1 DEF Inner
  <2> QED BY <1>1, <2>1 DEF CoversStep
<1>2. CASE e.x # "and"
  <2>1. CASE e.x = "is_null"  BY <2>1 DEF CoversStep
  <2>2. CASE e.x = "not"  BY <2>2 DEF CoversStep
  <2>3. CASE e.x = "compare"  BY <2>3 DEF CoversStep
  <2>4. CASE e.x \notin {"is_null", "not", "compare"}  BY <1>2, <2>4 DEF CoversStep
  <2> QED BY <2>1, <2>2, <2>3, <2>4
<1> QED BY <1>1, <1>2

\* CoveredIn is what its definition says.
LEMMA CoversAre ==
    ASSUME NEW t
    PROVE  CoveredIn(t) = [e \in Exprs |-> CoversStep(e, t, CoveredIn(t))]
<1> DEFINE Step(e, f) == CoversStep(e, t, f)
           Solves(f, n) == \A e \in Exprs : Depth[e] < n => f[e] = Step(e, f)
           N == {n \in Nat : \E f : Solves(f, n)}
<1>1. 0 \in N  BY ExprAssumption
<1>2. \A n \in Nat : n \in N => n + 1 \in N
  <2> SUFFICES ASSUME NEW n \in N PROVE n + 1 \in N  OBVIOUS
  <2>1. PICK f : Solves(f, n)  OBVIOUS
  <2> DEFINE g == [e \in Exprs |-> IF Depth[e] < n THEN f[e] ELSE Step(e, f)]
  <2>2. ASSUME NEW e \in Exprs, Depth[e] < n + 1 PROVE g[e] = Step(e, g)
    <3>1. g[e] = Step(e, f)  BY <2>1
    <3>2. \A a \in Inner(e) : f[a] = g[a]
      <4> TAKE a \in Inner(e)
      <4>1. Depth[a] < n  BY <2>2, InnerIsShallower
      <4> QED BY <4>1, InnerIsShallower
    <3> HIDE DEF g
    <3> QED BY <3>1, <3>2, CoversStepLocal
  <2>3. Solves(g, n + 1)  BY <2>2
  <2> HIDE DEF g
  <2> QED BY <2>3
<1>3. MaxDepth + 1 \in N
  <2> HIDE DEF N
  <2> QED BY <1>1, <1>2, SetInduction, ExprAssumption
<1>4. PICK f : Solves(f, MaxDepth + 1)  BY <1>3
<1> DEFINE Eq(h) == h = [e \in Exprs |-> Step(e, h)]
           g == [e \in Exprs |-> f[e]]
<1>5. \A e \in Exprs : g[e] = Step(e, g)
  <2> TAKE e \in Exprs
  <2>1. g[e] = Step(e, f)  BY <1>4, ExprAssumption
  <2>2. \A a \in Inner(e) : f[a] = g[a]  BY InnerIsShallower
  <2> HIDE DEF g
  <2> QED BY <2>1, <2>2, CoversStepLocal
<1>6. Eq(g)  BY <1>5
<1>7. CoveredIn(t) = CHOOSE h : Eq(h)  BY DEF CoveredIn
<1> HIDE DEF Eq, g
<1>8. Eq(CoveredIn(t))  BY <1>6, <1>7
<1> QED BY <1>8 DEF Eq

\* What an expression means depends on what its parts mean.
LEMMA MeaningStepLocal ==
    ASSUME NEW e \in Exprs, NEW t, NEW r, NEW f, NEW g,
           \A a \in Inner(e) : f[a] = g[a]
    PROVE  MeaningStep(e, t, r, f) = MeaningStep(e, t, r, g)
<1>1. CASE e.x \in {"column", "literal"}  BY <1>1 DEF MeaningStep
<1>2. CASE e.x \in {"compare", "arith"}
  <2>1. f[e.a] = g[e.a] /\ f[e.b] = g[e.b]  BY <1>2 DEF Inner
  <2> QED BY <1>2, <2>1 DEF MeaningStep
<1>3. CASE e.x \in {"and", "or"}
  <2>1. \A k \in DOMAIN e.args : f[e.args[k]] = g[e.args[k]]  BY <1>3 DEF Inner
  <2>2. {f[e.args[k]] : k \in DOMAIN e.args} = {g[e.args[k]] : k \in DOMAIN e.args}
    BY <2>1
  <2> QED BY <1>3, <2>2 DEF MeaningStep
<1>4. CASE e.x \in {"not", "is_null", "in", "date_trunc", "lat", "lon"}
  <2>1. f[e.a] = g[e.a]  BY <1>4 DEF Inner
  <2> QED BY <1>4, <2>1 DEF MeaningStep
<1> QED BY <1>1, <1>2, <1>3, <1>4, ExprAssumption DEF ExprKinds

\* Meanings is what its definition says.
LEMMA MeaningsAre ==
    ASSUME NEW t, NEW r
    PROVE  Meanings(t, r) = [e \in Exprs |-> MeaningStep(e, t, r, Meanings(t, r))]
<1> DEFINE Step(e, f) == MeaningStep(e, t, r, f)
           Solves(f, n) == \A e \in Exprs : Depth[e] < n => f[e] = Step(e, f)
           N == {n \in Nat : \E f : Solves(f, n)}
<1>1. 0 \in N  BY ExprAssumption
<1>2. \A n \in Nat : n \in N => n + 1 \in N
  <2> SUFFICES ASSUME NEW n \in N PROVE n + 1 \in N  OBVIOUS
  <2>1. PICK f : Solves(f, n)  OBVIOUS
  <2> DEFINE g == [e \in Exprs |-> IF Depth[e] < n THEN f[e] ELSE Step(e, f)]
  <2>2. ASSUME NEW e \in Exprs, Depth[e] < n + 1 PROVE g[e] = Step(e, g)
    <3>1. g[e] = Step(e, f)  BY <2>1
    <3>2. \A a \in Inner(e) : f[a] = g[a]
      <4> TAKE a \in Inner(e)
      <4>1. Depth[a] < n  BY <2>2, InnerIsShallower
      <4> QED BY <4>1, InnerIsShallower
    <3> HIDE DEF g
    <3> QED BY <3>1, <3>2, MeaningStepLocal
  <2>3. Solves(g, n + 1)  BY <2>2
  <2> HIDE DEF g
  <2> QED BY <2>3
<1>3. MaxDepth + 1 \in N
  <2> HIDE DEF N
  <2> QED BY <1>1, <1>2, SetInduction, ExprAssumption
<1>4. PICK f : Solves(f, MaxDepth + 1)  BY <1>3
<1> DEFINE Eq(h) == h = [e \in Exprs |-> Step(e, h)]
           g == [e \in Exprs |-> f[e]]
<1>5. \A e \in Exprs : g[e] = Step(e, g)
  <2> TAKE e \in Exprs
  <2>1. g[e] = Step(e, f)  BY <1>4, ExprAssumption
  <2>2. \A a \in Inner(e) : f[a] = g[a]  BY InnerIsShallower
  <2> HIDE DEF g
  <2> QED BY <2>1, <2>2, MeaningStepLocal
<1>6. Eq(g)  BY <1>5
<1>7. Meanings(t, r) = CHOOSE h : Eq(h)  BY DEF Meanings
<1> HIDE DEF Eq, g
<1>8. Eq(Meanings(t, r))  BY <1>6, <1>7
<1> QED BY <1>8 DEF Eq

AnyType == SortableTypes \cup {"Geo"}

\* A name that a schema has is that of the field it finds.
LEMMA FieldFound ==
    ASSUME NEW schema \in Seq(SchemaFields), NEW name \in FieldNames(schema)
    PROVE  /\ IndexOf(schema, name) \in DOMAIN schema
           /\ Field(schema, name) \in SchemaFields
           /\ Field(schema, name).name = name
<1> DEFINE I == {i \in DOMAIN schema : schema[i].name = name}
           Bears(i) == /\ schema[i].name = name
                       /\ \A j \in 1 .. i - 1 : schema[j].name # name
<1>1. DOMAIN schema = 1 .. Len(schema) /\ Len(schema) \in Nat  OBVIOUS
<1>2. I # {} /\ I \in SUBSET Nat  BY <1>1 DEF FieldNames
<1>3. PICK m \in I : \A i \in I : m <= i
  <2> HIDE DEF I
  <2> QED BY <1>2, LeastElement
<1>4. m \in DOMAIN schema /\ Bears(m)
  <2>1. \A j \in 1 .. m - 1 : schema[j].name # name
    <3> SUFFICES ASSUME NEW j \in 1 .. m - 1, schema[j].name = name PROVE FALSE
      OBVIOUS
    <3>1. j \in I /\ j < m  BY <1>1, <1>3
    <3> QED BY <3>1, <1>3
  <2> QED BY <2>1, <1>3
<1>5. IndexOf(schema, name) = CHOOSE i \in DOMAIN schema : Bears(i)  BY DEF IndexOf
<1>6. /\ IndexOf(schema, name) \in DOMAIN schema
      /\ schema[IndexOf(schema, name)].name = name
  <2> HIDE DEF Bears
  <2>1. Bears(IndexOf(schema, name)) /\ IndexOf(schema, name) \in DOMAIN schema
    BY <1>4, <1>5
  <2> QED BY <2>1 DEF Bears
<1> QED BY <1>6 DEF Field

\* With names that are all different, a field is found where it is.
LEMMA FieldThere ==
    ASSUME NEW schema \in Seq(SchemaFields),
           Unique([i \in DOMAIN schema |-> schema[i].name]), NEW k \in DOMAIN schema
    PROVE  IndexOf(schema, schema[k].name) = k
<1>1. schema[k].name \in FieldNames(schema)  BY DEF FieldNames
<1>2. /\ IndexOf(schema, schema[k].name) \in DOMAIN schema
      /\ schema[IndexOf(schema, schema[k].name)].name = schema[k].name
  BY <1>1, FieldFound DEF Field
<1> QED BY <1>2 DEF Unique

----------------------------------------------------------------------------
(* The types of expressions.                                               *)

\* What type_of may say.
IsType(t) ==
    \/ t = Refused
    \/ /\ t = ExprType(t.ty, t.nullable)
       /\ t.ty \in AnyType \cup {"None"} /\ t.nullable \in BOOLEAN

\* What is refused is no type.
LEMMA RefusedType ==
    /\ Refused.ok = FALSE /\ ~ Refused.ok
    /\ \A ty, nullable : /\ ExprType(ty, nullable) # Refused
                         /\ ExprType(ty, nullable).ok = TRUE
                         /\ ExprType(ty, nullable).ty = ty
                         /\ ExprType(ty, nullable).nullable = nullable
<1>1. \A ty, nullable : ExprType(ty, nullable).ok = TRUE  BY DEF ExprType
<1>2. Refused.ok = FALSE  BY DEF Refused
<1> QED BY <1>1, <1>2 DEF ExprType

\* What Usable and UsableAs let through is as it was.
LEMMA UsableTypes ==
    ASSUME NEW t, IsType(t)
    PROVE  /\ IsType(Usable(t)) /\ \A ty : IsType(UsableAs(t, ty))
           /\ Usable(t).ok => /\ Usable(t) = t /\ t.ok /\ t.ty \in AnyType
                              /\ t.nullable \in BOOLEAN
           /\ \A ty : UsableAs(t, ty).ok =>
                 /\ UsableAs(t, ty) = t /\ t.ok /\ t.ty = ty
                 /\ t.nullable \in BOOLEAN /\ Usable(t) = t
<1>1. CASE t = Refused
  <2>1. Usable(t) = Refused  BY <1>1, RefusedType DEF Usable
  <2>2. \A ty : UsableAs(t, ty) = Refused  BY <2>1, RefusedType DEF UsableAs
  <2> QED BY <2>1, <2>2, RefusedType DEF IsType
<1>2. CASE t # Refused
  <2>1. /\ t = ExprType(t.ty, t.nullable) /\ t.ty \in AnyType \cup {"None"}
        /\ t.nullable \in BOOLEAN /\ t.ok
    BY <1>2, RefusedType DEF IsType
  <2>2. Usable(t) = IF t.ty # "None" THEN t ELSE Refused  BY <2>1 DEF Usable
  <2>3. \A ty : UsableAs(t, ty) = IF Usable(t).ok /\ t.ty = ty THEN t ELSE Refused
    BY DEF UsableAs
  <2>4. CASE t.ty = "None"
    <3>1. Usable(t) = Refused  BY <2>2, <2>4
    <3>2. \A ty : UsableAs(t, ty) = Refused  BY <2>3, <3>1, RefusedType
    <3> QED BY <3>1, <3>2, RefusedType DEF IsType
  <2>5. CASE t.ty # "None"
    <3>1. Usable(t) = t /\ t.ty \in AnyType  BY <2>1, <2>2, <2>5
    <3>2. \A ty : UsableAs(t, ty) = IF t.ty = ty THEN t ELSE Refused
      BY <2>3, <3>1, <2>1
    <3> QED BY <3>1, <3>2, <2>1, RefusedType DEF IsType
  <2> QED BY <2>4, <2>5
<1> QED BY <1>1, <1>2

\* Every expression has a type or is refused.
LEMMA TypesTyped ==
    ASSUME NEW schema \in Seq(SchemaFields), NEW e \in Exprs
    PROVE  IsType(TypeOf(e, schema))
<1> DEFINE S == {x \in Exprs : IsType(TypesIn(schema)[x])}
<1>1. ASSUME NEW x \in Exprs, \A a \in Inner(x) : a \in S PROVE x \in S
  <2> DEFINE T == TypesIn(schema)
  <2>1. T[x] = TypeStep(x, schema, T)  BY TypesAre
  <2> HIDE DEF T
  <2>2. \A a \in Inner(x) : IsType(T[a])  BY <1>1 DEF T
  <2>3. \A ty \in AnyType \cup {"None"}, null \in BOOLEAN : IsType(ExprType(ty, null))
    BY RefusedType DEF IsType
  <2>4. IsType(Refused)  BY DEF IsType
  <2>5. CASE x.x = "column"
    <3>1. CASE x.name \in FieldNames(schema)
      <4>1. /\ Field(schema, x.name).ty \in AnyType
            /\ Field(schema, x.name).nullable \in BOOLEAN
        BY <3>1, FieldFound DEF SchemaFields, AnyType
      <4>2. T[x] = ExprType(Field(schema, x.name).ty, Field(schema, x.name).nullable)
        BY <2>1, <2>5, <3>1 DEF TypeStep
      <4> QED BY <4>1, <4>2, <2>3 DEF T
    <3>2. CASE x.name \notin FieldNames(schema)
      BY <2>1, <2>4, <2>5, <3>2 DEF TypeStep, T
    <3> QED BY <3>1, <3>2
  <2>6. CASE x.x = "literal"
    <3>1. x.lit.ty = "Null" \/ x.lit.ty \in AnyType
      BY <2>6, LiteralAssumption DEF IsLiteral, AnyType, SortableTypes
    <3>2. \/ T[x] = Refused
          \/ T[x] = IF x.lit.ty = "Null" THEN ExprType("None", TRUE)
                    ELSE ExprType(x.lit.ty, FALSE)
      BY <2>1, <2>6 DEF TypeStep
    <3> QED BY <3>1, <3>2, <2>3, <2>4 DEF T
  <2>7. CASE x.x \in {"compare", "arith"}
    <3>1. x.a \in Inner(x) /\ x.b \in Inner(x)  BY <2>7 DEF Inner
    <3> DEFINE ta == Usable(T[x.a])
               tb == Usable(T[x.b])
    <3>2. /\ ta.ok => ta.nullable \in BOOLEAN
          /\ tb.ok => tb.nullable \in BOOLEAN
      BY <3>1, <2>2, UsableTypes
    <3>3. CASE x.x = "compare"
      <4>1. T[x] = IF ta.ok /\ tb.ok /\ Comparable(ta.ty, tb.ty)
                   THEN ExprType("Bool", ta.nullable \/ tb.nullable)
                   ELSE Refused
        BY <2>1, <3>3 DEF TypeStep
      <4>2. (ta.nullable \/ tb.nullable) \in BOOLEAN /\ "Bool" \in AnyType
        BY DEF AnyType, SortableTypes
      <4> HIDE DEF ta, tb
      <4> QED BY <4>1, <4>2, <2>3, <2>4 DEF T
    <3>4. CASE x.x = "arith"
      <4> DEFINE ty == ArithType(x.op, ta.ty, tb.ty)
      <4>1. T[x] = IF ta.ok /\ tb.ok /\ ty # "None"
                   THEN ExprType(ty, ArithNullable(ta, tb, ty))
                   ELSE Refused
        BY <2>1, <3>4 DEF TypeStep
      <4>2. ArithNullable(ta, tb, ty) \in BOOLEAN  BY DEF ArithNullable
      <4>3. ty \in AnyType \cup {"None"}  BY DEF ArithType, AnyType, SortableTypes
      <4> HIDE DEF ta, tb, ty
      <4> QED BY <4>1, <4>2, <4>3, <2>3, <2>4 DEF T
    <3> QED BY <2>7, <3>3, <3>4
  <2>8. CASE x.x \in {"and", "or"}
    <3> DEFINE t == [i \in DOMAIN x.args |-> UsableAs(T[x.args[i]], "Bool")]
    <3>1. T[x] = IF x.args # << >> /\ \A i \in DOMAIN t : t[i].ok
                 THEN ExprType("Bool", \E i \in DOMAIN t : t[i].nullable)
                 ELSE Refused
      BY <2>1, <2>8 DEF TypeStep
    <3>2. (\E i \in DOMAIN t : t[i].nullable) \in BOOLEAN /\ "Bool" \in AnyType
      BY DEF AnyType, SortableTypes
    <3> HIDE DEF t
    <3> QED BY <3>1, <3>2, <2>3, <2>4 DEF T
  <2>9. CASE x.x \in {"not", "is_null", "in", "date_trunc", "lat", "lon"}
    <3>1. IsType(T[x.a])  BY <2>2, <2>9 DEF Inner
    <3>2. CASE x.x \in {"not", "date_trunc"}
      <4>1. T[x] = UsableAs(T[x.a], IF x.x = "not" THEN "Bool" ELSE "Timestamp")
        BY <2>1, <3>2 DEF TypeStep
      <4>2. \A ty : IsType(UsableAs(T[x.a], ty))  BY <3>1, UsableTypes
      <4>3. IsType(T[x])
        <5> DEFINE ty == IF x.x = "not" THEN "Bool" ELSE "Timestamp"
        <5>1. T[x] = UsableAs(T[x.a], ty)  BY <4>1
        <5> HIDE DEF ty
        <5> QED BY <5>1, <4>2
      <4> QED BY <4>3 DEF T
    <3>3. CASE x.x = "is_null"
      <4>1. T[x] = IF T[x.a].ok THEN ExprType("Bool", FALSE) ELSE Refused
        BY <2>1, <3>3 DEF TypeStep
      <4> QED BY <4>1, <2>3, <2>4 DEF T, AnyType, SortableTypes
    <3>4. CASE x.x = "in"
      <4> DEFINE ta == Usable(T[x.a])
      <4>1. T[x] = IF ta.ok /\ x.values # << >>
                         /\ \A i \in DOMAIN x.values : Comparable(ta.ty, x.values[i].ty)
                   THEN ExprType("Bool", ta.nullable)
                   ELSE Refused
        BY <2>1, <3>4 DEF TypeStep
      <4>2. ta.ok => ta.nullable \in BOOLEAN  BY <3>1, UsableTypes
      <4> HIDE DEF ta
      <4> QED BY <4>1, <4>2, <2>3, <2>4 DEF T, AnyType, SortableTypes
    <3>5. CASE x.x \in {"lat", "lon"}
      <4> DEFINE ta == UsableAs(T[x.a], "Geo")
      <4>1. T[x] = IF ta.ok THEN ExprType("F64", ta.nullable) ELSE Refused
        BY <2>1, <3>5 DEF TypeStep
      <4>2. ta.ok => ta.nullable \in BOOLEAN  BY <3>1, UsableTypes
      <4> HIDE DEF ta
      <4> QED BY <4>1, <4>2, <2>3, <2>4 DEF T, AnyType, SortableTypes
    <3> QED BY <2>9, <3>2, <3>3, <3>4, <3>5
  <2> QED BY <2>5, <2>6, <2>7, <2>8, <2>9, ExprAssumption DEF ExprKinds
<1>2. Exprs \subseteq S
  <2> HIDE DEF S
  <2> QED BY <1>1, ExprInduction
<1> QED BY <1>2 DEF TypeOf

Largest == Magnitudes[Infinity]

\* The facts about numbers that are assumed.
LEMMA NumberFacts ==
    /\ Half \in Nat /\ Infinity \in Nat /\ 0 < Infinity /\ Infinity < Half
    /\ \A m \in 1 .. Infinity + 1 : Magnitudes[m] \in Nat
    /\ \A m \in 1 .. Infinity : Magnitudes[m] <= Largest
    /\ Largest \in Nat /\ 2 * Half <= Largest
    /\ Magnitudes[1] = 0
    /\ \A m, k \in 1 .. Infinity + 1 : m < k => Magnitudes[m] < Magnitudes[k]
<1>1. /\ Half \in Nat /\ Infinity \in Nat /\ 0 < Infinity /\ Infinity < Half
  BY WordAssumption
<1>2. DOMAIN Magnitudes = 1 .. Infinity + 1  BY MagnitudesAssumption, <1>1
<1>3. \A m \in 1 .. Infinity + 1 : Magnitudes[m] \in Nat  BY <1>2, MagnitudesAssumption
<1>4. \A m, k \in 1 .. Infinity + 1 : m < k => Magnitudes[m] < Magnitudes[k]
  BY MagnitudesAssumption
<1>5. \A m \in 1 .. Infinity : Magnitudes[m] <= Largest
  <2> TAKE m \in 1 .. Infinity
  <2>1. CASE m = Infinity  BY <2>1, <1>1, <1>3 DEF Largest
  <2>2. CASE m < Infinity  BY <2>2, <1>1, <1>3, <1>4 DEF Largest
  <2> QED BY <2>1, <2>2, <1>1
<1>6. 2 * Half <= Largest  BY <1>5, MagnitudesAssumption
<1> QED BY <1>1, <1>3, <1>4, <1>5, <1>6, MagnitudesAssumption DEF Largest

\* A finite word is a magnitude below Infinity, with or without a sign.
LEMMA FiniteWord ==
    ASSUME NEW bits \in Finite
    PROVE  /\ bits \in Int
           /\ \/ /\ bits \in 0 .. Infinity - 1
                 /\ Signed(bits) = bits /\ Halves(bits) = Magnitudes[bits + 1]
              \/ /\ bits - Half \in 0 .. Infinity - 1
                 /\ Signed(bits) = - (bits - Half)
                 /\ Halves(bits) = - Magnitudes[bits - Half + 1]
<1>1. bits \in U64 /\ - Infinity < Signed(bits) /\ Signed(bits) < Infinity  BY DEF Finite
<1>2. bits \in 0 .. 2 * Half - 1  BY <1>1 DEF U64
<1>3. CASE bits < Half
  BY <1>1, <1>2, <1>3, NumberFacts DEF Signed, Halves
<1>4. CASE ~ bits < Half
  BY <1>1, <1>2, <1>4, NumberFacts DEF Signed, Halves
<1> QED BY <1>2, <1>3, <1>4, NumberFacts

\* Every decimal that is a number is an integer of halves, in range.
LEMMA FiniteHalves ==
    ASSUME NEW bits \in Finite
    PROVE  /\ Halves(bits) \in Int
           /\ - Largest <= Halves(bits) /\ Halves(bits) <= Largest
BY FiniteWord, NumberFacts

\* A word with a magnitude below Infinity is finite.
LEMMA WordIsFinite ==
    ASSUME NEW m \in 0 .. Infinity - 1
    PROVE  /\ m \in Finite /\ Half + m \in Finite
           /\ Halves(m) = Magnitudes[m + 1]
           /\ Halves(Half + m) = - Magnitudes[m + 1]
<1>1. m \in U64 /\ Half + m \in U64  BY NumberFacts DEF U64
<1>2. Signed(m) = m  BY NumberFacts DEF Signed
<1>3. Signed(Half + m) = - m  BY NumberFacts DEF Signed
<1>4. (Half + m) - Half = m /\ ~ (Half + m < Half) /\ m < Half  BY NumberFacts
<1> QED BY <1>1, <1>2, <1>3, <1>4, NumberFacts DEF Finite, Halves

\* Decimals are in the order of their signed words.
LEMMA SignedInOrder ==
    ASSUME NEW x \in Finite, NEW y \in Finite
    PROVE  /\ Signed(x) \in Int /\ Signed(y) \in Int
           /\ Signed(x) < Signed(y) <=> Halves(x) < Halves(y)
           /\ Signed(x) = Signed(y) <=> Halves(x) = Halves(y)
<1> DEFINE M(i) == Magnitudes[i + 1]
<1>1. \A i, j \in 0 .. Infinity - 1 :
        /\ M(i) \in Nat /\ M(j) \in Nat
        /\ M(i) < M(j) <=> i < j
        /\ M(i) = M(j) <=> i = j
        /\ M(i) = 0 <=> i = 0
  <2> TAKE i, j \in 0 .. Infinity - 1
  <2>1. i + 1 \in 1 .. Infinity + 1 /\ j + 1 \in 1 .. Infinity + 1
        /\ 1 \in 1 .. Infinity + 1 /\ M(0) = 0
    BY NumberFacts
  <2>2. i < j => M(i) < M(j)  BY <2>1, NumberFacts
  <2>3. j < i => M(j) < M(i)  BY <2>1, NumberFacts
  <2>4. 0 < i => M(0) < M(i)  BY <2>1, NumberFacts
  <2>5. M(i) \in Nat /\ M(j) \in Nat  BY <2>1, NumberFacts
  <2> QED BY <2>1, <2>2, <2>3, <2>4, <2>5
<1> HIDE DEF M
<1>2. /\ x \in Int
      /\ \/ /\ x \in 0 .. Infinity - 1
            /\ Signed(x) = x /\ Halves(x) = M(x)
         \/ /\ x - Half \in 0 .. Infinity - 1
            /\ Signed(x) = - (x - Half) /\ Halves(x) = - M(x - Half)
  BY FiniteWord DEF M
<1>3. /\ y \in Int
      /\ \/ /\ y \in 0 .. Infinity - 1
            /\ Signed(y) = y /\ Halves(y) = M(y)
         \/ /\ y - Half \in 0 .. Infinity - 1
            /\ Signed(y) = - (y - Half) /\ Halves(y) = - M(y - Half)
  BY FiniteWord DEF M
<1> QED BY <1>1, <1>2, <1>3, NumberFacts

----------------------------------------------------------------------------
(* Rounding.                                                               *)

Distance(N, D, k) == Magnitude(N - D[k])

Nearest(N, D, L) ==
    {m \in 0 .. L : \A k \in 0 .. L : Distance(N, D, m) <= Distance(N, D, k)}

\* Some number of a rising list is nearest, one of two that are is even, and
\* none that is nearest lies beyond one that is large enough.
LEMMA NearestRises ==
    ASSUME NEW L \in Nat, NEW N \in Nat, NEW D \in [0 .. L -> Int],
           \A m, k \in 0 .. L : m < k => D[m] < D[k]
    PROVE  /\ Nearest(N, D, L) # {}
           /\ Cardinality(Nearest(N, D, L)) # 1 => \E m \in Nearest(N, D, L) : m % 2 = 0
           /\ \A m \in Nearest(N, D, L), j \in 0 .. L : N <= D[j] => m <= j
<1> DEFINE f == [k \in 0 .. L |-> Distance(N, D, k)]
           near == Nearest(N, D, L)
<1>1. \A k \in 0 .. L : Distance(N, D, k) \in Nat  BY DEF Distance, Magnitude
<1>2. near # {}
  <2>1. \A k \in 0 .. L : f[k] \in Nat  BY <1>1
  <2>2. 0 .. L # {}  OBVIOUS
  <2>3. PICK k \in 0 .. L : \A j \in 0 .. L : f[k] <= f[j]
    <3> HIDE DEF f
    <3> QED BY <2>1, <2>2, LeastStamp
  <2> QED BY <2>3 DEF Nearest
<1>3. ASSUME Cardinality(near) # 1 PROVE \E m \in near : m % 2 = 0
  <2>1. \A a \in near : near # {a}
    <3> TAKE a \in near
    <3>1. Cardinality({a}) = 1  BY FS_Singleton
    <3> QED BY <1>3, <3>1
  <2>2. PICK a \in near, b \in near : a < b
    <3>1. PICK a \in near : TRUE  BY <1>2
    <3>2. PICK b \in near : b # a  BY <2>1, <3>1
    <3>3. a \in 0 .. L /\ b \in 0 .. L  BY DEF Nearest
    <3>4. a < b \/ b < a  BY <3>2, <3>3
    <3> QED BY <3>4
  <2>3. a \in 0 .. L /\ b \in 0 .. L /\ Distance(N, D, a) = Distance(N, D, b)
    <3>1. a \in 0 .. L /\ b \in 0 .. L  BY DEF Nearest
    <3>2. Distance(N, D, a) <= Distance(N, D, b) /\ Distance(N, D, b) <= Distance(N, D, a)
      BY <3>1 DEF Nearest
    <3> QED BY <3>1, <3>2, <1>1
  <2>4. D[a] < D[b] /\ D[a] \in Int /\ D[b] \in Int  BY <2>2, <2>3
  <2>5. N - D[a] = D[b] - N  BY <2>3, <2>4 DEF Distance, Magnitude
  <2>6. b = a + 1
    <3> SUFFICES ASSUME b # a + 1 PROVE FALSE  OBVIOUS
    <3>1. a + 1 \in 0 .. L /\ a < a + 1 /\ a + 1 < b  BY <2>2, <2>3
    <3>2. D[a] < D[a + 1] /\ D[a + 1] < D[b] /\ D[a + 1] \in Int  BY <3>1, <2>3
    <3>3. Distance(N, D, a + 1) < Distance(N, D, a)
      <4> DEFINE p == D[a]
                 q == D[b]
                 c == D[a + 1]
      <4>1. p < c /\ c < q /\ p \in Int /\ q \in Int /\ c \in Int /\ N - p = q - N
        BY <3>2, <2>4, <2>5
      <4> HIDE DEF p, q, c
      <4>2. Magnitude(N - c) < Magnitude(N - p)  BY <4>1 DEF Magnitude
      <4> QED BY <4>2 DEF Distance, p, c
    <3>4. Distance(N, D, a) <= Distance(N, D, a + 1)  BY <3>1 DEF Nearest
    <3> QED BY <3>1, <3>3, <3>4, <2>3, <1>1
  <2>7. a % 2 = 0 \/ b % 2 = 0  BY <2>3, <2>6
  <2> QED BY <2>7
<1>4. ASSUME NEW m \in near, NEW j \in 0 .. L, N <= D[j] PROVE m <= j
  <2>1. m \in 0 .. L /\ Distance(N, D, m) <= Distance(N, D, j)  BY DEF Nearest
  <2> SUFFICES ASSUME j < m PROVE FALSE  BY <2>1
  <2>2. D[j] < D[m] /\ D[j] \in Int /\ D[m] \in Int  BY <2>1
  <2> QED BY <2>1, <2>2, <1>4 DEF Distance, Magnitude
<1> QED BY <1>2, <1>3, <1>4

\* A number rounds to a magnitude, and to none beyond one that is as large.
LEMMA RoundedTo ==
    ASSUME NEW n \in Int, NEW d \in Nat, d > 0
    PROVE  \E m \in 0 .. Infinity :
              /\ Rounded(n, d) = IF n < 0 /\ m > 0 THEN Half + m ELSE m
              /\ \A j \in 0 .. Infinity : Magnitude(n) <= d * Magnitudes[j + 1] => m <= j
<1> DEFINE N == Magnitude(n)
           D == [k \in 0 .. Infinity |-> d * Magnitudes[k + 1]]
           near == Nearest(N, D, Infinity)
           m == IF Cardinality(near) = 1 THEN CHOOSE k \in near : TRUE
                ELSE CHOOSE k \in near : k % 2 = 0
<1>1. N \in Nat  BY DEF Magnitude
<1>2. Infinity \in Nat /\ \A k \in 0 .. Infinity : Magnitudes[k + 1] \in Nat
  BY NumberFacts
<1>3. D \in [0 .. Infinity -> Int]  BY <1>2
<1>4. ASSUME NEW k \in 0 .. Infinity, NEW j \in 0 .. Infinity, k < j
      PROVE  D[k] < D[j]
  <2>1. k + 1 \in 1 .. Infinity + 1 /\ j + 1 \in 1 .. Infinity + 1 /\ k + 1 < j + 1
    BY <1>2, <1>4
  <2>2. Magnitudes[k + 1] < Magnitudes[j + 1]  BY <2>1, NumberFacts
  <2> QED BY <2>2, <1>2, TimesRises
<1>5. near = {k \in 0 .. Infinity : \A j \in 0 .. Infinity :
                Magnitude(Magnitude(n) - d * Magnitudes[k + 1])
                  <= Magnitude(Magnitude(n) - d * Magnitudes[j + 1])}
  BY DEF Nearest, Distance
<1>6. Rounded(n, d) = IF n < 0 /\ m > 0 THEN Half + m ELSE m
  <2> DEFINE gap(k) == Magnitude(Magnitude(n) - d * Magnitudes[k + 1])
             set == {k \in 0 .. Infinity : \A j \in 0 .. Infinity : gap(k) <= gap(j)}
             one == IF Cardinality(set) = 1 THEN CHOOSE k \in set : TRUE
                    ELSE CHOOSE k \in set : k % 2 = 0
  <2>1. Rounded(n, d) = IF n < 0 /\ one > 0 THEN Half + one ELSE one
    BY DEF Rounded
  <2>2. near = set  BY <1>5
  <2>3. m = one
    <3> HIDE DEF near, set
    <3> QED BY <2>2
  <2> HIDE DEF m, one
  <2> QED BY <2>1, <2>3
<1> HIDE DEF D, N, near
<1>7. /\ near # {}
      /\ Cardinality(near) # 1 => \E k \in near : k % 2 = 0
      /\ \A k \in near, j \in 0 .. Infinity : N <= D[j] => k <= j
  <2> HIDE DEF m
  <2>1. \A k, j \in 0 .. Infinity : k < j => D[k] < D[j]  BY <1>4
  <2> QED BY <1>1, <1>2, <1>3, <2>1, NearestRises DEF near
<1>8. m \in near  BY <1>7
<1> HIDE DEF m
<1>9. m \in 0 .. Infinity  BY <1>8 DEF near, Nearest
<1>10. \A j \in 0 .. Infinity : Magnitude(n) <= d * Magnitudes[j + 1] => m <= j
  BY <1>7, <1>8 DEF D, N
<1> QED BY <1>6, <1>9, <1>10

\* What is no larger than the largest decimal rounds to a decimal, and to no
\* larger one than one that is as large.
LEMMA RoundedFinite ==
    ASSUME NEW n \in Int, NEW d \in Nat, d > 0, NEW j \in 0 .. Infinity - 1,
           Magnitude(n) <= d * Magnitudes[j + 1]
    PROVE  /\ Rounded(n, d) \in Finite
           /\ Magnitude(Halves(Rounded(n, d))) <= Magnitudes[j + 1]
<1>1. PICK m \in 0 .. Infinity :
          /\ Rounded(n, d) = IF n < 0 /\ m > 0 THEN Half + m ELSE m
          /\ \A k \in 0 .. Infinity : Magnitude(n) <= d * Magnitudes[k + 1] => m <= k
  BY RoundedTo
<1>2. j \in 0 .. Infinity  BY NumberFacts
<1>3. m <= j  BY <1>1, <1>2
<1>4. m \in 0 .. Infinity - 1  BY <1>3, NumberFacts
<1>5. Magnitudes[m + 1] <= Magnitudes[j + 1] /\ Magnitudes[m + 1] \in Nat
  <2>1. m + 1 \in 1 .. Infinity + 1 /\ j + 1 \in 1 .. Infinity + 1  BY <1>4, NumberFacts
  <2>2. m < j => Magnitudes[m + 1] < Magnitudes[j + 1]  BY <2>1, NumberFacts
  <2> QED BY <1>3, <2>1, <2>2, NumberFacts
<1>6. Rounded(n, d) \in {m, Half + m}  BY <1>1
<1> QED BY <1>4, <1>5, <1>6, WordIsFinite DEF Magnitude

\* Every number up to the largest decimal rounds to a decimal.
LEMMA RoundedInRange ==
    ASSUME NEW n \in Int, NEW d \in Nat, d > 0, Magnitude(n) <= d * Largest
    PROVE  Rounded(n, d) \in Finite
<1>1. Infinity - 1 \in 0 .. Infinity - 1 /\ (Infinity - 1) + 1 = Infinity
  BY NumberFacts
<1>2. Magnitude(n) <= d * Magnitudes[(Infinity - 1) + 1]  BY <1>1 DEF Largest
<1> QED BY <1>1, <1>2, RoundedFinite

\* So does every integer.
LEMMA IntegerAsF64 ==
    ASSUME NEW v \in I64
    PROVE  AsF64("I64", v) \in Int /\ Magnitude(AsF64("I64", v)) <= Largest
<1>1. 2 * v \in Int /\ Magnitude(2 * v) <= 1 * Largest
  BY NumberFacts DEF I64, Magnitude
<1>2. Rounded(2 * v, 1) \in Finite  BY <1>1, RoundedInRange
<1> QED BY <1>2, FiniteHalves, NumberFacts DEF AsF64, Magnitude

\* Every number is one in f64, and not past the largest.
LEMMA NumberAsF64 ==
    ASSUME NEW ty \in {"I64", "F64"}, NEW v \in CellValues(ty)
    PROVE  AsF64(ty, v) \in Int /\ Magnitude(AsF64(ty, v)) <= Largest
<1>1. CASE ty = "I64"  BY <1>1, IntegerAsF64 DEF CellValues
<1>2. CASE ty = "F64"
  BY <1>2, FiniteHalves, NumberFacts DEF CellValues, AsF64, Magnitude
<1> QED BY <1>1, <1>2

\* A result is a decimal or missing.
LEMMA DecimalOps ==
    ASSUME NEW op, NEW x, NEW y, op \in {"add", "sub", "mul", "div"}
    PROVE  DecimalOp(op, x, y) \in Finite \cup {Missing}
BY DEF DecimalOp, IfFinite

\* A truncated time is one.
LEMMA TruncatedTime ==
    ASSUME NEW unit \in {"day", "week", "month", "year"}, NEW v \in I64
    PROVE  Truncated(unit, v) \in I64
<1> DEFINE days == v \div DayLength
           P(d) == /\ d <= days
                   /\ \A e \in FirstDays[unit] : e <= days => e <= d
           start == CASE unit = "day" -> days
                      [] unit = "week" -> days - ((days + 3) % 7)
                      [] OTHER -> CHOOSE d \in FirstDays[unit] : P(d)
<1>1. DayLength \in Nat \ {0} /\ v \in Int  BY CalendarAssumption, NumberFacts DEF I64
<1>2. days \in Int  BY <1>1
<1>3. ASSUME unit \in {"month", "year"} PROVE \E d \in FirstDays[unit] : P(d)
  <2>1. FirstDays[unit] \subseteq Int  BY <1>3, CalendarAssumption
  <2>2. PICK d \in FirstDays[unit] : d <= days  BY <1>3, CalendarAssumption
  <2> DEFINE T == {days - e : e \in {x \in FirstDays[unit] : x <= days}}
  <2>3. T # {} /\ T \in SUBSET Nat
    <3>1. T \in SUBSET Nat  BY <2>1, <1>2
    <3>2. days - d \in T  BY <2>2
    <3> QED BY <3>1, <3>2
  <2>4. PICK m \in T : \A k \in T : m <= k
    <3> HIDE DEF T
    <3> QED BY <2>3, LeastElement
  <2>5. PICK c \in FirstDays[unit] : c <= days /\ m = days - c  BY <2>4
  <2>6. \A e \in FirstDays[unit] : e <= days => e <= c
    <3> SUFFICES ASSUME NEW e \in FirstDays[unit], e <= days PROVE e <= c  OBVIOUS
    <3>1. days - e \in T  OBVIOUS
    <3>2. m <= days - e  BY <3>1, <2>4
    <3> HIDE DEF days, T
    <3> QED BY <3>2, <2>1, <2>5, <1>2
  <2> QED BY <2>5, <2>6
<1>4. start \in Int
  <2>1. CASE unit \in {"day", "week"}  BY <2>1, <1>2
  <2>2. CASE unit \in {"month", "year"}
    <3>1. start = CHOOSE d \in FirstDays[unit] : P(d)  BY <2>2
    <3> HIDE DEF P
    <3>2. (CHOOSE d \in FirstDays[unit] : P(d)) \in FirstDays[unit]  BY <1>3, <2>2
    <3> QED BY <3>1, <3>2, <2>2, CalendarAssumption
  <2> QED BY <2>1, <2>2
<1>5. Truncated(unit, v) = Wrapped(start * DayLength)  BY DEF Truncated
<1> HIDE DEF start
<1>6. start * DayLength \in Int  BY <1>1, <1>4
<1>7. ASSUME NEW w \in Int PROVE Wrapped(w) \in I64
  <2>1. (w + Half) % (2 * Half) \in 0 .. 2 * Half - 1
    <3>1. 2 * Half \in Nat /\ 2 * Half > 0 /\ w + Half \in Int  BY NumberFacts
    <3> QED BY <3>1
  <2> DEFINE r == (w + Half) % (2 * Half)
  <2> HIDE DEF r
  <2>2. r \in 0 .. 2 * Half - 1  BY <2>1 DEF r
  <2>3. r - Half \in I64  BY <2>2, NumberFacts DEF I64
  <2> QED BY <2>3 DEF Wrapped, r
<1> QED BY <1>5, <1>6, <1>7

\* One more item comes after those there are.
LEMMA ExtendedBy ==
    ASSUME NEW n \in Nat, NEW f, DOMAIN f = 0 .. n - 1, NEW x
    PROVE  /\ DOMAIN Extended(f, x) = 0 .. (n + 1) - 1
           /\ Extended(f, x)[n] = x
           /\ \A i \in 0 .. n - 1 : Extended(f, x)[i] = f[i]
<1>1. Cardinality(DOMAIN f) = n  BY CountBelow
<1>2. Extended(f, x) = [i \in 0 .. n |-> IF i = n THEN x ELSE f[i]]
  BY <1>1 DEF Extended
<1> QED BY <1>2

----------------------------------------------------------------------------
(* The schemas of a plan.                                                  *)

\* The schema of a step, given those of the steps before it.
SchemaStep(p, i, schema) ==
    IF ~ Reads(p[i]) THEN NodeSchema(p[i], << >>)
    ELSE IF schema[p[i].input].ok
    THEN NodeSchema(p[i], schema[p[i].input].schema)
    ELSE Refused

\* Steps that read what comes before them have schemas: SchemasOf is what its
\* definition says.
LEMMA SchemasAre ==
    ASSUME NEW n \in Nat, NEW p, DOMAIN p = 0 .. n - 1, InOrder(p)
    PROVE  SchemasOf(p) = [i \in DOMAIN p |-> SchemaStep(p, i, SchemasOf(p))]
<1> DEFINE Solves(f, m) == \A i \in DOMAIN p : i < m => f[i] = SchemaStep(p, i, f)
           N == {m \in Nat : \E f : Solves(f, m)}
<1>0. ASSUME NEW i \in DOMAIN p, NEW f, NEW g, \A j \in 0 .. i - 1 : f[j] = g[j]
      PROVE  SchemaStep(p, i, f) = SchemaStep(p, i, g)
  BY <1>0 DEF SchemaStep, InOrder
<1>1. 0 \in N  OBVIOUS
<1>2. \A m \in Nat : m \in N => m + 1 \in N
  <2> SUFFICES ASSUME NEW m \in N PROVE m + 1 \in N  OBVIOUS
  <2>1. PICK f : Solves(f, m)  OBVIOUS
  <2> DEFINE g == [i \in DOMAIN p |-> IF i < m THEN f[i] ELSE SchemaStep(p, i, f)]
  <2>2. ASSUME NEW i \in DOMAIN p, i < m + 1 PROVE g[i] = SchemaStep(p, i, g)
    <3>1. g[i] = SchemaStep(p, i, f)  BY <2>1
    <3>2. \A j \in 0 .. i - 1 : f[j] = g[j]  BY <2>2
    <3> HIDE DEF g
    <3> QED BY <3>1, <3>2, <1>0
  <2>3. Solves(g, m + 1)  BY <2>2
  <2> HIDE DEF g
  <2> QED BY <2>3
<1>3. n \in N
  <2> HIDE DEF N
  <2> QED BY <1>1, <1>2, SetInduction
<1>4. PICK f : Solves(f, n)  BY <1>3
<1> DEFINE Eq(h) == h = [i \in DOMAIN p |-> SchemaStep(p, i, h)]
           g == [i \in DOMAIN p |-> f[i]]
<1>5. \A i \in DOMAIN p : g[i] = SchemaStep(p, i, g)
  <2> TAKE i \in DOMAIN p
  <2>1. g[i] = SchemaStep(p, i, f)  BY <1>4
  <2>2. \A j \in 0 .. i - 1 : f[j] = g[j]  OBVIOUS
  <2> HIDE DEF g
  <2> QED BY <2>1, <2>2, <1>0
<1>6. Eq(g)  BY <1>5
<1>7. SchemasOf(p) = CHOOSE h : Eq(h)  BY DEF SchemasOf, SchemaStep
<1> HIDE DEF Eq, g
<1>8. Eq(SchemasOf(p))  BY <1>6, <1>7
<1> QED BY <1>8 DEF Eq

----------------------------------------------------------------------------
(* A plan while it is written and validated.                               *)

LetThrough == {"running", "done", "failed"}

\* The steps are numbered, and those that are let through are well shaped.
ShapeInv ==
    /\ NumSteps \in Nat /\ NumSteps <= MaxSteps /\ DOMAIN plan = 0 .. NumSteps - 1
    /\ status \in LetThrough => WellShaped(plan, NumSteps, output)

\* Every step keeps a plan that was let through of one shape.
LEMMA ShapeKept ==
    ASSUME ShapeInv, [PlanNext]_vars
    PROVE  ShapeInv'
<1>1. CASE \E op \in Steps(NumSteps, LastStep) : AddStep(op)
  <2>1. PICK op : AddStep(op)  BY <1>1
  <2>2. plan' = Extended(plan, op) /\ status' = "writing"  BY <2>1 DEF AddStep
  <2>3. DOMAIN plan' = 0 .. (NumSteps + 1) - 1  BY <2>2, ExtendedBy DEF ShapeInv
  <2>4. NumSteps' = NumSteps + 1  BY <2>3, CountBelow DEF NumSteps, ShapeInv
  <2>5. NumSteps' <= MaxSteps  BY <2>1, <2>4, PlanRunAssumption DEF AddStep, ShapeInv
  <2> QED BY <2>2, <2>3, <2>4, <2>5 DEF ShapeInv, LetThrough
<1>2. CASE \E out \in 0 .. MaxSteps : Validate(out)
  <2>1. PICK out : Validate(out)  BY <1>2
  <2>2. /\ plan' = plan /\ output' = out
        /\ status' \in LetThrough => IsValid(out)
    BY <2>1 DEF Validate, LetThrough
  <2> QED BY <2>2 DEF ShapeInv, IsValid, NumSteps
<1>3. CASE RunStep
  <2>1. plan' = plan /\ output' = output /\ status = "running"
    BY <1>3 DEF RunStep, Finish, Fail
  <2> QED BY <2>1 DEF ShapeInv, NumSteps, LetThrough
<1>4. CASE UNCHANGED vars  BY <1>4 DEF vars, ShapeInv, NumSteps
<1> QED BY <1>1, <1>2, <1>3, <1>4 DEF PlanNext

\* Every plan that was let through has the shape that was checked.
LEMMA ShapeHolds == PlanSpec => []ShapeInv
<1>1. PlanInit => ShapeInv
  <2> SUFFICES ASSUME PlanInit PROVE ShapeInv  OBVIOUS
  <2>1. DOMAIN plan = 0 .. 0 - 1  BY DEF PlanInit
  <2>2. NumSteps = 0  BY <2>1, CountBelow DEF NumSteps
  <2> QED BY <2>1, <2>2, PlanRunAssumption DEF PlanInit, ShapeInv, LetThrough
<1> QED BY <1>1, ShapeKept, PTL DEF PlanSpec

\* Every plan that validation lets through, while it is written, runs or has
\* run, is one chain from a scan to its output (validate).
THEOREM ValidPlansChain == PlanSpec => []ValidPlansAreChains
<1>1. ShapeInv => ValidPlansAreChains
  BY WellShapedIsChained DEF ShapeInv, ValidPlansAreChains, LetThrough
<1> QED BY <1>1, ShapeHolds, PTL

\* What a value of a type is, wherever it comes from.
ValuesOfType(ty) ==
    CASE ty = "DictUtf8" -> Int
      [] ty = "Geo" -> Finite \X Finite
      [] OTHER -> CellValues(ty)

\* A datum of an expression of type t over a table of n rows, if the
\* evaluation was not stopped by an integer that does not fit.
Fits(d, n, t) ==
    \/ d = Overflow
    \/ /\ d = Scalar(d.lit) /\ IsLiteral(d.lit)
       /\ d.lit.ty = IF t.ty = "None" THEN "Null" ELSE t.ty
       /\ t.ty = "None" => t.nullable
    \/ /\ d = [d |-> "col", col |-> d.col] /\ IsColumnOf(d.col, n)
       /\ d.col.ty = t.ty
       /\ t.nullable \/ ~ HasMissing(d.col)

\* The types of columns are none of the marks for no type, and the values that
\* are sorted are numbers.
LEMMA TypesDiffer ==
    /\ "Geo" \notin SortableTypes /\ "Null" \notin SortableTypes \cup {"Geo"}
    /\ "None" \notin SortableTypes \cup {"Geo"}
    /\ \A ty \in SortableTypes :
          CellValues(ty) \subseteq Int /\ ValuesOfType(ty) \subseteq Int
BY NumberFacts DEF SortableTypes, CellValues, ValuesOfType, I64, Finite, U64

\* What a datum of a type holds in a row.
LEMMA FitsGet ==
    ASSUME NEW n \in Nat, NEW t, t.ty \in AnyType, NEW d, Fits(d, n, t), ~ Stops(d)
    PROVE  /\ TypeOfDatum(d) = t.ty
           /\ d.d \in {"col", "scalar"}
           /\ \A i \in 0 .. n - 1 :
                 /\ Get(d, i) \in ValuesOfType(t.ty) \cup {Missing}
                 /\ t.nullable \/ Get(d, i) # Missing
<1>1. t.ty # "None"  BY TypesDiffer DEF AnyType
<1>2. d # Overflow  BY DEF Stops, Overflow
<1>3. CASE d = Scalar(d.lit) /\ IsLiteral(d.lit) /\ d.lit.ty = t.ty
  <2>1. d.d = "scalar"  BY <1>3 DEF Scalar
  <2>2. d.lit.ty # "Null" /\ d.lit.ty \in SortableTypes
    BY <1>3, TypesDiffer DEF AnyType, IsLiteral
  <2>3. d.lit.v \in ValuesOfType(t.ty)
    BY <1>3, <2>2, TypesDiffer DEF IsLiteral, ValuesOfType
  <2>4. d.lit.v # Missing  BY <1>3, <2>2, <2>3, TypesDiffer, WordAssumption
  <2>5. \A i : Get(d, i) = d.lit.v  BY <2>1, <2>2 DEF Get
  <2> QED BY <1>3, <2>1, <2>3, <2>4, <2>5 DEF TypeOfDatum
<1>4. CASE /\ d = [d |-> "col", col |-> d.col] /\ IsColumnOf(d.col, n)
           /\ d.col.ty = t.ty /\ (t.nullable \/ ~ HasMissing(d.col))
  <2>1. d.d = "col"  BY <1>4
  <2>2. /\ d.col.cells \in [0 .. n - 1 -> CellsOf(d.col) \cup {Missing}]
        /\ d.col.dictionary \in Seq(Int)
    BY <1>4 DEF IsColumnOf
  <2>3. ASSUME NEW i \in 0 .. n - 1
        PROVE  /\ Get(d, i) \in ValuesOfType(t.ty) \cup {Missing}
               /\ t.nullable \/ Get(d, i) # Missing
    <3> DEFINE c == d.col.cells[i]
    <3>1. c \in CellsOf(d.col) \cup {Missing}  BY <2>2
    <3>2. c = Missing => HasMissing(d.col)
      BY <2>2 DEF HasMissing, IsPresent
    <3>3. CASE t.ty = "DictUtf8" /\ c # Missing
      <4>1. c \in 0 .. Len(d.col.dictionary) - 1  BY <1>4, <3>1, <3>3 DEF CellsOf
      <4>2. c + 1 \in 1 .. Len(d.col.dictionary)  BY <4>1, <2>2
      <4>3. Get(d, i) = d.col.dictionary[c + 1]  BY <1>4, <2>1, <3>3 DEF Get
      <4>4. Get(d, i) \in Int
        <5> HIDE DEF c
        <5> QED BY <4>2, <4>3, <2>2
      <4> QED BY <4>4, <3>3, WordAssumption DEF ValuesOfType
    <3>4. CASE t.ty = "DictUtf8" /\ c = Missing
      <4>1. Get(d, i) = c  BY <1>4, <2>1, <3>4 DEF Get
      <4> QED BY <4>1, <3>2, <3>4, <1>4
    <3>5. CASE t.ty # "DictUtf8"
      <4>1. Get(d, i) = c  BY <1>4, <2>1, <3>5 DEF Get
      <4>2. CellsOf(d.col) = ValuesOfType(t.ty)
        BY <1>4, <3>5 DEF CellsOf, ValuesOfType
      <4> QED BY <4>1, <4>2, <3>1, <3>2, <1>4
    <3> QED BY <3>3, <3>4, <3>5
  <2> QED BY <1>4, <2>1, <2>3 DEF TypeOfDatum
<1> QED BY <1>1, <1>2, <1>3, <1>4 DEF Fits

----------------------------------------------------------------------------
(* What expressions come to is of their types.                             *)

\* A column that an operator makes.
MadeOf(ty, cells) == [d |-> "col", col |-> NewColumn("", ty, cells, << >>)]

\* A column that was made of a type's values fits the type.
LEMMA MadeFits ==
    ASSUME NEW n \in Nat, NEW ty \in AnyType \ {"DictUtf8"}, NEW nullable \in BOOLEAN,
           NEW cells \in [0 .. n - 1 -> ValuesOfType(ty) \cup {Missing}],
           nullable \/ \A i \in 0 .. n - 1 : cells[i] # Missing
    PROVE  /\ Fits(MadeOf(ty, cells), n, ExprType(ty, nullable))
           /\ ~ Stops(MadeOf(ty, cells))
<1> DEFINE col == NewColumn("", ty, cells, << >>)
           d == MadeOf(ty, cells)
<1>1. /\ d.d = "col" /\ d.col = col /\ d = [d |-> "col", col |-> d.col]
      /\ col.ty = ty /\ col.cells = cells /\ col.dictionary = << >>
      /\ col = NewColumn(col.name, col.ty, col.cells, col.dictionary)
  BY DEF MadeOf, NewColumn
<1>2. << >> \in Seq(Int) /\ Len(<< >>) = 0 /\ 0 <= Half /\ DOMAIN << >> = {}
  BY NumberFacts
<1>3. CellsOf(col) = ValuesOfType(ty)  BY <1>1 DEF CellsOf, ValuesOfType
<1>4. IsColumnOf(col, n)
  <2> HIDE DEF col, d
  <2> QED BY <1>1, <1>2, <1>3 DEF IsColumnOf, AnyType
<1>5. nullable \/ ~ HasMissing(col)  BY <1>1 DEF HasMissing, IsPresent
<1>6. ExprType(ty, nullable).ty = ty /\ ExprType(ty, nullable).nullable = nullable
  BY RefusedType
<1> HIDE DEF col, d
<1>7. Fits(d, n, ExprType(ty, nullable))  BY <1>1, <1>4, <1>5, <1>6 DEF Fits
<1>8. ~ Stops(d)  BY <1>1 DEF Stops
<1> QED BY <1>7, <1>8 DEF d

\* An evaluation that overflows fits any type.
LEMMA OverflowFits == \A n, t : Fits(Overflow, n, t)
BY DEF Fits

\* What stops the evaluation of an expression that has a type is an overflow.
LEMMA StopsOverflow ==
    ASSUME NEW d, NEW n, NEW t, Fits(d, n, t), Stops(d)
    PROVE  d = Overflow
BY DEF Fits, Stops, Scalar

\* Truth is 0 or 1.
LEMMA TruthIsBool == \A b : OfTruth(b) \in {0, 1}
BY DEF OfTruth

\* The values of a Boolean column are 0 and 1.
LEMMA BoolValues == ValuesOfType("Bool") = {0, 1} /\ "Bool" \in AnyType \ {"DictUtf8"}
BY DEF ValuesOfType, CellValues, AnyType, SortableTypes

\* Every comparison answers less, equal or greater.
LEMMA OrdersAreNumbers ==
    /\ \A x, y : OrderOf(x, y) \in {-1, 0, 1}
    /\ \A dictionary, code, s : CodeToText(dictionary, code, s) \in {-1, 0, 1}
    /\ \A x, bits : IntegerToDecimal(x, bits) \in {-1, 0, 1}
    /\ \A tx, ty \in {"I64", "F64"} : \A x, y : CompareNumbers(tx, x, ty, y) \in {-1, 0, 1}
<1>1. \A x, y : OrderOf(x, y) \in {-1, 0, 1}  BY DEF OrderOf
<1>2. \A dictionary, code, s : CodeToText(dictionary, code, s) \in {-1, 0, 1}
  BY DEF CodeToText
<1>3. \A x, bits : IntegerToDecimal(x, bits) \in {-1, 0, 1}
  BY <1>1 DEF IntegerToDecimal
<1>4. ASSUME NEW tx \in {"I64", "F64"}, NEW ty \in {"I64", "F64"}, NEW x, NEW y
      PROVE  CompareNumbers(tx, x, ty, y) \in {-1, 0, 1}
  <2>1. CASE tx = "I64" /\ ty = "I64"  BY <1>1, <2>1 DEF CompareNumbers
  <2>2. CASE tx = "F64" /\ ty = "F64"  BY <1>1, <2>2 DEF CompareNumbers
  <2>3. CASE tx = "I64" /\ ty = "F64"  BY <1>3, <2>3 DEF CompareNumbers
  <2>4. CASE tx = "F64" /\ ty = "I64"
    <3>1. CompareNumbers(tx, x, ty, y) = - IntegerToDecimal(y, x)
      BY <2>4 DEF CompareNumbers
    <3>2. IntegerToDecimal(y, x) \in {-1, 0, 1}  BY <1>3
    <3> QED BY <3>1, <3>2
  <2> QED BY <2>1, <2>2, <2>3, <2>4
<1> QED BY <1>1, <1>2, <1>3, <1>4

\* The type of a comparison, and what it is compared to be.
EitherNull(ta, tb) == ExprType("Bool", ta.nullable \/ tb.nullable)

ComparesTo(d, op, a, ta, b, tb, n) ==
    /\ ~ Stops(d) /\ d.d = "col" /\ d.col.ty = "Bool"
    /\ \A i \in 0 .. n - 1 :
          d.col.cells[i] =
             IF Get(a, i) = Missing \/ Get(b, i) = Missing THEN Missing
             ELSE OfTruth(OpHolds(op, OrderAt(a, ta.ty, b, tb.ty, i)))

\* Comparable operands are compared; the result is missing only where one is.
LEMMA CompareFits ==
    ASSUME NEW n \in Nat, NEW t, t.len = n, NEW op,
           NEW ta, ta.ty \in AnyType, ta.nullable \in BOOLEAN,
           NEW tb, tb.ty \in AnyType, tb.nullable \in BOOLEAN,
           Comparable(ta.ty, tb.ty),
           NEW a, Fits(a, n, ta), ~ Stops(a), NEW b, Fits(b, n, tb), ~ Stops(b)
    PROVE  LET d == CompareDatums(t, op, a, ta.ty, b, tb.ty)
           IN  Fits(d, n, EitherNull(ta, tb)) /\ ComparesTo(d, op, a, ta, b, tb, n)
<1> DEFINE cells == [i \in 0 .. n - 1 |->
               LET ord == OrderAt(a, ta.ty, b, tb.ty, i)
               IN  IF ord = Missing THEN Missing ELSE OfTruth(OpHolds(op, ord))]
           d == CompareDatums(t, op, a, ta.ty, b, tb.ty)
<1>1. TypeOfDatum(a) = ta.ty /\ TypeOfDatum(b) = tb.ty  BY FitsGet
<1>2. {TypeOfDatum(a), TypeOfDatum(b)} \subseteq GetterTypes(ta.ty, tb.ty)
  BY <1>1 DEF GetterTypes, Comparable, IsNumeric
<1>3. d = MadeOf("Bool", cells)
  BY <1>2 DEF CompareDatums, Col, MadeOf, RowsOf
<1>4. ASSUME NEW i \in 0 .. n - 1
      PROVE  LET x == Get(a, i)
                 y == Get(b, i)
                 ord == OrderAt(a, ta.ty, b, tb.ty, i)
             IN  /\ (x = Missing \/ y = Missing) => ord = Missing
                 /\ (x # Missing /\ y # Missing) => ord # Missing
  <2> DEFINE x == Get(a, i)
             y == Get(b, i)
             ord == OrderAt(a, ta.ty, b, tb.ty, i)
  <2>1. (x = Missing \/ y = Missing) => ord = Missing  BY DEF OrderAt
  <2>2. ASSUME x # Missing, y # Missing PROVE ord \in {-1, 0, 1}
    <3>1. CASE ta.ty = "DictUtf8" /\ a.d = "col" /\ b.d = "scalar"
      <4>1. ord = CodeToText(a.col.dictionary, a.col.cells[i], y)
        BY <2>2, <3>1 DEF OrderAt
      <4> QED BY <4>1, OrdersAreNumbers
    <3>2. CASE ta.ty = "DictUtf8" /\ a.d = "scalar" /\ b.d = "col"
      <4>1. ord = - CodeToText(b.col.dictionary, b.col.cells[i], x)
        BY <2>2, <3>2 DEF OrderAt
      <4> HIDE DEF ord, x, y
      <4>2. CodeToText(b.col.dictionary, b.col.cells[i], x) \in {-1, 0, 1}
        BY OrdersAreNumbers
      <4> QED BY <4>1, <4>2
    <3>3. CASE ta.ty # "DictUtf8" /\ "F64" \in {ta.ty, tb.ty}
      <4>1. ord = CompareNumbers(ta.ty, x, tb.ty, y)
        BY <1>1, <2>2, <3>3 DEF OrderAt
      <4>2. ta.ty \in {"I64", "F64"} /\ tb.ty \in {"I64", "F64"}
        BY <3>3 DEF Comparable, IsNumeric
      <4> HIDE DEF ord, x, y
      <4> QED BY <4>1, <4>2, OrdersAreNumbers
    <3>4. CASE /\ ~ (ta.ty = "DictUtf8" /\ a.d = "col" /\ b.d = "scalar")
               /\ ~ (ta.ty = "DictUtf8" /\ a.d = "scalar" /\ b.d = "col")
               /\ ~ (ta.ty # "DictUtf8" /\ "F64" \in {ta.ty, tb.ty})
      <4>1. ord = OrderOf(x, y)  BY <2>2, <3>4 DEF OrderAt
      <4> HIDE DEF ord, x, y
      <4> QED BY <4>1, OrdersAreNumbers
    <3> QED BY <3>1, <3>2, <3>3, <3>4
  <2>3. (x # Missing /\ y # Missing) => ord # Missing
    <3> HIDE DEF x, y, ord
    <3> QED BY <2>2, WordAssumption
  <2> QED BY <2>1, <2>3
<1>5. \A i \in 0 .. n - 1 :
        cells[i] = IF Get(a, i) = Missing \/ Get(b, i) = Missing THEN Missing
                   ELSE OfTruth(OpHolds(op, OrderAt(a, ta.ty, b, tb.ty, i)))
  BY <1>4
<1>6. cells \in [0 .. n - 1 -> ValuesOfType("Bool") \cup {Missing}]
  BY TruthIsBool, BoolValues
<1>7. (ta.nullable \/ tb.nullable) \/ \A i \in 0 .. n - 1 : cells[i] # Missing
  <2> SUFFICES ASSUME ~ ta.nullable, ~ tb.nullable, NEW i \in 0 .. n - 1
               PROVE  cells[i] # Missing
    OBVIOUS
  <2>1. Get(a, i) # Missing /\ Get(b, i) # Missing
    BY FitsGet
  <2>2. OfTruth(OpHolds(op, OrderAt(a, ta.ty, b, tb.ty, i))) # Missing
    BY TruthIsBool, WordAssumption
  <2> HIDE DEF cells
  <2> QED BY <1>5, <2>1, <2>2
<1>8. MadeOf("Bool", cells).d = "col" /\ MadeOf("Bool", cells).col.ty = "Bool"
      /\ MadeOf("Bool", cells).col.cells = cells
  BY DEF MadeOf, NewColumn
<1> DEFINE nullable == ta.nullable \/ tb.nullable
<1>9. Fits(d, n, ExprType("Bool", nullable)) /\ ~ Stops(d)
  <2>1. nullable \in BOOLEAN  OBVIOUS
  <2> HIDE DEF cells, d, nullable
  <2> QED BY <1>3, <1>6, <1>7, <2>1, BoolValues, MadeFits DEF nullable
<1>10. Fits(d, n, EitherNull(ta, tb))  BY <1>9 DEF EitherNull
<1>11. ComparesTo(d, op, a, ta, b, tb, n)
  <2> HIDE DEF cells, d
  <2> QED BY <1>3, <1>5, <1>8, <1>9 DEF ComparesTo
<1> QED BY <1>10, <1>11

\* Arithmetic that has a type has a value, or overflows.
LEMMA ArithFits ==
    ASSUME NEW n \in Nat, NEW t, t.len = n, NEW op \in {"add", "sub", "mul", "div"},
           NEW ta, ta.ty \in AnyType, ta.nullable \in BOOLEAN,
           NEW tb, tb.ty \in AnyType, tb.nullable \in BOOLEAN,
           ArithType(op, ta.ty, tb.ty) # "None",
           NEW a, Fits(a, n, ta), ~ Stops(a), NEW b, Fits(b, n, tb), ~ Stops(b)
    PROVE  LET ty == ArithType(op, ta.ty, tb.ty)
           IN  Fits(ArithDatums(t, op, a, ta.ty, b, tb.ty), n,
                    ExprType(ty, ArithNullable(ta, tb, ty)))
<1> DEFINE out == ArithType(op, ta.ty, tb.ty)
           types == IF out = "F64" THEN {"I64", "F64"} ELSE {"I64", "Timestamp"}
           Value(i) ==
             LET x == Get(a, i)
                 y == Get(b, i)
             IN  IF x = Missing \/ y = Missing THEN Missing
                 ELSE IF out = "F64"
                 THEN DecimalOp(op, AsF64(TypeOfDatum(a), x), AsF64(TypeOfDatum(b), y))
                 ELSE IntegerOp(op, x, y)
           cells == [i \in 0 .. n - 1 |-> Value(i)]
           d == ArithDatums(t, op, a, ta.ty, b, tb.ty)
           nullable == ArithNullable(ta, tb, out)
<1>1. TypeOfDatum(a) = ta.ty /\ TypeOfDatum(b) = tb.ty  BY FitsGet
<1>2. /\ {ta.ty, tb.ty} \subseteq types
      /\ out \in {"I64", "F64", "Timestamp"}
      /\ out # "F64" => op \in {"add", "sub", "mul"}
  BY DEF ArithType, IsNumeric
<1>3. d = IF out # "F64" /\ \E i \in 0 .. n - 1 : cells[i] # Missing /\ cells[i] \notin I64
          THEN Overflow ELSE MadeOf(out, cells)
  <2>1. {TypeOfDatum(a), TypeOfDatum(b)} \subseteq types  BY <1>1, <1>2
  <2>2. d = IF out # "F64" /\ \E i \in RowsOf(t) : Value(i) # Missing /\ Value(i) \notin I64
            THEN Overflow ELSE Col(t, out, Value)
    BY <2>1 DEF ArithDatums
  <2>3. Col(t, out, Value) = MadeOf(out, cells)  BY DEF Col, MadeOf, RowsOf
  <2>4. (\E i \in RowsOf(t) : Value(i) # Missing /\ Value(i) \notin I64)
          <=> \E i \in 0 .. n - 1 : cells[i] # Missing /\ cells[i] \notin I64
    BY DEF RowsOf
  <2> HIDE DEF Value, cells, d, out
  <2> QED BY <2>2, <2>3, <2>4
<1>4. CASE d = Overflow  BY <1>4, OverflowFits
<1>5. CASE d # Overflow
  <2>1. d = MadeOf(out, cells)
    <3> HIDE DEF d, cells, out
    <3> QED BY <1>3, <1>5
  <2>2. ASSUME out # "F64", NEW i \in 0 .. n - 1
        PROVE  cells[i] = Missing \/ cells[i] \in I64
    <3> HIDE DEF cells, d, out
    <3> QED BY <1>3, <1>5, <2>2
  <2>3. ASSUME out = "F64", NEW i \in 0 .. n - 1
        PROVE  cells[i] \in Finite \cup {Missing}
    <3>1. cells[i] = IF Get(a, i) = Missing \/ Get(b, i) = Missing THEN Missing
                     ELSE DecimalOp(op, AsF64(TypeOfDatum(a), Get(a, i)),
                                    AsF64(TypeOfDatum(b), Get(b, i)))
      BY <2>3
    <3> HIDE DEF cells
    <3> QED BY <3>1, DecimalOps
  <2>4. cells \in [0 .. n - 1 -> ValuesOfType(out) \cup {Missing}]
    <3>1. ValuesOfType(out) = IF out = "F64" THEN Finite ELSE I64
      <4> HIDE DEF out
      <4> QED BY <1>2 DEF ValuesOfType, CellValues
    <3>2. \A i \in 0 .. n - 1 : cells[i] \in ValuesOfType(out) \cup {Missing}
      <4> HIDE DEF cells, out
      <4> QED BY <2>2, <2>3, <3>1
    <3> HIDE DEF Value, out
    <3> QED BY <3>2
  <2>5. nullable \/ \A i \in 0 .. n - 1 : cells[i] # Missing
    <3> SUFFICES ASSUME ~ nullable, NEW i \in 0 .. n - 1 PROVE cells[i] # Missing
      OBVIOUS
    <3>1. ~ ta.nullable /\ ~ tb.nullable /\ out # "F64"  BY DEF ArithNullable
    <3>2. ta.ty \in SortableTypes /\ tb.ty \in SortableTypes
      BY <1>2, <3>1 DEF SortableTypes
    <3>3. /\ Get(a, i) \in ValuesOfType(ta.ty) \cup {Missing} /\ Get(a, i) # Missing
          /\ Get(b, i) \in ValuesOfType(tb.ty) \cup {Missing} /\ Get(b, i) # Missing
      BY <3>1, <3>2, FitsGet
    <3>4. Get(a, i) \in Int /\ Get(b, i) \in Int  BY <3>2, <3>3, TypesDiffer
    <3>5. cells[i] = IntegerOp(op, Get(a, i), Get(b, i))  BY <3>1, <3>3
    <3>6. IntegerOp(op, Get(a, i), Get(b, i)) \in Int
      <4> DEFINE x == Get(a, i)
                 y == Get(b, i)
      <4> HIDE DEF x, y, out
      <4>1. x \in Int /\ y \in Int  BY <3>4 DEF x, y
      <4>2. IntegerOp(op, x, y) \in Int  BY <4>1, <3>1, <1>2 DEF IntegerOp
      <4> QED BY <4>2 DEF x, y
    <3> HIDE DEF cells
    <3> QED BY <3>5, <3>6, WordAssumption
  <2>6. nullable \in BOOLEAN  BY DEF ArithNullable
  <2>7. out \in AnyType \ {"DictUtf8"}  BY <1>2 DEF AnyType, SortableTypes
  <2> HIDE DEF d, cells, out, nullable
  <2> QED BY <2>1, <2>4, <2>5, <2>6, <2>7, MadeFits DEF d, out, nullable
<1> QED BY <1>4, <1>5

\* Three-valued logic has no fourth value, and loses no value it was given.
LEMMA KleeneValues ==
    ASSUME NEW values, values \subseteq {0, 1, Missing}, NEW deciding \in {0, 1}
    PROVE  /\ Kleene(values, deciding) \in {0, 1, Missing}
           /\ Missing \notin values => Kleene(values, deciding) # Missing
BY WordAssumption DEF Kleene

\* The type of an `and` or an `or`, and what it is evaluated to.
AnyNull(ts, m) == ExprType("Bool", \E k \in 1 .. m : ts[k].nullable)

Decides(d, datums, m, deciding, n) ==
    /\ d.d = "col" /\ d.col.ty = "Bool"
    /\ \A k \in 1 .. m : ~ Stops(datums[k])
    /\ \A i \in 0 .. n - 1 :
          d.col.cells[i] = Kleene({Get(datums[k], i) : k \in 1 .. m}, deciding)

\* A conjunction or disjunction of Booleans is one, decided row by row.
LEMMA LogicFits ==
    ASSUME NEW n \in Nat, NEW t, t.len = n, NEW m \in Nat, NEW deciding \in {0, 1},
           NEW datums, DOMAIN datums = 1 .. m, NEW ts,
           \A k \in 1 .. m : /\ ts[k].ty = "Bool" /\ ts[k].nullable \in BOOLEAN
                             /\ Fits(datums[k], n, ts[k])
    PROVE  LET d == EvalLogic(t, datums, deciding)
           IN  /\ Fits(d, n, AnyNull(ts, m))
               /\ Stops(d) \/ Decides(d, datums, m, deciding, n)
<1> DEFINE stops == {k \in DOMAIN datums : Stops(datums[k])}
           d == EvalLogic(t, datums, deciding)
           nullable == \E k \in 1 .. m : ts[k].nullable
           cells == [i \in 0 .. n - 1 |->
                        Kleene({Get(datums[k], i) : k \in 1 .. m}, deciding)]
<1>1. CASE stops # {}
  <2> DEFINE k == CHOOSE k \in stops : \A j \in stops : k <= j
  <2>1. stops \in SUBSET Nat  OBVIOUS
  <2>2. \E j \in stops : \A i \in stops : j <= i
    <3> HIDE DEF stops
    <3> QED BY <1>1, <2>1, LeastElement
  <2>3. k \in stops  BY <2>2
  <2>4. d = datums[k]  BY <1>1 DEF EvalLogic
  <2> HIDE DEF k, d
  <2>5. d = Overflow  BY <2>3, <2>4, StopsOverflow
  <2>6. Stops(d)  BY <2>5 DEF Stops, Overflow
  <2> QED BY <2>5, <2>6, OverflowFits DEF d
<1>2. CASE stops = {}
  <2>1. \A k \in 1 .. m : ~ Stops(datums[k])  BY <1>2
  <2>2. \A k \in 1 .. m : ts[k].ty \in AnyType  BY BoolValues
  <2>3. \A k \in 1 .. m : TypeOfDatum(datums[k]) = "Bool"
    BY <2>1, <2>2, FitsGet
  <2>4. d = MadeOf("Bool", cells)
    BY <1>2, <2>3 DEF EvalLogic, Booleans, Col, MadeOf, RowsOf
  <2>5. ASSUME NEW i \in 0 .. n - 1
        PROVE  LET values == {Get(datums[k], i) : k \in 1 .. m}
               IN  /\ values \subseteq {0, 1, Missing}
                   /\ ~ nullable => Missing \notin values
    <3>1. ASSUME NEW k \in 1 .. m
          PROVE  /\ Get(datums[k], i) \in {0, 1, Missing}
                 /\ ~ nullable => Get(datums[k], i) # Missing
      <4> DEFINE u == ts[k]
                 x == datums[k]
      <4>1. u.ty \in AnyType /\ Fits(x, n, u) /\ ~ Stops(x) /\ u.ty = "Bool"
            /\ (~ nullable => ~ u.nullable)
        BY <2>1, <2>2
      <4> HIDE DEF u, x, nullable
      <4>2. /\ Get(x, i) \in ValuesOfType(u.ty) \cup {Missing}
            /\ u.nullable \/ Get(x, i) # Missing
        BY <4>1, FitsGet
      <4> QED BY <4>1, <4>2, BoolValues DEF x
    <3> QED BY <3>1
  <2>6. ASSUME NEW i \in 0 .. n - 1
        PROVE  cells[i] \in {0, 1, Missing} /\ (~ nullable => cells[i] # Missing)
    <3> DEFINE values == {Get(datums[k], i) : k \in 1 .. m}
    <3>1. cells[i] = Kleene(values, deciding)  OBVIOUS
    <3>2. values \subseteq {0, 1, Missing} /\ (~ nullable => Missing \notin values)
      BY <2>5
    <3> HIDE DEF cells, values, nullable
    <3> QED BY <3>1, <3>2, KleeneValues
  <2>7. cells \in [0 .. n - 1 -> ValuesOfType("Bool") \cup {Missing}]
    <3>1. \A i \in 0 .. n - 1 : cells[i] \in ValuesOfType("Bool") \cup {Missing}
      <4> HIDE DEF cells
      <4> QED BY <2>6, BoolValues
    <3> QED BY <3>1
  <2>8. /\ MadeOf("Bool", cells).d = "col" /\ MadeOf("Bool", cells).col.ty = "Bool"
        /\ MadeOf("Bool", cells).col.cells = cells
    BY DEF MadeOf, NewColumn
  <2>9. Fits(d, n, ExprType("Bool", nullable)) /\ ~ Stops(d)
    <3>1. nullable \in BOOLEAN  OBVIOUS
    <3>2. nullable \/ \A i \in 0 .. n - 1 : cells[i] # Missing
      <4> HIDE DEF cells, nullable
      <4> QED BY <2>6
    <3> HIDE DEF cells, d, nullable
    <3> QED BY <2>4, <2>7, <3>1, <3>2, BoolValues, MadeFits
  <2>10. \A i \in 0 .. n - 1 :
           cells[i] = Kleene({Get(datums[k], i) : k \in 1 .. m}, deciding)
    OBVIOUS
  <2>11. Fits(d, n, AnyNull(ts, m))  BY <2>9 DEF AnyNull
  <2>12. Decides(d, datums, m, deciding, n)
    <3> HIDE DEF d, cells
    <3> QED BY <2>1, <2>4, <2>8, <2>10 DEF Decides
  <2> QED BY <2>11, <2>12
<1> QED BY <1>1, <1>2

\* A value of every value of an operand.
LEMMA EachFits ==
    ASSUME NEW n \in Nat, NEW ta, ta.ty \in AnyType, ta.nullable \in BOOLEAN,
           NEW d, Fits(d, n, ta), ~ Stops(d),
           NEW out \in AnyType \ {"DictUtf8"},
           NEW f, \A v \in ValuesOfType(ta.ty) : f[v] \in ValuesOfType(out) \ {Missing}
    PROVE  LET cells == [i \in 0 .. n - 1 |-> IF Get(d, i) = Missing THEN Missing
                                              ELSE f[Get(d, i)]]
           IN  Fits(MadeOf(out, cells), n, ExprType(out, ta.nullable))
<1> DEFINE cells == [i \in 0 .. n - 1 |-> IF Get(d, i) = Missing THEN Missing
                                          ELSE f[Get(d, i)]]
           nullable == ta.nullable
<1>1. \A i \in 0 .. n - 1 : /\ Get(d, i) \in ValuesOfType(ta.ty) \cup {Missing}
                            /\ nullable \/ Get(d, i) # Missing
  BY FitsGet
<1>2. \A i \in 0 .. n - 1 : /\ cells[i] \in ValuesOfType(out) \cup {Missing}
                            /\ nullable \/ cells[i] # Missing
  BY <1>1
<1>3. cells \in [0 .. n - 1 -> ValuesOfType(out) \cup {Missing}]  BY <1>2
<1>4. nullable \in BOOLEAN  OBVIOUS
<1>5. nullable \/ \A i \in 0 .. n - 1 : cells[i] # Missing  BY <1>2
<1> HIDE DEF cells, nullable
<1> QED BY <1>3, <1>4, <1>5, MadeFits DEF cells, nullable

\* Columns that Table::new accepts, each of which is sound.
GoodColumns(schema, columns) ==
    /\ IsList(columns) /\ MatchesSchema(schema, columns)
    /\ LenOf(columns) \in 0 .. Half - 1
    /\ \A k \in DOMAIN columns : IsColumnOf(columns[k], LenOf(columns))

GoodTable(t) ==
    /\ t = [schema |-> t.schema, columns |-> t.columns, len |-> LenOf(t.columns)]
    /\ t.schema \in Seq(SchemaFields)
    /\ GoodColumns(t.schema, t.columns)

\* A table is as long as its columns, and shorter than numbers go.
LEMMA TableLen ==
    ASSUME NEW t, GoodTable(t)
    PROVE  t.len = LenOf(t.columns) /\ t.len \in Nat /\ t.len < Half
<1>1. t.len = LenOf(t.columns)  BY DEF GoodTable
<1>2. LenOf(t.columns) \in 0 .. Half - 1  BY DEF GoodTable, GoodColumns
<1> QED BY <1>1, <1>2, NumberFacts

\* A column that is there fits its field.
LEMMA ColumnFits ==
    ASSUME NEW t, GoodTable(t), NEW name \in FieldNames(t.schema)
    PROVE  LET col == ColumnOf(t, name)
               f == Field(t.schema, name)
           IN  /\ IndexOf(t.schema, name) \in DOMAIN t.columns
               /\ IsColumnOf(col, t.len)
               /\ col.name = name /\ col.ty = f.ty /\ f.ty \in AnyType
               /\ f.nullable \in BOOLEAN
               /\ f.nullable \/ ~ HasMissing(col)
               /\ Fits([d |-> "col", col |-> col], t.len, ExprType(f.ty, f.nullable))
<1> DEFINE col == ColumnOf(t, name)
           f == Field(t.schema, name)
           k == IndexOf(t.schema, name)
<1>1. k \in DOMAIN t.schema /\ f \in SchemaFields /\ f.name = name /\ f = t.schema[k]
  BY FieldFound DEF GoodTable, Field
<1>2. col = t.columns[k]  BY DEF ColumnOf
<1>3. /\ DOMAIN t.columns = DOMAIN t.schema
      /\ col.name = f.name /\ col.ty = f.ty /\ IsColumnOf(col, t.len)
      /\ f.nullable \/ ~ HasMissing(col)
  BY <1>1, <1>2, TableLen DEF GoodTable, GoodColumns, MatchesSchema
<1>4. f.ty \in AnyType /\ f.nullable \in BOOLEAN  BY <1>1 DEF SchemaFields, AnyType
<1>5. Fits([d |-> "col", col |-> col], t.len, ExprType(f.ty, f.nullable))
  <2> HIDE DEF col, f, k
  <2> QED BY <1>3, RefusedType DEF Fits
<1> QED BY <1>1, <1>3, <1>4, <1>5

\* A literal fits its type.
LEMMA LiteralFits ==
    ASSUME NEW n, NEW lit, IsLiteral(lit)
    PROVE  Fits(Scalar(lit), n, IF lit.ty = "Null" THEN ExprType("None", TRUE)
                                ELSE ExprType(lit.ty, FALSE))
<1>1. Scalar(lit).lit = lit /\ Scalar(lit) = Scalar(Scalar(lit).lit)  BY DEF Scalar
<1>2. lit.ty # "Null" => lit.ty # "None"
  BY TypesDiffer DEF IsLiteral
<1>3. CASE lit.ty = "Null"  BY <1>1, <1>3, RefusedType DEF Fits
<1>4. CASE lit.ty # "Null"
  <2> DEFINE t == ExprType(lit.ty, FALSE)
  <2>1. t.ty = lit.ty /\ t.ty # "None"  BY <1>2, <1>4, RefusedType
  <2> HIDE DEF t
  <2>2. Fits(Scalar(lit), n, t)  BY <1>1, <2>1 DEF Fits
  <2> QED BY <1>4, <2>2 DEF t
<1> QED BY <1>3, <1>4

\* A value is in a list of literals: as the strings are, or as `eq` has it.
InList(e, d, ta, i) ==
    \E k \in DOMAIN e.values :
        IF d.d = "col" /\ d.col.ty = "DictUtf8" THEN Get(d, i) = e.values[k].v
        ELSE OpHolds("eq", OrderAt(d, ta.ty, Scalar(e.values[k]), e.values[k].ty, i))

SaysListed(z, e, d, ta, n) ==
    /\ z.d = "col" /\ z.col.ty = "Bool"
    /\ \A i \in 0 .. n - 1 :
          z.col.cells[i] = IF Get(d, i) = Missing THEN Missing
                           ELSE OfTruth(InList(e, d, ta, i))

\* A value is in a list, or is not, or is missing.
LEMMA InFits ==
    ASSUME NEW t, NEW n \in Nat, t.len = n, NEW e \in Exprs, e.x = "in",
           NEW ta, ta = Typed(e.a, t.schema), ta.ok, ta.ty \in AnyType,
           ta.nullable \in BOOLEAN, e.values # << >>,
           \A k \in DOMAIN e.values : Comparable(ta.ty, e.values[k].ty),
           NEW d, Fits(d, n, ta), ~ Stops(d)
    PROVE  LET z == EvalIn(t, e, d)
           IN  /\ Fits(z, n, ExprType("Bool", ta.nullable)) /\ ~ Stops(z)
               /\ SaysListed(z, e, d, ta, n)
<1> DEFINE z == EvalIn(t, e, d)
           text == d.d = "col" /\ d.col.ty = "DictUtf8"
           Listed(i) == \E k \in DOMAIN e.values :
                           IF text THEN Get(d, i) = e.values[k].v
                           ELSE OpHolds("eq", OrderAt(d, ta.ty, Scalar(e.values[k]),
                                                      e.values[k].ty, i))
           cells == [i \in 0 .. n - 1 |-> IF Get(d, i) = Missing THEN Missing
                                          ELSE OfTruth(Listed(i))]
<1>1. z = MadeOf("Bool", cells)
  <2>1. CASE text
    <3>1. z = Col(t, "Bool", LAMBDA i :
                    IF d.col.cells[i] = Missing THEN Missing
                    ELSE OfTruth(d.col.dictionary[d.col.cells[i] + 1]
                                    \in {e.values[k].v : k \in DOMAIN e.values}))
      BY <2>1 DEF EvalIn, EvalListed
    <3>2. ASSUME NEW i \in 0 .. n - 1
          PROVE  cells[i] = IF d.col.cells[i] = Missing THEN Missing
                    ELSE OfTruth(d.col.dictionary[d.col.cells[i] + 1]
                                    \in {e.values[k].v : k \in DOMAIN e.values})
      <4>1. CASE d.col.cells[i] = Missing
        <5>1. Get(d, i) = Missing  BY <2>1, <4>1 DEF Get
        <5> QED BY <4>1, <5>1
      <4>2. CASE d.col.cells[i] # Missing
        <5>1. Get(d, i) = d.col.dictionary[d.col.cells[i] + 1]  BY <2>1, <4>2 DEF Get
        <5>2. Get(d, i) \in Int
          <6>1. /\ d.col.dictionary \in Seq(Int)
                /\ d.col.cells[i] \in CellsOf(d.col) \cup {Missing}
            BY <2>1 DEF Fits, IsColumnOf, Overflow, Scalar
          <6>2. d.col.cells[i] \in 0 .. Len(d.col.dictionary) - 1
            BY <2>1, <4>2, <6>1 DEF CellsOf
          <6> QED BY <5>1, <6>1, <6>2
        <5>3. Get(d, i) # Missing  BY <5>2, WordAssumption
        <5>4. Listed(i) <=> Get(d, i) \in {e.values[k].v : k \in DOMAIN e.values}
          BY <2>1
        <5>5. cells[i] = OfTruth(Listed(i))  BY <5>3
        <5> HIDE DEF Listed, cells
        <5> QED BY <4>2, <5>1, <5>4, <5>5 DEF OfTruth
      <4> QED BY <4>1, <4>2
    <3>3. cells = [i \in 0 .. n - 1 |-> IF d.col.cells[i] = Missing THEN Missing
                    ELSE OfTruth(d.col.dictionary[d.col.cells[i] + 1]
                                    \in {e.values[k].v : k \in DOMAIN e.values})]
      <4> DEFINE c == cells
      <4>1. c = [i \in 0 .. n - 1 |-> c[i]]  OBVIOUS
      <4>2. \A i \in 0 .. n - 1 :
              c[i] = IF d.col.cells[i] = Missing THEN Missing
                     ELSE OfTruth(d.col.dictionary[d.col.cells[i] + 1]
                                    \in {e.values[k].v : k \in DOMAIN e.values})
        BY <3>2
      <4> HIDE DEF c
      <4> QED BY <4>1, <4>2 DEF c
    <3> HIDE DEF z, cells
    <3> QED BY <3>1, <3>3 DEF Col, MadeOf, RowsOf
  <2>2. CASE ~ text
    <3> DEFINE parts == [k \in DOMAIN e.values |->
                    CompareDatums(t, "eq", d, ta.ty, Scalar(e.values[k]),
                                  e.values[k].ty)]
    <3>1. ASSUME NEW k \in DOMAIN e.values
          PROVE  /\ ~ Stops(parts[k])
                 /\ \A i \in 0 .. n - 1 : Get(parts[k], i) =
                      IF Get(d, i) = Missing THEN Missing
                      ELSE OfTruth(OpHolds("eq", OrderAt(d, ta.ty, Scalar(e.values[k]),
                                                         e.values[k].ty, i)))
      <4> DEFINE lit == e.values[k]
                 b == Scalar(lit)
                 tb == ExprType(lit.ty, FALSE)
                 c == CompareDatums(t, "eq", d, ta.ty, b, lit.ty)
      <4>1. IsLiteral(lit)  BY LiteralAssumption
      <4>2. Comparable(ta.ty, lit.ty)  OBVIOUS
      <4>3. lit.ty # "Null" /\ lit.ty \in AnyType
        BY <4>2 DEF Comparable, IsNumeric, AnyType, SortableTypes
      <4>4. tb.ty = lit.ty /\ tb.nullable = FALSE  BY RefusedType
      <4>5. Fits(b, n, tb) /\ ~ Stops(b)
        BY <4>1, <4>3, LiteralFits DEF Stops, Scalar
      <4>6. \A i \in 0 .. n - 1 : Get(b, i) # Missing
        BY <4>3, <4>4, <4>5, FitsGet
      <4> HIDE DEF b, lit, tb, c
      <4>7. /\ ~ Stops(c) /\ c.d = "col" /\ c.col.ty = "Bool"
            /\ \A i \in 0 .. n - 1 :
                  c.col.cells[i] =
                     IF Get(d, i) = Missing \/ Get(b, i) = Missing THEN Missing
                     ELSE OfTruth(OpHolds("eq", OrderAt(d, ta.ty, b, lit.ty, i)))
        <5> DEFINE y == CompareDatums(t, "eq", d, ta.ty, b, tb.ty)
        <5>1. tb.ty \in AnyType /\ tb.nullable \in BOOLEAN /\ Comparable(ta.ty, tb.ty)
          BY <4>2, <4>3, <4>4
        <5>2. ComparesTo(y, "eq", d, ta, b, tb, n)
          BY <5>1, <4>5, CompareFits
        <5>3. y = c  BY <4>4 DEF c
        <5> HIDE DEF y
        <5> QED BY <5>2, <5>3, <4>4 DEF ComparesTo
      <4>8. \A i \in 0 .. n - 1 : Get(c, i) = c.col.cells[i]
        BY <4>7 DEF Get
      <4>9. parts[k] = c  BY DEF c, b, lit
      <4> HIDE DEF parts
      <4> QED BY <4>6, <4>7, <4>8, <4>9 DEF b, lit
    <3>2. z = Col(t, "Bool", LAMBDA i :
                    Kleene({Get(parts[k], i) : k \in DOMAIN parts}, 1))
      <4>1. \A k \in DOMAIN parts : ~ Stops(parts[k])  BY <3>1
      <4> HIDE DEF parts
      <4>2. z = IF Stops(d) THEN d
                ELSE IF d.d = "col" /\ d.col.ty = "DictUtf8"
                THEN Col(t, "Bool", LAMBDA i :
                            IF d.col.cells[i] = Missing THEN Missing
                            ELSE OfTruth(d.col.dictionary[d.col.cells[i] + 1]
                                    \in {e.values[k].v : k \in DOMAIN e.values}))
                ELSE IF ~ ta.ok \/ \E k \in DOMAIN parts : Stops(parts[k]) THEN Panic
                ELSE Col(t, "Bool", LAMBDA i :
                            Kleene({Get(parts[k], i) : k \in DOMAIN parts}, 1))
        BY DEF EvalIn, EvalListed, parts
      <4> QED BY <4>1, <4>2, <2>2
    <3>3. ASSUME NEW i \in 0 .. n - 1
          PROVE  cells[i] = Kleene({Get(parts[k], i) : k \in DOMAIN parts}, 1)
      <4> DEFINE values == {Get(parts[k], i) : k \in DOMAIN parts}
      <4>0. DOMAIN parts = DOMAIN e.values /\ DOMAIN e.values # {}
        <5>1. IsList(e.values)  BY ExprAssumption
        <5>2. DOMAIN e.values = 1 .. Len(e.values) /\ Len(e.values) # 0
              /\ Len(e.values) \in Nat
          BY <5>1 DEF IsList
        <5>3. 1 \in DOMAIN e.values  BY <5>2
        <5> QED BY <5>3
      <4>1. CASE Get(d, i) = Missing
        <5>1. \A k \in DOMAIN parts : Get(parts[k], i) = Missing  BY <3>1, <4>1
        <5>2. values = {Missing}
          <6> HIDE DEF parts
          <6> QED BY <4>0, <5>1
        <5>3. Kleene(values, 1) = Missing
          <6> HIDE DEF values
          <6> QED BY <5>2, WordAssumption DEF Kleene
        <5> QED BY <4>1, <5>3
      <4>2. CASE Get(d, i) # Missing
        <5> DEFINE Eq(k) == OpHolds("eq", OrderAt(d, ta.ty, Scalar(e.values[k]),
                                                  e.values[k].ty, i))
        <5>1. \A k \in DOMAIN parts : Get(parts[k], i) = OfTruth(Eq(k))
          BY <3>1, <4>2
        <5>2. Listed(i) <=> \E k \in DOMAIN e.values : Eq(k)  BY <2>2
        <5>3. cells[i] = OfTruth(Listed(i))  BY <4>2
        <5> HIDE DEF Eq, Listed, cells, parts
        <5>4. values \subseteq {0, 1} /\ (1 \in values <=> Listed(i))
          BY <4>0, <5>1, <5>2 DEF OfTruth
        <5> HIDE DEF values
        <5>6. Missing \notin values
          <6>1. values \subseteq {0, 1}  BY <5>4
          <6>2. Missing # 0 /\ Missing # 1  BY WordAssumption
          <6> QED BY <6>1, <6>2, Zenon
        <5>5. Kleene(values, 1) = OfTruth(Listed(i))
          <6>1. CASE Listed(i)
            <7>1. 1 \in values  BY <5>4, <6>1
            <7>2. Kleene(values, 1) = 1  BY <7>1 DEF Kleene
            <7> QED BY <7>2, <6>1 DEF OfTruth
          <6>2. CASE ~ Listed(i)
            <7>1. 1 \notin values  BY <5>4, <6>2
            <7>2. Kleene(values, 1) = 0  BY <5>6, <7>1 DEF Kleene
            <7> QED BY <7>2, <6>2 DEF OfTruth
          <6> QED BY <6>1, <6>2
        <5> QED BY <5>3, <5>5 DEF values
      <4> QED BY <4>1, <4>2
    <3>4. cells = [i \in 0 .. n - 1 |->
                      Kleene({Get(parts[k], i) : k \in DOMAIN parts}, 1)]
      <4> DEFINE c == cells
      <4>1. c = [i \in 0 .. n - 1 |-> c[i]]  OBVIOUS
      <4>2. \A i \in 0 .. n - 1 :
              c[i] = Kleene({Get(parts[k], i) : k \in DOMAIN parts}, 1)
        BY <3>3
      <4> HIDE DEF c, parts
      <4> QED BY <4>1, <4>2 DEF c
    <3> HIDE DEF z, cells, parts
    <3> QED BY <3>2, <3>4 DEF Col, MadeOf, RowsOf
  <2> QED BY <2>1, <2>2
<1>2. \A i \in 0 .. n - 1 : ta.nullable \/ Get(d, i) # Missing  BY FitsGet
<1>3. \A i \in 0 .. n - 1 : /\ cells[i] \in ValuesOfType("Bool") \cup {Missing}
                            /\ ta.nullable \/ cells[i] # Missing
  <2> HIDE DEF Listed
  <2> QED BY <1>2, TruthIsBool, BoolValues, WordAssumption
<1>4. cells \in [0 .. n - 1 -> ValuesOfType("Bool") \cup {Missing}]
  <2> HIDE DEF Listed
  <2> QED BY <1>3
<1>5. /\ MadeOf("Bool", cells).d = "col" /\ MadeOf("Bool", cells).col.ty = "Bool"
      /\ MadeOf("Bool", cells).col.cells = cells
  BY DEF MadeOf, NewColumn
<1>6. \A i \in 0 .. n - 1 : cells[i] = IF Get(d, i) = Missing THEN Missing
                                       ELSE OfTruth(Listed(i))
  <2> HIDE DEF Listed
  <2> QED OBVIOUS
<1>7. Fits(z, n, ExprType("Bool", ta.nullable)) /\ ~ Stops(z)
  <2> HIDE DEF z, cells
  <2> QED BY <1>1, <1>3, <1>4, MadeFits, BoolValues
<1>8. \A i \in 0 .. n - 1 : Listed(i) <=> InList(e, d, ta, i)  BY DEF InList
<1>9. \A i \in 0 .. n - 1 : OfTruth(Listed(i)) = OfTruth(InList(e, d, ta, i))
  <2> HIDE DEF Listed
  <2> QED BY <1>8 DEF OfTruth
<1>10. SaysListed(z, e, d, ta, n)
  <2> HIDE DEF z, cells, Listed
  <2> QED BY <1>1, <1>5, <1>6, <1>9 DEF SaysListed
<1> HIDE DEF z
<1> QED BY <1>7, <1>10 DEF z

\* What an operand has to be is what it is typed as.
LEMMA Operand ==
    ASSUME NEW schema \in Seq(SchemaFields), NEW a \in Exprs
    PROVE  LET T == TypeOf(a, schema)
           IN  /\ Typed(a, schema) = Usable(T)
               /\ Usable(T).ok => /\ Usable(T) = T /\ T.ok /\ T.ty \in AnyType
                                  /\ T.nullable \in BOOLEAN
               /\ \A ty : UsableAs(T, ty).ok =>
                     /\ UsableAs(T, ty) = T /\ T.ok /\ T.ty = ty
                     /\ T.nullable \in BOOLEAN /\ Typed(a, schema) = T
<1> DEFINE T == TypeOf(a, schema)
<1>1. IsType(T)  BY TypesTyped
<1>2. Typed(a, schema) = Usable(T)  BY DEF Typed
<1> HIDE DEF T
<1>3. /\ Usable(T).ok => /\ Usable(T) = T /\ T.ok /\ T.ty \in AnyType
                         /\ T.nullable \in BOOLEAN
      /\ \A ty : UsableAs(T, ty).ok =>
            /\ UsableAs(T, ty) = T /\ T.ok /\ T.ty = ty
            /\ T.nullable \in BOOLEAN /\ Usable(T) = T
  BY <1>1, UsableTypes
<1> QED BY <1>2, <1>3 DEF T

\* The types of parts of an expression, and what they are evaluated to.
Parts(t, e, T, D) ==
    /\ T = TypesIn(t.schema) /\ D = DatumsIn(t)
    /\ \A a \in Inner(e) : T[a].ok => Fits(D[a], t.len, T[a])

\* A column that the schema has fits its field.
LEMMA ColumnExprFits ==
    ASSUME NEW t, GoodTable(t), NEW e \in Exprs, e.x = "column", NEW T, NEW D,
           Parts(t, e, T, D), TypeStep(e, t.schema, T).ok
    PROVE  Fits(EvalStep(e, t, D), t.len, TypeStep(e, t.schema, T))
<1>1. e.name \in FieldNames(t.schema)  BY RefusedType DEF TypeStep
<1>2. TypeStep(e, t.schema, T) = ExprType(Field(t.schema, e.name).ty,
                                          Field(t.schema, e.name).nullable)
  BY <1>1 DEF TypeStep
<1>3. EvalStep(e, t, D) = [d |-> "col", col |-> ColumnOf(t, e.name)]
  BY <1>1 DEF EvalStep, HasColumn
<1> QED BY <1>1, <1>2, <1>3, ColumnFits

\* A literal that has a type can be used.
LEMMA LiteralTyped ==
    ASSUME NEW e \in Exprs, e.x = "literal", NEW schema, NEW T,
           TypeStep(e, schema, T).ok
    PROVE  /\ IsLiteral(e.lit)
           /\ TypeStep(e, schema, T) = IF e.lit.ty = "Null" THEN ExprType("None", TRUE)
                                       ELSE ExprType(e.lit.ty, FALSE)
<1>1. ~ (e.lit.ty = "F64" /\ e.lit.v \notin Finite)
  BY RefusedType, TypesDiffer DEF TypeStep
<1>2. IsLiteral(e.lit)
  BY <1>1, LiteralAssumption, TypesDiffer DEF IsLiteral, CellValues, SortableTypes
<1> QED BY <1>1, <1>2 DEF TypeStep

\* A literal fits the type that is inferred for it.
LEMMA LiteralExprFits ==
    ASSUME NEW t, GoodTable(t), NEW e \in Exprs, e.x = "literal", NEW T, NEW D,
           TypeStep(e, t.schema, T).ok
    PROVE  Fits(EvalStep(e, t, D), t.len, TypeStep(e, t.schema, T))
<1>1. /\ IsLiteral(e.lit)
      /\ TypeStep(e, t.schema, T) = IF e.lit.ty = "Null" THEN ExprType("None", TRUE)
                                    ELSE ExprType(e.lit.ty, FALSE)
  BY LiteralTyped
<1>2. EvalStep(e, t, D) = Scalar(e.lit)  BY DEF EvalStep
<1>3. IsLiteral(e.lit)  BY <1>1
<1> QED BY <1>1, <1>2, <1>3, LiteralFits

\* Both operands of a comparison or of arithmetic that has a type have one.
LEMMA PairTypes ==
    ASSUME NEW t, GoodTable(t), NEW e \in Exprs, e.x \in {"compare", "arith"}, NEW T, NEW D,
           Parts(t, e, T, D), TypeStep(e, t.schema, T).ok
    PROVE  LET ta == T[e.a]
               tb == T[e.b]
           IN  /\ ta = Typed(e.a, t.schema) /\ tb = Typed(e.b, t.schema) /\ ta.ok /\ tb.ok
               /\ ta.ty \in AnyType /\ ta.nullable \in BOOLEAN
               /\ tb.ty \in AnyType /\ tb.nullable \in BOOLEAN
               /\ Fits(D[e.a], t.len, ta) /\ Fits(D[e.b], t.len, tb)
               /\ e.x = "compare" => /\ Comparable(ta.ty, tb.ty)
                                     /\ TypeStep(e, t.schema, T) = EitherNull(ta, tb)
               /\ e.x = "arith" =>
                     LET ty == ArithType(e.op, ta.ty, tb.ty)
                     IN  /\ ty # "None"
                         /\ TypeStep(e, t.schema, T)
                               = ExprType(ty, ArithNullable(ta, tb, ty))
<1>1. e.a \in Inner(e) /\ e.b \in Inner(e) /\ e.a \in Exprs /\ e.b \in Exprs
  <2>1. e.a \in Inner(e) /\ e.b \in Inner(e)  BY DEF Inner
  <2> QED BY <2>1, InnerIsShallower
<1> DEFINE ta == T[e.a]
           tb == T[e.b]
           ua == Usable(ta)
           ub == Usable(tb)
<1>2. /\ ta = TypeOf(e.a, t.schema) /\ tb = TypeOf(e.b, t.schema)
  BY DEF Parts, TypeOf
<1>3. /\ Typed(e.a, t.schema) = ua /\ Typed(e.b, t.schema) = ub
      /\ ua.ok => ua = ta /\ ta.ok /\ ta.ty \in AnyType /\ ta.nullable \in BOOLEAN
      /\ ub.ok => ub = tb /\ tb.ok /\ tb.ty \in AnyType /\ tb.nullable \in BOOLEAN
  BY <1>1, <1>2, Operand DEF GoodTable
<1>4. CASE e.x = "compare"
  <2>1. TypeStep(e, t.schema, T) = IF ua.ok /\ ub.ok /\ Comparable(ua.ty, ub.ty)
                                   THEN EitherNull(ua, ub) ELSE Refused
    BY <1>4 DEF TypeStep, EitherNull
  <2> HIDE DEF ta, tb, ua, ub
  <2>2. ua.ok /\ ub.ok /\ Comparable(ua.ty, ub.ty)  BY <2>1, RefusedType
  <2> QED BY <1>1, <1>3, <1>4, <2>1, <2>2 DEF Parts, ta, tb
<1>5. CASE e.x = "arith"
  <2> DEFINE ty == ArithType(e.op, ua.ty, ub.ty)
  <2>1. TypeStep(e, t.schema, T) = IF ua.ok /\ ub.ok /\ ty # "None"
                                   THEN ExprType(ty, ArithNullable(ua, ub, ty)) ELSE Refused
    BY <1>5 DEF TypeStep
  <2> HIDE DEF ta, tb, ua, ub
  <2>2. ua.ok /\ ub.ok /\ ty # "None"
    <3> HIDE DEF ty
    <3> QED BY <2>1, RefusedType
  <2> QED BY <1>1, <1>3, <1>5, <2>1, <2>2 DEF Parts, ta, tb
<1> QED BY <1>4, <1>5

\* A comparison of operands that fit fits its type.
LEMMA CompareExprFits ==
    ASSUME NEW t, GoodTable(t), NEW e \in Exprs, e.x = "compare", NEW T, NEW D,
           Parts(t, e, T, D), TypeStep(e, t.schema, T).ok
    PROVE  Fits(EvalStep(e, t, D), t.len, TypeStep(e, t.schema, T))
<1> DEFINE ta == T[e.a]
           tb == T[e.b]
           a == D[e.a]
           b == D[e.b]
           d == CompareDatums(t, e.op, a, ta.ty, b, tb.ty)
<1>1. /\ ta = Typed(e.a, t.schema) /\ tb = Typed(e.b, t.schema) /\ ta.ok /\ tb.ok
      /\ ta.ty \in AnyType /\ ta.nullable \in BOOLEAN
      /\ tb.ty \in AnyType /\ tb.nullable \in BOOLEAN
      /\ Fits(a, t.len, ta) /\ Fits(b, t.len, tb)
      /\ Comparable(ta.ty, tb.ty)
      /\ TypeStep(e, t.schema, T) = EitherNull(ta, tb)
  BY PairTypes
<1>2. EvalStep(e, t, D) = IF Stops(a) THEN a ELSE IF Stops(b) THEN b ELSE d
  BY <1>1 DEF EvalStep, EvalPair, Combined
<1> HIDE DEF ta, tb, a, b
<1>3. CASE Stops(a)  BY <1>1, <1>2, <1>3, StopsOverflow, OverflowFits
<1>4. CASE ~ Stops(a) /\ Stops(b)  BY <1>1, <1>2, <1>4, StopsOverflow, OverflowFits
<1>5. CASE ~ Stops(a) /\ ~ Stops(b)
  <2>1. t.len \in Nat  BY TableLen
  <2>2. Fits(d, t.len, EitherNull(ta, tb))  BY <1>1, <1>5, <2>1, CompareFits
  <2> HIDE DEF d
  <2> QED BY <1>1, <1>2, <1>5, <2>2
<1> QED BY <1>3, <1>4, <1>5

\* Arithmetic on operands that fit fits its type, or overflows.
LEMMA ArithExprFits ==
    ASSUME NEW t, GoodTable(t), NEW e \in Exprs, e.x = "arith", NEW T, NEW D,
           Parts(t, e, T, D), TypeStep(e, t.schema, T).ok
    PROVE  Fits(EvalStep(e, t, D), t.len, TypeStep(e, t.schema, T))
<1> DEFINE ta == T[e.a]
           tb == T[e.b]
           a == D[e.a]
           b == D[e.b]
           d == ArithDatums(t, e.op, a, ta.ty, b, tb.ty)
           ty == ArithType(e.op, ta.ty, tb.ty)
           u == ExprType(ty, ArithNullable(ta, tb, ty))
<1>1. /\ ta = Typed(e.a, t.schema) /\ tb = Typed(e.b, t.schema) /\ ta.ok /\ tb.ok
      /\ ta.ty \in AnyType /\ ta.nullable \in BOOLEAN
      /\ tb.ty \in AnyType /\ tb.nullable \in BOOLEAN
      /\ Fits(a, t.len, ta) /\ Fits(b, t.len, tb)
      /\ ty # "None"
      /\ TypeStep(e, t.schema, T) = u
  BY PairTypes
<1>2. EvalStep(e, t, D) = IF Stops(a) THEN a ELSE IF Stops(b) THEN b ELSE d
  BY <1>1 DEF EvalStep, EvalPair, Combined
<1> HIDE DEF ta, tb, a, b
<1>3. CASE Stops(a)  BY <1>1, <1>2, <1>3, StopsOverflow, OverflowFits
<1>4. CASE ~ Stops(a) /\ Stops(b)  BY <1>1, <1>2, <1>4, StopsOverflow, OverflowFits
<1>5. CASE ~ Stops(a) /\ ~ Stops(b)
  <2>1. t.len \in Nat  BY TableLen
  <2>2. e.op \in {"add", "sub", "mul", "div"}  BY ExprAssumption
  <2>3. Fits(d, t.len, u)  BY <1>1, <1>5, <2>1, <2>2, ArithFits
  <2> HIDE DEF d, u
  <2> QED BY <1>1, <1>2, <1>5, <2>3
<1> QED BY <1>3, <1>4, <1>5

\* The arguments of an `and` or an `or` that has a type are Boolean.
LEMMA LogicTypes ==
    ASSUME NEW t, GoodTable(t), NEW e \in Exprs, e.x \in {"and", "or"}, NEW T, NEW D,
           Parts(t, e, T, D), TypeStep(e, t.schema, T).ok
    PROVE  /\ Len(e.args) \in Nat /\ DOMAIN e.args = 1 .. Len(e.args) /\ Len(e.args) > 0
           /\ \A k \in 1 .. Len(e.args) :
                 /\ e.args[k] \in Inner(e) /\ e.args[k] \in Exprs
                 /\ T[e.args[k]].ok /\ T[e.args[k]].ty = "Bool"
                 /\ T[e.args[k]].nullable \in BOOLEAN
                 /\ Fits(D[e.args[k]], t.len, T[e.args[k]])
           /\ TypeStep(e, t.schema, T)
                 = AnyNull([k \in DOMAIN e.args |-> T[e.args[k]]], Len(e.args))
<1> DEFINE m == Len(e.args)
           u == [k \in DOMAIN e.args |-> UsableAs(T[e.args[k]], "Bool")]
           nullable == \E k \in DOMAIN u : u[k].nullable
<1>1. m \in Nat /\ DOMAIN e.args = 1 .. m /\ e.args \in Seq(Exprs)
  BY ExprAssumption
<1>2. \A k \in 1 .. m : e.args[k] \in Inner(e) /\ e.args[k] \in Exprs
  BY <1>1, InnerIsShallower DEF Inner
<1>3. TypeStep(e, t.schema, T)
        = IF e.args # << >> /\ \A k \in DOMAIN u : u[k].ok
          THEN ExprType("Bool", nullable) ELSE Refused
  BY DEF TypeStep
<1>4. e.args # << >> /\ \A k \in DOMAIN u : u[k].ok
  <2> HIDE DEF u, nullable
  <2> QED BY <1>3, RefusedType
<1>5. m > 0  BY <1>1, <1>4
<1>6. ASSUME NEW k \in 1 .. m
      PROVE  /\ u[k] = T[e.args[k]] /\ T[e.args[k]].ok /\ T[e.args[k]].ty = "Bool"
             /\ T[e.args[k]].nullable \in BOOLEAN
             /\ Fits(D[e.args[k]], t.len, T[e.args[k]])
  <2> DEFINE a == e.args[k]
  <2>1. /\ a \in Inner(e) /\ a \in Exprs
        /\ UsableAs(T[a], "Bool").ok /\ u[k] = UsableAs(T[a], "Bool")
    BY <1>1, <1>2, <1>4
  <2> HIDE DEF a, u
  <2>2. T[a] = TypeOf(a, t.schema)  BY DEF Parts, TypeOf
  <2>3. /\ UsableAs(T[a], "Bool") = T[a]
        /\ T[a].ok /\ T[a].ty = "Bool" /\ T[a].nullable \in BOOLEAN
    BY <2>1, <2>2, Operand DEF GoodTable
  <2> QED BY <2>1, <2>3 DEF Parts, a
<1>7. u = [k \in DOMAIN e.args |-> T[e.args[k]]]  BY <1>1, <1>6
<1>8. TypeStep(e, t.schema, T) = ExprType("Bool", nullable)  BY <1>3, <1>4
<1>9. TypeStep(e, t.schema, T) = AnyNull(u, m)
  <2> DEFINE p == \E k \in 1 .. m : u[k].nullable
  <2>1. DOMAIN u = 1 .. m  BY <1>1
  <2>2. nullable = p
    <3> HIDE DEF u
    <3> QED BY <2>1
  <2> HIDE DEF p, nullable
  <2>3. TypeStep(e, t.schema, T) = ExprType("Bool", p)  BY <1>8, <2>2
  <2> HIDE DEF u
  <2> QED BY <2>3 DEF AnyNull, p
<1> HIDE DEF u
<1> QED BY <1>1, <1>2, <1>5, <1>6, <1>7, <1>9

\* A conjunction or disjunction of arguments that fit fits its type.
LEMMA LogicExprFits ==
    ASSUME NEW t, GoodTable(t), NEW e \in Exprs, e.x \in {"and", "or"}, NEW T, NEW D,
           Parts(t, e, T, D), TypeStep(e, t.schema, T).ok
    PROVE  Fits(EvalStep(e, t, D), t.len, TypeStep(e, t.schema, T))
<1> DEFINE m == Len(e.args)
           datums == [k \in DOMAIN e.args |-> D[e.args[k]]]
           ts == [k \in DOMAIN e.args |-> T[e.args[k]]]
           deciding == OfTruth(e.x = "or")
           u == AnyNull(ts, m)
           d == EvalLogic(t, datums, deciding)
<1>1. t.len \in Nat  BY TableLen
<1>2. /\ m \in Nat /\ DOMAIN e.args = 1 .. m
      /\ \A k \in 1 .. m : /\ ts[k].ty = "Bool" /\ ts[k].nullable \in BOOLEAN
                           /\ Fits(datums[k], t.len, ts[k])
  BY LogicTypes
<1>3. TypeStep(e, t.schema, T) = u  BY LogicTypes
<1>4. EvalStep(e, t, D) = d  BY DEF EvalStep
<1>5. deciding \in {0, 1}  BY TruthIsBool
<1>6. DOMAIN datums = 1 .. m  BY <1>2
<1> HIDE DEF datums, ts, deciding, m
<1>7. Fits(d, t.len, u)  BY <1>1, <1>2, <1>5, <1>6, LogicFits
<1> QED BY <1>3, <1>4, <1>7

\* The one operand of an expression that has a type.
LEMMA OperandOf ==
    ASSUME NEW t, GoodTable(t), NEW e \in Exprs,
           e.x \in {"not", "is_null", "in", "date_trunc", "lat", "lon"}, NEW T, NEW D,
           Parts(t, e, T, D), TypeStep(e, t.schema, T).ok
    PROVE  /\ e.a \in Exprs /\ e.a \in Inner(e)
           /\ T[e.a].ok /\ Fits(D[e.a], t.len, T[e.a])
           /\ e.x # "is_null" =>
                 /\ T[e.a] = Typed(e.a, t.schema)
                 /\ T[e.a].ty \in AnyType /\ T[e.a].nullable \in BOOLEAN
           /\ e.x \in {"not", "date_trunc"} =>
                 /\ TypeStep(e, t.schema, T) = T[e.a]
                 /\ T[e.a].ty = IF e.x = "not" THEN "Bool" ELSE "Timestamp"
           /\ e.x = "is_null" => TypeStep(e, t.schema, T) = ExprType("Bool", FALSE)
           /\ e.x = "in" =>
                 /\ e.values # << >>
                 /\ \A k \in DOMAIN e.values : Comparable(T[e.a].ty, e.values[k].ty)
                 /\ TypeStep(e, t.schema, T) = ExprType("Bool", T[e.a].nullable)
           /\ e.x \in {"lat", "lon"} =>
                 /\ T[e.a].ty = "Geo"
                 /\ TypeStep(e, t.schema, T) = ExprType("F64", T[e.a].nullable)
<1>1. e.a \in Inner(e) /\ e.a \in Exprs
  <2>1. e.a \in Inner(e)  BY DEF Inner
  <2> QED BY <2>1, InnerIsShallower
<1> DEFINE ta == T[e.a]
           ua == Usable(ta)
<1>2. ta = TypeOf(e.a, t.schema)  BY DEF Parts, TypeOf
<1>3. /\ Typed(e.a, t.schema) = ua
      /\ ua.ok => ua = ta /\ ta.ok /\ ta.ty \in AnyType /\ ta.nullable \in BOOLEAN
      /\ \A ty : UsableAs(ta, ty).ok =>
            /\ UsableAs(ta, ty) = ta /\ ta.ok /\ ta.ty = ty
            /\ ta.nullable \in BOOLEAN /\ Typed(e.a, t.schema) = ta
  BY <1>1, <1>2, Operand DEF GoodTable
<1>4. ta.ok => Fits(D[e.a], t.len, ta)  BY <1>1 DEF Parts
<1>5. CASE e.x \in {"not", "date_trunc"}
  <2> DEFINE ty == IF e.x = "not" THEN "Bool" ELSE "Timestamp"
  <2>1. TypeStep(e, t.schema, T) = UsableAs(ta, ty)  BY <1>5 DEF TypeStep
  <2>2. ty \in AnyType  BY DEF AnyType, SortableTypes
  <2> HIDE DEF ta, ua, ty
  <2>3. UsableAs(ta, ty) = ta /\ ta.ok /\ ta.ty = ty /\ ta.nullable \in BOOLEAN
        /\ Typed(e.a, t.schema) = ta
    BY <1>3, <2>1
  <2> QED BY <1>1, <1>4, <1>5, <2>1, <2>2, <2>3 DEF ta, ty
<1>6. CASE e.x = "is_null"
  <2>1. TypeStep(e, t.schema, T) = IF ta.ok THEN ExprType("Bool", FALSE) ELSE Refused
    BY <1>6 DEF TypeStep
  <2> HIDE DEF ta
  <2>2. ta.ok  BY <2>1, RefusedType
  <2> QED BY <1>1, <1>4, <1>6, <2>1, <2>2 DEF ta
<1>7. CASE e.x = "in"
  <2> DEFINE p == /\ ua.ok /\ e.values # << >>
                  /\ \A k \in DOMAIN e.values : Comparable(ua.ty, e.values[k].ty)
  <2>1. TypeStep(e, t.schema, T) = IF p THEN ExprType("Bool", ua.nullable) ELSE Refused
    BY <1>7 DEF TypeStep
  <2>2. p
    <3> HIDE DEF p, ua
    <3> QED BY <2>1, RefusedType
  <2>3. ua = ta /\ ta.ok /\ ta.ty \in AnyType /\ ta.nullable \in BOOLEAN  BY <1>3, <2>2
  <2>4. TypeStep(e, t.schema, T) = ExprType("Bool", ua.nullable)  BY <2>1, <2>2
  <2> HIDE DEF ta, ua
  <2> QED BY <1>1, <1>3, <1>4, <1>7, <2>2, <2>3, <2>4 DEF ta
<1>8. CASE e.x \in {"lat", "lon"}
  <2> DEFINE g == UsableAs(ta, "Geo")
  <2>1. TypeStep(e, t.schema, T) = IF g.ok THEN ExprType("F64", g.nullable) ELSE Refused
    BY <1>8 DEF TypeStep
  <2>2. g.ok
    <3> HIDE DEF g
    <3> QED BY <2>1, RefusedType
  <2>3. g = ta /\ ta.ok /\ ta.ty = "Geo" /\ ta.nullable \in BOOLEAN
        /\ Typed(e.a, t.schema) = ta /\ "Geo" \in AnyType
    BY <1>3, <2>2 DEF AnyType
  <2> HIDE DEF ta, g
  <2> QED BY <1>1, <1>4, <1>8, <2>1, <2>2, <2>3 DEF ta
<1> QED BY <1>5, <1>6, <1>7, <1>8

\* A value of every value of an operand: a column, unless its operand stops.
LEMMA EachExprFits ==
    ASSUME NEW t, GoodTable(t), NEW e \in Exprs,
           e.x \in {"not", "date_trunc", "lat", "lon"}, NEW T, NEW D,
           Parts(t, e, T, D), TypeStep(e, t.schema, T).ok
    PROVE  Fits(EvalStep(e, t, D), t.len, TypeStep(e, t.schema, T))
<1> DEFINE ta == T[e.a]
           d == D[e.a]
           z == EvalStep(e, t, D)
           out == CASE e.x = "not" -> "Bool" [] e.x = "date_trunc" -> "Timestamp"
                    [] OTHER -> "F64"
           V == ValuesOfType(ta.ty)
           f == [v \in V |-> CASE e.x = "not" -> 1 - v
                               [] e.x = "date_trunc" -> Truncated(e.unit, v)
                               [] e.x = "lat" -> v[1]
                               [] e.x = "lon" -> v[2]]
           cells == [i \in 0 .. t.len - 1 |-> IF Get(d, i) = Missing THEN Missing
                                              ELSE f[Get(d, i)]]
<1>1. /\ ta.ty \in AnyType /\ ta.nullable \in BOOLEAN /\ Fits(d, t.len, ta)
      /\ ta.ty = CASE e.x = "not" -> "Bool" [] e.x = "date_trunc" -> "Timestamp"
                   [] OTHER -> "Geo"
      /\ TypeStep(e, t.schema, T) = IF e.x \in {"not", "date_trunc"} THEN ta
                                    ELSE ExprType("F64", ta.nullable)
  BY OperandOf
<1>2. TypeStep(e, t.schema, T) = ExprType(out, ta.nullable)
  <2>1. CASE e.x \in {"not", "date_trunc"}
    <3>1. IsType(ta)
      <4>1. ta = TypeOf(e.a, t.schema) /\ e.a \in Exprs
        BY OperandOf DEF Parts, TypeOf
      <4> QED BY <4>1, TypesTyped DEF GoodTable
    <3>2. ta # Refused
      <4>1. ta.ok  BY OperandOf
      <4> HIDE DEF ta
      <4> QED BY <4>1, RefusedType
    <3>3. ta = ExprType(ta.ty, ta.nullable)
      <4> HIDE DEF ta
      <4> QED BY <3>1, <3>2 DEF IsType
    <3>4. ta.ty = out  BY <1>1, <2>1
    <3> HIDE DEF ta, out
    <3> QED BY <1>1, <2>1, <3>3, <3>4
  <2>2. CASE e.x \in {"lat", "lon"}  BY <1>1, <2>2
  <2> QED BY <2>1, <2>2
<1>3. \A v \in V : f[v] \in ValuesOfType(out) \ {Missing}
  <2> TAKE v \in V
  <2>1. CASE e.x = "not"
    <3>1. v \in {0, 1}  BY <1>1, <2>1, BoolValues
    <3>2. f[v] = 1 - v  BY <2>1
    <3>3. ValuesOfType(out) = {0, 1}  BY <2>1, BoolValues
    <3> HIDE DEF f, out
    <3> QED BY <3>1, <3>2, <3>3, WordAssumption
  <2>2. CASE e.x = "date_trunc"
    <3>1. ValuesOfType("Timestamp") = I64  BY DEF ValuesOfType, CellValues
    <3>2. v \in I64  BY <1>1, <2>2, <3>1
    <3>3. f[v] = Truncated(e.unit, v)  BY <2>2
    <3>4. e.unit \in {"day", "week", "month", "year"}  BY <2>2, ExprAssumption
    <3>5. Truncated(e.unit, v) \in I64  BY <3>2, <3>4, TruncatedTime
    <3>6. out = "Timestamp"  BY <2>2
    <3> HIDE DEF f, out
    <3> QED BY <3>1, <3>3, <3>5, <3>6, NumberFacts, WordAssumption DEF I64
  <2>3. CASE e.x \in {"lat", "lon"}
    <3>1. V = Finite \X Finite  BY <1>1, <2>3 DEF ValuesOfType
    <3>2. v[1] \in Finite /\ v[2] \in Finite
      <4> HIDE DEF V
      <4> QED BY <3>1
    <3>3. f[v] = v[1] \/ f[v] = v[2]  BY <2>3
    <3>4. out = "F64"  BY <2>3
    <3>5. ValuesOfType("F64") = Finite /\ Finite \subseteq Int
      BY NumberFacts DEF ValuesOfType, CellValues, Finite, U64
    <3> HIDE DEF f, out, V
    <3> QED BY <3>2, <3>3, <3>4, <3>5, WordAssumption
  <2> QED BY <2>1, <2>2, <2>3
<1>4. CASE Stops(d)
  <2>1. z = d  BY <1>4 DEF EvalStep, EvalEach
  <2>2. d = Overflow  BY <1>1, <1>4, StopsOverflow
  <2> QED BY <2>1, <2>2, OverflowFits
<1>5. CASE ~ Stops(d)
  <2>0. t.len \in Nat  BY TableLen
  <2>1. TypeOfDatum(d) = ta.ty
    <3> HIDE DEF ta, d
    <3> QED BY <1>1, <1>5, <2>0, FitsGet
  <2>2. \A i \in 0 .. t.len - 1 : Get(d, i) \in V \cup {Missing}
    <3> HIDE DEF ta, d
    <3> QED BY <1>1, <1>5, <2>0, FitsGet
  <2>3. z = MadeOf(out, cells)
    <3> DEFINE g == [i \in 0 .. t.len - 1 |-> IF Get(d, i) = Missing THEN Missing
                        ELSE CASE e.x = "not" -> 1 - Get(d, i)
                               [] e.x = "date_trunc" -> Truncated(e.unit, Get(d, i))
                               [] e.x = "lat" -> Get(d, i)[1]
                               [] e.x = "lon" -> Get(d, i)[2]]
    <3>1. g = cells
      <4>1. \A i \in 0 .. t.len - 1 : g[i] = cells[i]  BY <2>2
      <4> QED BY <4>1
    <3>2. z = MadeOf(out, g)
      <4>1. CASE e.x = "not"
        <5>1. z = Col(t, "Bool", LAMBDA i : IF Get(d, i) = Missing THEN Missing
                                            ELSE 1 - Get(d, i))
          BY <1>1, <1>5, <2>1, <4>1 DEF EvalStep, EvalEach
        <5> QED BY <4>1, <5>1 DEF Col, MadeOf, RowsOf
      <4>2. CASE e.x = "date_trunc"
        <5>1. z = Col(t, "Timestamp", LAMBDA i : IF Get(d, i) = Missing THEN Missing
                                                 ELSE Truncated(e.unit, Get(d, i)))
          BY <1>1, <1>5, <2>1, <4>2 DEF EvalStep, EvalEach
        <5> QED BY <4>2, <5>1 DEF Col, MadeOf, RowsOf
      <4>3. CASE e.x = "lat"
        <5>1. z = Col(t, "F64", LAMBDA i : IF Get(d, i) = Missing THEN Missing
                                           ELSE Get(d, i)[1])
          BY <1>1, <1>5, <2>1, <4>3 DEF EvalStep, EvalEach
        <5> QED BY <4>3, <5>1 DEF Col, MadeOf, RowsOf
      <4>4. CASE e.x = "lon"
        <5>1. z = Col(t, "F64", LAMBDA i : IF Get(d, i) = Missing THEN Missing
                                           ELSE Get(d, i)[2])
          BY <1>1, <1>5, <2>1, <4>4 DEF EvalStep, EvalEach
        <5> QED BY <4>4, <5>1 DEF Col, MadeOf, RowsOf
      <4> QED BY <4>1, <4>2, <4>3, <4>4
    <3> HIDE DEF z, g, cells
    <3> QED BY <3>1, <3>2
  <2>4. out \in AnyType \ {"DictUtf8"}  BY DEF AnyType, SortableTypes
  <2>5. Fits(MadeOf(out, cells), t.len, ExprType(out, ta.nullable))
    <3> HIDE DEF ta, d, f, out
    <3> QED BY <1>1, <1>3, <1>5, <2>0, <2>4, EachFits
  <2>6. EvalStep(e, t, D) = z  OBVIOUS
  <2> HIDE DEF z, cells, out
  <2> QED BY <1>2, <2>3, <2>5, <2>6
<1> QED BY <1>4, <1>5

\* Asking whether what fits is missing fits a Boolean without missing values.
LEMMA NullExprFits ==
    ASSUME NEW t, GoodTable(t), NEW e \in Exprs, e.x = "is_null", NEW T, NEW D,
           Parts(t, e, T, D), TypeStep(e, t.schema, T).ok
    PROVE  Fits(EvalStep(e, t, D), t.len, TypeStep(e, t.schema, T))
<1> DEFINE d == D[e.a]
           u == ExprType("Bool", FALSE)
           z == EvalIsNull(t, d)
<1>1. Fits(d, t.len, T[e.a]) /\ TypeStep(e, t.schema, T) = u  BY OperandOf
<1>2. EvalStep(e, t, D) = z  BY DEF EvalStep
<1>3. t.len \in Nat  BY TableLen
<1> HIDE DEF d
<1>4. CASE Stops(d)
  <2>0. d.d # "scalar"  BY <1>4 DEF Stops
  <2>1. z = d  BY <1>4, <2>0 DEF EvalIsNull
  <2>2. d = Overflow  BY <1>1, <1>4, StopsOverflow
  <2> HIDE DEF z
  <2> QED BY <1>2, <2>1, <2>2, OverflowFits
<1>5. CASE ~ Stops(d) /\ d.d = "scalar"
  <2> DEFINE lit == [ty |-> "Bool", v |-> OfTruth(d.lit.ty = "Null")]
  <2>1. z = Scalar(lit)  BY <1>5 DEF EvalIsNull
  <2>2. lit.ty = "Bool" /\ lit.v \in {0, 1}  BY TruthIsBool
  <2> HIDE DEF lit
  <2>3. IsLiteral(lit)  BY <2>2 DEF IsLiteral, SortableTypes, CellValues
  <2>4. Fits(Scalar(lit), t.len, ExprType("Bool", FALSE))
    BY <2>2, <2>3, LiteralFits
  <2> HIDE DEF z
  <2> QED BY <1>1, <1>2, <2>1, <2>4
<1>6. CASE ~ Stops(d) /\ d.d # "scalar"
  <2> DEFINE cells == [i \in 0 .. t.len - 1 |-> OfTruth(d.col.cells[i] = Missing)]
  <2>1. z = MadeOf("Bool", cells)  BY <1>6 DEF EvalIsNull, Col, MadeOf, RowsOf
  <2>2. \A i \in 0 .. t.len - 1 : cells[i] \in {0, 1} /\ cells[i] # Missing
    BY TruthIsBool, WordAssumption
  <2>3. cells \in [0 .. t.len - 1 -> ValuesOfType("Bool") \cup {Missing}]
    BY <2>2, BoolValues
  <2> HIDE DEF cells, z
  <2>4. Fits(MadeOf("Bool", cells), t.len, ExprType("Bool", FALSE))
    BY <1>3, <2>2, <2>3, BoolValues, MadeFits
  <2> QED BY <1>1, <1>2, <2>1, <2>4
<1> QED BY <1>4, <1>5, <1>6

\* Looking up what fits among literals fits its type.
LEMMA InExprFits ==
    ASSUME NEW t, GoodTable(t), NEW e \in Exprs, e.x = "in", NEW T, NEW D,
           Parts(t, e, T, D), TypeStep(e, t.schema, T).ok
    PROVE  Fits(EvalStep(e, t, D), t.len, TypeStep(e, t.schema, T))
<1> DEFINE ta == T[e.a]
           d == D[e.a]
           z == EvalIn(t, e, d)
<1>1. /\ ta = Typed(e.a, t.schema) /\ ta.ok /\ ta.ty \in AnyType /\ ta.nullable \in BOOLEAN
      /\ Fits(d, t.len, ta) /\ e.values # << >>
      /\ \A k \in DOMAIN e.values : Comparable(ta.ty, e.values[k].ty)
      /\ TypeStep(e, t.schema, T) = ExprType("Bool", ta.nullable)
  BY OperandOf
<1>2. EvalStep(e, t, D) = z  BY DEF EvalStep
<1>3. t.len \in Nat  BY TableLen
<1>4. CASE Stops(d)
  <2> HIDE DEF d, ta
  <2> QED BY <1>1, <1>2, <1>4, StopsOverflow, OverflowFits DEF EvalIn, EvalListed
<1>5. CASE ~ Stops(d)
  <2> HIDE DEF d, ta
  <2>1. Fits(z, t.len, ExprType("Bool", ta.nullable))  BY <1>1, <1>3, <1>5, InFits
  <2> QED BY <1>1, <1>2, <2>1
<1> QED BY <1>4, <1>5

\* What an expression that has a type is evaluated to is of that type, or an
\* integer did not fit.
LEMMA EvalFits ==
    ASSUME NEW t, GoodTable(t), NEW e \in Exprs, TypeOf(e, t.schema).ok
    PROVE  Fits(Eval(e, t), t.len, TypeOf(e, t.schema))
<1> DEFINE T == TypesIn(t.schema)
           D == DatumsIn(t)
           S == {x \in Exprs : T[x].ok => Fits(D[x], t.len, T[x])}
<1>1. ASSUME NEW x \in Exprs, \A a \in Inner(x) : a \in S PROVE x \in S
  <2> SUFFICES ASSUME T[x].ok PROVE Fits(D[x], t.len, T[x])  OBVIOUS
  <2>1. T[x] = TypeStep(x, t.schema, T)  BY TypesAre
  <2>2. D[x] = EvalStep(x, t, D)  BY DatumsAre
  <2>3. Parts(t, x, T, D)  BY <1>1 DEF Parts
  <2> HIDE DEF T, D, S
  <2>4. TypeStep(x, t.schema, T).ok  BY <2>1
  <2>5. Fits(EvalStep(x, t, D), t.len, TypeStep(x, t.schema, T))
    <3>1. x.x \in ExprKinds  BY ExprAssumption
    <3>2. CASE x.x = "column"  BY <2>3, <2>4, <3>2, ColumnExprFits
    <3>3. CASE x.x = "literal"  BY <2>3, <2>4, <3>3, LiteralExprFits
    <3>4. CASE x.x = "compare"  BY <2>3, <2>4, <3>4, CompareExprFits
    <3>5. CASE x.x = "arith"  BY <2>3, <2>4, <3>5, ArithExprFits
    <3>6. CASE x.x \in {"and", "or"}  BY <2>3, <2>4, <3>6, LogicExprFits
    <3>7. CASE x.x \in {"not", "date_trunc", "lat", "lon"}
      BY <2>3, <2>4, <3>7, EachExprFits
    <3>8. CASE x.x = "is_null"  BY <2>3, <2>4, <3>8, NullExprFits
    <3>9. CASE x.x = "in"  BY <2>3, <2>4, <3>9, InExprFits
    <3> QED BY <3>1, <3>2, <3>3, <3>4, <3>5, <3>6, <3>7, <3>8, <3>9 DEF ExprKinds
  <2> QED BY <2>1, <2>2, <2>5
<1>2. Exprs \subseteq S
  <2> HIDE DEF S
  <2> QED BY <1>1, ExprInduction
<1> QED BY <1>2 DEF TypeOf, Eval

\* A row's place by one column, a missing value first.
Place(col, i) ==
    IF ~ IsPresent(col, i) THEN - Half - 1
    ELSE IF col.ty = "F64" THEN Signed(col.cells[i])
    ELSE col.cells[i]

\* Values are ordered as their places are.
LEMMA PlacesInOrder ==
    ASSUME NEW col, NEW rows, WellTyped(col, rows), NEW a \in rows, NEW b \in rows
    PROVE  /\ Place(col, a) \in Int
           /\ RowLess(col, a, b) <=> Place(col, a) < Place(col, b)
           /\ RowEqual(col, a, b) <=> Place(col, a) = Place(col, b)
<1>1. ASSUME NEW i \in rows
      PROVE  /\ Place(col, i) \in Int
             /\ IsPresent(col, i) => Place(col, i) > - Half - 1
  <2>1. col.cells[i] \in CellValues(col.ty) \cup {Missing}  BY DEF WellTyped
  <2>2. CASE ~ IsPresent(col, i)  BY <2>2, NumberFacts DEF Place
  <2>3. CASE IsPresent(col, i) /\ col.ty = "F64"
    <3>1. col.cells[i] \in Finite  BY <2>1, <2>3 DEF IsPresent, CellValues
    <3>2. Signed(col.cells[i]) \in Int /\ - Infinity < Signed(col.cells[i])
      BY <3>1, SignedInOrder DEF Finite
    <3> QED BY <2>3, <3>2, NumberFacts DEF Place
  <2>4. CASE IsPresent(col, i) /\ col.ty # "F64"
    <3>1. col.cells[i] \in I64
      BY <2>1, <2>4, NumberFacts DEF IsPresent, CellValues, WellTyped, SortableTypes, I64
    <3> QED BY <2>4, <3>1, NumberFacts DEF Place, I64
  <2> QED BY <2>2, <2>3, <2>4
<1>2. ASSUME NEW i \in rows, NEW j \in rows
      PROVE  RowLess(col, i, j) <=> Place(col, i) < Place(col, j)
  <2>1. CASE IsPresent(col, i) /\ IsPresent(col, j)
    BY <2>1 DEF RowLess, Place
  <2>2. CASE ~ IsPresent(col, i) /\ IsPresent(col, j)
    <3>1. Place(col, i) = - Half - 1  BY <2>2 DEF Place
    <3> QED BY <1>1, <2>2, <3>1 DEF RowLess
  <2>3. CASE ~ IsPresent(col, j)
    <3>1. Place(col, j) = - Half - 1  BY <2>3 DEF Place
    <3>2. ~ RowLess(col, i, j)  BY <2>3 DEF RowLess
    <3>3. ~ Place(col, i) < Place(col, j)
      <4>1. IsPresent(col, i) => Place(col, i) > - Half - 1  BY <1>1
      <4>2. ~ IsPresent(col, i) => Place(col, i) = - Half - 1  BY DEF Place
      <4> QED BY <1>1, <3>1, <4>1, <4>2
    <3> QED BY <3>2, <3>3
  <2> QED BY <2>1, <2>2, <2>3
<1> QED BY <1>1, <1>2 DEF RowEqual

PlacesOf(keys, n) ==
    [k \in 1 .. Len(keys) |-> [i \in 0 .. n - 1 |->
        IF keys[k].descending THEN - Place(keys[k].col, i) ELSE Place(keys[k].col, i)]]

ComparedPairs(keys, S) == {p \in S \X S : ComparedBefore(keys, p[1], p[2])}

\* Comparing rows key by key is comparing the lists of their places.
LEMMA ComparedIsLex ==
    ASSUME NEW n \in Nat, NEW K, NEW keys \in Seq(K), KeysOf(keys, n),
           NEW a \in 0 .. n - 1, NEW b \in 0 .. n - 1
    PROVE  ComparedBefore(keys, a, b) <=> LexBefore(PlacesOf(keys, n), Len(keys), a, b)
<1> DEFINE m == Len(keys)
           r == PlacesOf(keys, n)
<1>1. m \in Nat /\ DOMAIN keys = 1 .. m  OBVIOUS
<1> DEFINE Below(k) == r[k][a] < r[k][b]
           Same(k) == r[k][a] = r[k][b]
<1>2. \A k \in 1 .. m : /\ KeyLess(keys[k], a, b) <=> Below(k)
                        /\ RowEqual(keys[k].col, a, b) <=> Same(k)
  <2> TAKE k \in 1 .. m
  <2> DEFINE key == keys[k]
             p == Place(key.col, a)
             q == Place(key.col, b)
  <2>1. WellTyped(key.col, 0 .. n - 1)  BY <1>1 DEF KeysOf
  <2>2. /\ r[k][a] = IF key.descending THEN - p ELSE p
        /\ r[k][b] = IF key.descending THEN - q ELSE q
    BY <1>1 DEF PlacesOf
  <2> HIDE DEF key, r
  <2>3. /\ p \in Int /\ q \in Int
        /\ RowLess(key.col, a, b) <=> p < q
        /\ RowLess(key.col, b, a) <=> q < p
        /\ RowEqual(key.col, a, b) <=> p = q
    BY <2>1, PlacesInOrder
  <2> HIDE DEF p, q
  <2>4. KeyLess(key, a, b) <=> IF key.descending THEN q < p ELSE p < q
    BY <2>3 DEF KeyLess
  <2>5. KeyLess(key, a, b) <=> r[k][a] < r[k][b]
    BY <2>2, <2>3, <2>4
  <2>6. RowEqual(key.col, a, b) <=> r[k][a] = r[k][b]  BY <2>2, <2>3
  <2> QED BY <2>5, <2>6 DEF key
<1>3. \A k \in 1 .. m : \A j \in 1 .. k - 1 : j \in 1 .. m  BY <1>1
<1>4. LexBefore(r, m, a, b)
        <=> \/ \E k \in 1 .. m : Below(k) /\ \A j \in 1 .. k - 1 : Same(j)
            \/ a < b /\ \A k \in 1 .. m : Same(k)
  BY DEF LexBefore
<1> HIDE DEF Below, Same, r
<1> DEFINE Lower(k) == KeyLess(keys[k], a, b)
           Equal(k) == RowEqual(keys[k].col, a, b)
<1>5. ComparedBefore(keys, a, b)
        <=> \/ \E k \in 1 .. m : Lower(k) /\ \A j \in 1 .. k - 1 : Equal(j)
            \/ a < b /\ \A k \in 1 .. m : Equal(k)
  BY <1>1 DEF ComparedBefore
<1>6. \A k \in 1 .. m : (Lower(k) <=> Below(k)) /\ (Equal(k) <=> Same(k))  BY <1>2
<1> HIDE DEF Lower, Equal, m
<1>7. (\E k \in 1 .. m : Lower(k) /\ \A j \in 1 .. k - 1 : Equal(j))
        <=> (\E k \in 1 .. m : Below(k) /\ \A j \in 1 .. k - 1 : Same(j))
  BY <1>3, <1>6
<1>8. (\A k \in 1 .. m : Equal(k)) <=> (\A k \in 1 .. m : Same(k))  BY <1>6
<1>9. ComparedBefore(keys, a, b) <=> LexBefore(r, m, a, b)
  BY <1>4, <1>5, <1>7, <1>8
<1> QED BY <1>9 DEF r, m

\* Comparing rows by keys and then by position puts them in one order.
LEMMA ComparedOrders ==
    ASSUME NEW n \in Nat, NEW K, NEW keys \in Seq(K), KeysOf(keys, n)
    PROVE  Orders(ComparedPairs(keys, 0 .. n - 1), 0 .. n - 1)
<1> DEFINE m == Len(keys)
           r == PlacesOf(keys, n)
           S == 0 .. n - 1
<1>1. m \in Nat /\ S \in SUBSET Int  OBVIOUS
<1>2. \A k \in 1 .. m : \A a \in S : r[k][a] \in Int
  <2> TAKE k \in 1 .. m
  <2> TAKE a \in S
  <2>1. WellTyped(keys[k].col, S)  BY DEF KeysOf
  <2>2. Place(keys[k].col, a) \in Int  BY <2>1, PlacesInOrder
  <2> QED BY <2>2 DEF PlacesOf
<1>3. ComparedPairs(keys, S) = LexPairs(r, m, S)
  <2>1. \A a, b \in S : ComparedBefore(keys, a, b) <=> LexBefore(r, m, a, b)
    BY ComparedIsLex
  <2> HIDE DEF S, r, m
  <2> QED BY <2>1 DEF ComparedPairs, LexPairs
<1> HIDE DEF S, r, m
<1>4. Orders(LexPairs(r, m, S), S)  BY <1>1, <1>2, LexOrders
<1> QED BY <1>3, <1>4 DEF S

\* Ranking rows by their keys is ranking them by those pairs.
LEMMA ComparedRanked ==
    ASSUME NEW keys, NEW S
    PROVE  RankedRows(keys, S) = RankedIn(S, ComparedPairs(keys, S))
<1>1. \A x \in S : {y \in S : ComparedBefore(keys, y, x)}
                     = Earlier(x, S, ComparedPairs(keys, S))
  BY DEF Earlier, ComparedPairs
<1> DEFINE At(i) == CHOOSE x \in S : Cardinality({y \in S : ComparedBefore(keys, y, x)}) = i
           In(i) == CHOOSE x \in S : Cardinality(Earlier(x, S, ComparedPairs(keys, S))) = i
<1>2. \A i : At(i) = In(i)  BY <1>1
<1>3. RankedRows(keys, S) = [i \in 0 .. Cardinality(S) - 1 |-> At(i)]  BY DEF RankedRows
<1>4. RankedIn(S, ComparedPairs(keys, S)) = [i \in 0 .. Cardinality(S) - 1 |-> In(i)]
  BY DEF RankedIn
<1> HIDE DEF At, In
<1> QED BY <1>2, <1>3, <1>4

\* Sorting by words lists the rows in the order of the keys' values.
LEMMA SortLists ==
    ASSUME NEW n \in Nat, NEW K, NEW keys \in Seq(K), KeysOf(keys, n)
    PROVE  Lists(SortPermutation(n, keys), n, 0 .. n - 1, ComparedPairs(keys, 0 .. n - 1))
<1> DEFINE S == 0 .. n - 1
           R == ComparedPairs(keys, S)
<1>1. SortPermutation(n, keys) = RankedIn(S, R)  BY WordsRank, ComparedRanked
<1>2. Orders(R, S)  BY ComparedOrders
<1>3. IsFiniteSet(S) /\ Cardinality(S) = n  BY CountBelow
<1>4. Lists(RankedIn(S, R), Cardinality(S), S, R)
  <2> HIDE DEF S, R
  <2> QED BY <1>2, <1>3, RankedLists
<1> QED BY <1>1, <1>3, <1>4

----------------------------------------------------------------------------
\* A sound column of a type that has an order is well typed.
LEMMA SoundIsTyped ==
    ASSUME NEW n \in Nat, NEW col, IsColumnOf(col, n), col.ty \in SortableTypes
    PROVE  WellTyped(col, 0 .. n - 1)
<1>1. col.cells \in [0 .. n - 1 -> CellsOf(col) \cup {Missing}]  BY DEF IsColumnOf
<1>2. CellsOf(col) \subseteq CellValues(col.ty)
  <2>1. CASE col.ty = "DictUtf8"
    <3>1. Len(col.dictionary) \in Nat /\ Len(col.dictionary) <= Half  BY DEF IsColumnOf
    <3> QED BY <2>1, <3>1, NumberFacts DEF CellsOf, CellValues
  <2>2. CASE col.ty # "DictUtf8"  BY <2>2, TypesDiffer DEF CellsOf
  <2> QED BY <2>1, <2>2
<1> QED BY <1>1, <1>2 DEF WellTyped

\* The columns of a good table are ones, and those that sort have values to sort.
LEMMA ColumnsOfTable ==
    ASSUME NEW t, GoodTable(t), NEW k \in DOMAIN t.columns
    PROVE  /\ IsColumnOf(t.columns[k], t.len)
           /\ k \in Sortable(t) => WellTyped(t.columns[k], 0 .. t.len - 1)
<1>1. IsColumnOf(t.columns[k], t.len)  BY TableLen DEF GoodTable, GoodColumns
<1> QED BY <1>1, TableLen, SoundIsTyped DEF Sortable

\* One or two columns of a good table are columns to sort or to group by.
LEMMA ListedColumns ==
    ASSUME NEW t, GoodTable(t), NEW cols \in ColumnLists(t)
    PROVE  /\ Len(cols) \in 1 .. 2 /\ DOMAIN cols = 1 .. Len(cols)
           /\ cols \in Seq({t.columns[k] : k \in Sortable(t)})
           /\ \A k \in DOMAIN cols : WellTyped(cols[k], 0 .. t.len - 1)
<1> DEFINE S == {t.columns[k] : k \in Sortable(t)}
<1>1. \A c \in S : WellTyped(c, 0 .. t.len - 1)
  BY ColumnsOfTable DEF Sortable
<1>2. CASE \E k \in Sortable(t) : cols = <<t.columns[k]>>
  <2>1. PICK c \in S : cols = <<c>>  BY <1>2
  <2> HIDE DEF S
  <2> QED BY <1>1, <2>1 DEF S
<1>3. CASE \E k, j \in Sortable(t) : cols = <<t.columns[k], t.columns[j]>>
  <2>1. PICK c \in S, b \in S : cols = <<c, b>>  BY <1>3
  <2> HIDE DEF S
  <2> QED BY <1>1, <2>1 DEF S
<1> QED BY <1>2, <1>3 DEF ColumnLists

\* Sorting a good table's rows by words is sorting them by values.
LEMMA TableSorts ==
    ASSUME NEW t, GoodTable(t), NEW cols \in ColumnLists(t), NEW keys \in Directed(cols)
    PROVE  SortPermutation(t.len, keys) = RankedRows(keys, RowsOf(t))
<1>1. PICK dir \in [DOMAIN cols -> BOOLEAN] :
        keys = [k \in DOMAIN cols |-> [col |-> cols[k], descending |-> dir[k]]]
  BY DEF Directed
<1>2. /\ Len(cols) \in Nat /\ DOMAIN cols = 1 .. Len(cols)
      /\ \A k \in DOMAIN cols : WellTyped(cols[k], 0 .. t.len - 1)
  <2>1. Len(cols) \in 1 .. 2  BY ListedColumns
  <2>2. DOMAIN cols = 1 .. Len(cols)  BY ListedColumns
  <2>3. \A k \in DOMAIN cols : WellTyped(cols[k], 0 .. t.len - 1)  BY ListedColumns
  <2> QED BY <2>1, <2>2, <2>3
<1> DEFINE K == {keys[k] : k \in DOMAIN cols}
<1>3. keys \in Seq(K)
  <2>1. keys \in [1 .. Len(cols) -> K]  BY <1>1, <1>2
  <2> HIDE DEF K
  <2> QED BY <1>2, <2>1
<1>4. KeysOf(keys, t.len)  BY <1>1, <1>2 DEF KeysOf
<1> HIDE DEF K
<1>5. t.len \in Nat  BY TableLen
<1>6. SortPermutation(t.len, keys) = RankedRows(keys, 0 .. t.len - 1)
  BY <1>3, <1>4, <1>5, WordsRank
<1> QED BY <1>6 DEF RowsOf

----------------------------------------------------------------------------
(* Values numbered in first-seen order.                                    *)

\* Of rows that are numbers, one is the first with its value.
LEMMA OneIsFirst ==
    ASSUME NEW f, DOMAIN f \in SUBSET Nat, NEW i \in DOMAIN f
    PROVE  /\ \E r \in Firsts(f) : f[r] = f[i] /\ r <= i
           /\ \A r, s \in Firsts(f) : f[r] = f[s] => r = s
<1> DEFINE T == {k \in DOMAIN f : f[k] = f[i]}
<1>1. T \in SUBSET Nat /\ i \in T  OBVIOUS
<1>2. PICK r \in T : \A k \in T : r <= k
  <2> HIDE DEF T
  <2> QED BY <1>1, LeastElement
<1>3. r \in Firsts(f) /\ f[r] = f[i] /\ r <= i
  <2>1. r \in DOMAIN f /\ f[r] = f[i]  BY <1>2
  <2>2. \A k \in DOMAIN f : f[k] = f[r] => r <= k  BY <1>2, <2>1
  <2> QED BY <1>1, <1>2, <2>1, <2>2 DEF Firsts
<1>4. ASSUME NEW a \in Firsts(f), NEW b \in Firsts(f), f[a] = f[b]
      PROVE  a = b
  <2>1. a \in DOMAIN f /\ b \in DOMAIN f /\ a <= b /\ b <= a  BY <1>4 DEF Firsts
  <2>2. a \in Nat /\ b \in Nat  BY <2>1
  <2> QED BY <2>1, <2>2
<1> QED BY <1>3, <1>4

\* The first row with the value of row i.
FirstOf(f, i) == CHOOSE r \in Firsts(f) : f[r] = f[i]

\* The first row with a value has it, and no row before it has.
LEMMA FirstOfIs ==
    ASSUME NEW f, DOMAIN f \in SUBSET Nat, NEW i \in DOMAIN f
    PROVE  /\ FirstOf(f, i) \in Firsts(f) /\ f[FirstOf(f, i)] = f[i]
           /\ FirstOf(f, i) <= i
           /\ \A r \in Firsts(f) : f[r] = f[i] => r = FirstOf(f, i)
<1>1. PICK r \in Firsts(f) : f[r] = f[i] /\ r <= i  BY OneIsFirst
<1>2. FirstOf(f, i) \in Firsts(f) /\ f[FirstOf(f, i)] = f[i]  BY <1>1 DEF FirstOf
<1>3. \A a, b \in Firsts(f) : f[a] = f[b] => a = b  BY OneIsFirst
<1>4. FirstOf(f, i) = r  BY <1>1, <1>2, <1>3
<1> QED BY <1>1, <1>2, <1>3, <1>4

\* SeenBefore numbers the values from 0 without gaps: rows have one number
\* exactly if they have one value, and number g is first met at the row that
\* is listed at g.
LEMMA ValuesNumbered ==
    ASSUME NEW f, DOMAIN f \in SUBSET Nat, IsFiniteSet(DOMAIN f)
    PROVE  LET F == Firsts(f)
               n == Cardinality(F)
               id(i) == SeenBefore(f, F, i)
           IN  /\ n \in Nat /\ n <= Cardinality(DOMAIN f)
               /\ \A i \in DOMAIN f : id(i) \in 0 .. n - 1
               /\ \A i, k \in DOMAIN f : id(i) = id(k) <=> f[i] = f[k]
               /\ Ascending(F) \in [0 .. n - 1 -> DOMAIN f]
               /\ \A g \in 0 .. n - 1 :
                     /\ id(Ascending(F)[g]) = g
                     /\ \A i \in DOMAIN f : id(i) = g => Ascending(F)[g] <= i
<1> DEFINE F == Firsts(f)
           n == Cardinality(F)
           id(i) == SeenBefore(f, F, i)
           a == Ascending(F)
<1>1. F \subseteq DOMAIN f  BY DEF Firsts
<1>2. IsFiniteSet(F) /\ n \in Nat /\ n <= Cardinality(DOMAIN f)
  <2> HIDE DEF F
  <2>1. IsFiniteSet(F) /\ Cardinality(F) <= Cardinality(DOMAIN f)
    BY <1>1, FS_Subset
  <2> QED BY <2>1, FS_CardinalityType
<1>3. F \in SUBSET Int /\ DOMAIN f \in SUBSET Int  BY <1>1
<1>4. Lists(a, n, F, Less) /\ Asymmetric(Less, F)
  <2> HIDE DEF F
  <2> QED BY <1>2, <1>3, AscendingLists, LessOrders DEF Orders
<1>5. ASSUME NEW i \in DOMAIN f
      PROVE  id(i) = Cardinality(Earlier(FirstOf(f, i), F, Less))
  <2>1. FirstOf(f, i) \in F  BY FirstOfIs
  <2>2. {r \in F : r < FirstOf(f, i)} = Earlier(FirstOf(f, i), F, Less)
    <3> HIDE DEF F
    <3> QED BY <1>3, <2>1 DEF Earlier, Less
  <2> QED BY <2>2 DEF SeenBefore, FirstOf
<1>6. ASSUME NEW i \in DOMAIN f, NEW g \in 0 .. n - 1, a[g] = FirstOf(f, i)
      PROVE  id(i) = g
  <2>1. Cardinality(Earlier(a[g], F, Less)) = g
    <3> HIDE DEF F, n, a
    <3> QED BY <1>4, ListsRank
  <2> QED BY <1>5, <1>6, <2>1
<1>7. ASSUME NEW i \in DOMAIN f
      PROVE  \E g \in 0 .. n - 1 : a[g] = FirstOf(f, i) /\ id(i) = g
  <2>1. FirstOf(f, i) \in F  BY FirstOfIs
  <2>2. PICK g \in 0 .. n - 1 : a[g] = FirstOf(f, i)
    <3> HIDE DEF F, n, a
    <3> QED BY <1>4, <2>1 DEF Lists
  <2> QED BY <1>6, <2>2
<1>8. ASSUME NEW i \in DOMAIN f, NEW k \in DOMAIN f
      PROVE  id(i) = id(k) <=> f[i] = f[k]
  <2>1. PICK g \in 0 .. n - 1 : a[g] = FirstOf(f, i) /\ id(i) = g  BY <1>7
  <2>2. PICK h \in 0 .. n - 1 : a[h] = FirstOf(f, k) /\ id(k) = h  BY <1>7
  <2>3. /\ FirstOf(f, i) \in F /\ f[FirstOf(f, i)] = f[i]
        /\ FirstOf(f, k) \in F /\ f[FirstOf(f, k)] = f[k]
        /\ \A r \in F : f[r] = f[i] => r = FirstOf(f, i)
    BY FirstOfIs
  <2> HIDE DEF F, n, a, id
  <2>4. ASSUME id(i) = id(k) PROVE f[i] = f[k]
    <3>1. g = h  BY <2>1, <2>2, <2>4
    <3> QED BY <2>1, <2>2, <2>3, <3>1
  <2>5. ASSUME f[i] = f[k] PROVE id(i) = id(k)
    <3>1. FirstOf(f, k) = FirstOf(f, i)  BY <2>3, <2>5
    <3>2. a[h] = FirstOf(f, i)  BY <2>2, <3>1
    <3>3. id(i) = h  BY <1>6, <3>2
    <3> QED BY <2>2, <3>3
  <2> QED BY <2>4, <2>5
<1>9. a \in [0 .. n - 1 -> DOMAIN f]  BY <1>1, <1>4 DEF Lists
<1>10. ASSUME NEW g \in 0 .. n - 1
       PROVE  /\ id(a[g]) = g
              /\ \A i \in DOMAIN f : id(i) = g => a[g] <= i
  <2>1. a[g] \in F /\ a[g] \in DOMAIN f
    <3>1. a \in [0 .. n - 1 -> F]  BY <1>4 DEF Lists
    <3> HIDE DEF F, n, a
    <3> QED BY <1>1, <3>1
  <2>2. a[g] = FirstOf(f, a[g])  BY <2>1, FirstOfIs
  <2>3. id(a[g]) = g  BY <1>6, <2>1, <2>2
  <2>4. ASSUME NEW i \in DOMAIN f, id(i) = g PROVE a[g] <= i
    <3>1. f[i] = f[a[g]]  BY <1>8, <2>1, <2>3, <2>4
    <3>2. FirstOf(f, i) <= i  BY FirstOfIs
    <3>3. a[g] = FirstOf(f, i)  BY <2>1, <3>1, FirstOfIs
    <3> QED BY <3>2, <3>3
  <2> QED BY <2>3, <2>4
<1> HIDE DEF a, id, n, F
<1>11. \A i \in DOMAIN f : id(i) \in 0 .. n - 1  BY <1>7
<1>12. /\ n \in Nat /\ n <= Cardinality(DOMAIN f)
       /\ \A i \in DOMAIN f : id(i) \in 0 .. n - 1
       /\ \A i, k \in DOMAIN f : id(i) = id(k) <=> f[i] = f[k]
       /\ a \in [0 .. n - 1 -> DOMAIN f]
       /\ \A g \in 0 .. n - 1 :
             id(a[g]) = g /\ \A i \in DOMAIN f : id(i) = g => a[g] <= i
  BY <1>2, <1>8, <1>9, <1>10, <1>11
<1> QED BY <1>12 DEF a, id, n, F

\* Interned values are equal exactly if the rows are.
LEMMA InternedAsEqual ==
    ASSUME NEW col, NEW rows, WellTyped(col, rows), NEW i \in rows, NEW k \in rows,
           IsPresent(col, i), IsPresent(col, k)
    PROVE  InternKey(col, i) = InternKey(col, k) <=> RowEqual(col, i, k)
<1> DEFINE x == col.cells[i]
           y == col.cells[k]
<1>1. x \in CellValues(col.ty) /\ y \in CellValues(col.ty)
  BY DEF WellTyped, IsPresent
<1>2. CASE col.ty = "F64"
  <2>1. x \in Finite /\ y \in Finite  BY <1>1, <1>2 DEF CellValues
  <2> HIDE DEF x, y
  <2>2. (IF Signed(x) = 0 THEN 0 ELSE x) = (IF Signed(y) = 0 THEN 0 ELSE y)
          <=> Signed(x) = Signed(y)
    BY <2>1, FiniteWord, NumberFacts
  <2>3. RowEqual(col, i, k) <=> ~ Signed(x) < Signed(y) /\ ~ Signed(y) < Signed(x)
    BY <1>2 DEF RowEqual, RowLess, x, y
  <2>4. Signed(x) \in Int /\ Signed(y) \in Int  BY <2>1, SignedInOrder
  <2> QED BY <1>2, <2>2, <2>3, <2>4 DEF InternKey, x, y
<1>3. CASE col.ty # "F64"
  <2>1. x \in Int /\ y \in Int  BY <1>1, TypesDiffer DEF WellTyped
  <2>2. RowEqual(col, i, k) <=> ~ x < y /\ ~ y < x  BY <1>3 DEF RowEqual, RowLess
  <2> HIDE DEF x, y
  <2>3. RowEqual(col, i, k) <=> x = y  BY <2>1, <2>2
  <2> QED BY <1>3, <2>3 DEF InternKey, x, y
<1> QED BY <1>2, <1>3

\* Rows of a column are equal if both are missing or neither is and their
\* values are equal.
LEMMA EqualRows ==
    ASSUME NEW col, NEW rows, WellTyped(col, rows), NEW i \in rows, NEW k \in rows
    PROVE  /\ RowEqual(col, i, k) => (IsPresent(col, i) <=> IsPresent(col, k))
           /\ ~ IsPresent(col, i) /\ ~ IsPresent(col, k) => RowEqual(col, i, k)
           /\ /\ IsPresent(col, i) /\ IsPresent(col, k) /\ col.ty # "F64"
              => (RowEqual(col, i, k) <=> col.cells[i] = col.cells[k])
<1>1. RowEqual(col, i, k) => (IsPresent(col, i) <=> IsPresent(col, k))
  BY DEF RowEqual, RowLess
<1>2. ~ IsPresent(col, i) /\ ~ IsPresent(col, k) => RowEqual(col, i, k)
  BY DEF RowEqual, RowLess
<1>3. ASSUME IsPresent(col, i), IsPresent(col, k), col.ty # "F64"
      PROVE  RowEqual(col, i, k) <=> col.cells[i] = col.cells[k]
  <2>1. InternKey(col, i) = col.cells[i] /\ InternKey(col, k) = col.cells[k]
    BY <1>3 DEF InternKey
  <2> QED BY <1>3, <2>1, InternedAsEqual
<1> QED BY <1>1, <1>2, <1>3

\* column_ids: below card, and equal exactly if the rows are.
LEMMA ColumnIdsAre ==
    ASSUME NEW n \in Nat, NEW col, IsColumnOf(col, n), col.ty \in SortableTypes
    PROVE  LET key == ColumnIds(col)
           IN  /\ key.card \in Nat /\ key.card > 0
               /\ key.ids \in [0 .. n - 1 -> 0 .. key.card - 1]
               /\ \A i, k \in 0 .. n - 1 : key.ids[i] = key.ids[k] <=> RowEqual(col, i, k)
<1> DEFINE S == 0 .. n - 1
           P == Present(col)
           f == [i \in P |-> InternKey(col, i)]
           F == Firsts(f)
           C == ColumnIds(col).card
           id == ColumnIds(col).ids
<1>1. WellTyped(col, S) /\ DOMAIN col.cells = S
  BY SoundIsTyped DEF IsColumnOf
<1>2. P = {i \in S : IsPresent(col, i)}  BY <1>1 DEF Present
<1>3. /\ Cardinality(F) \in Nat
      /\ \A i \in P : SeenBefore(f, F, i) \in 0 .. Cardinality(F) - 1
      /\ \A i, k \in P : SeenBefore(f, F, i) = SeenBefore(f, F, k)
                           <=> RowEqual(col, i, k)
  <2>1. DOMAIN f = P  OBVIOUS
  <2>2. P \subseteq Nat /\ IsFiniteSet(P)  BY <1>2, CountBelow, FS_Subset
  <2>3. \A i, k \in P : f[i] = f[k] <=> RowEqual(col, i, k)
    BY <1>1, <1>2, InternedAsEqual
  <2> HIDE DEF P, f, F
  <2>4. /\ Cardinality(Firsts(f)) \in Nat
        /\ \A i \in P : SeenBefore(f, Firsts(f), i) \in 0 .. Cardinality(Firsts(f)) - 1
        /\ \A i, k \in P : SeenBefore(f, Firsts(f), i) = SeenBefore(f, Firsts(f), k)
                             <=> f[i] = f[k]
    BY <2>1, <2>2, ValuesNumbered
  <2> QED BY <2>3, <2>4 DEF F
<1> DEFINE interned == col.ty \notin {"DictUtf8", "Bool"}
           own(i) == IF interned THEN SeenBefore(f, F, i) ELSE col.cells[i]
<1>4. \A i \in S : id[i] = IF ~ IsPresent(col, i) THEN 0 ELSE 1 + own(i)
  BY <1>1 DEF ColumnIds
<1>5. /\ C \in Nat /\ C > 0
      /\ \A i \in P : own(i) \in Nat /\ 1 + own(i) < C
  <2>1. CASE col.ty = "DictUtf8"
    <3>1. C = 1 + Len(col.dictionary)  BY <2>1 DEF ColumnIds
    <3>2. Len(col.dictionary) \in Nat  BY DEF IsColumnOf
    <3>3. \A i \in P : col.cells[i] \in 0 .. Len(col.dictionary) - 1
      BY <1>2, <2>1 DEF IsColumnOf, CellsOf, IsPresent
    <3> QED BY <2>1, <3>1, <3>2, <3>3
  <2>2. CASE col.ty = "Bool"
    <3>1. C = 3  BY <2>2 DEF ColumnIds
    <3>2. \A i \in P : col.cells[i] \in {0, 1}
      BY <1>1, <1>2, <2>2 DEF WellTyped, CellValues, IsPresent
    <3> QED BY <2>2, <3>1, <3>2
  <2>3. CASE interned
    <3>1. C = 1 + Cardinality(F)  BY <2>3 DEF ColumnIds
    <3> HIDE DEF f, F, P
    <3> QED BY <1>3, <2>3, <3>1
  <2> QED BY <2>1, <2>2, <2>3
<1>6. \A i, k \in P : own(i) = own(k) <=> RowEqual(col, i, k)
  <2> SUFFICES ASSUME NEW i \in P, NEW k \in P
               PROVE  own(i) = own(k) <=> RowEqual(col, i, k)
    OBVIOUS
  <2>1. CASE interned  BY <1>3, <2>1
  <2>2. CASE ~ interned
    <3>1. col.ty # "F64"  BY <2>2
    <3>2. RowEqual(col, i, k) <=> col.cells[i] = col.cells[k]
      BY <1>1, <1>2, <3>1, EqualRows
    <3> QED BY <2>2, <3>2
  <2> QED BY <2>1, <2>2
<1>7. id \in [S -> 0 .. C - 1]
  <2>1. DOMAIN id = S /\ id = [i \in S |-> id[i]]  BY <1>1 DEF ColumnIds
  <2>2. \A i \in S : id[i] \in 0 .. C - 1
    <3> HIDE DEF id, own, C
    <3> QED BY <1>2, <1>4, <1>5
  <2> QED BY <2>1, <2>2
<1>8. \A i, k \in S : id[i] = id[k] <=> RowEqual(col, i, k)
  <2> SUFFICES ASSUME NEW i \in S, NEW k \in S
               PROVE  id[i] = id[k] <=> RowEqual(col, i, k)
    OBVIOUS
  <2>1. /\ RowEqual(col, i, k) => (IsPresent(col, i) <=> IsPresent(col, k))
        /\ ~ IsPresent(col, i) /\ ~ IsPresent(col, k) => RowEqual(col, i, k)
    BY <1>1, EqualRows
  <2> HIDE DEF id, own
  <2>2. CASE i \in P /\ k \in P
    <3>1. own(i) \in Nat /\ own(k) \in Nat  BY <1>5, <2>2
    <3>2. id[i] = 1 + own(i) /\ id[k] = 1 + own(k)  BY <1>2, <1>4, <2>2
    <3> QED BY <1>6, <2>2, <3>1, <3>2
  <2>3. CASE i \in P /\ k \notin P
    <3>1. own(i) \in Nat  BY <1>5, <2>3
    <3>2. id[i] = 1 + own(i) /\ id[k] = 0  BY <1>2, <1>4, <2>3
    <3> QED BY <1>2, <2>1, <2>3, <3>1, <3>2
  <2>4. CASE i \notin P /\ k \in P
    <3>1. own(k) \in Nat  BY <1>5, <2>4
    <3>2. id[k] = 1 + own(k) /\ id[i] = 0  BY <1>2, <1>4, <2>4
    <3> QED BY <1>2, <2>1, <2>4, <3>1, <3>2
  <2>5. CASE i \notin P /\ k \notin P
    <3>1. id[k] = 0 /\ id[i] = 0  BY <1>2, <1>4, <2>5
    <3> QED BY <1>2, <2>1, <2>5, <3>1
  <2> QED BY <2>2, <2>3, <2>4, <2>5
<1> HIDE DEF id, C
<1>9. /\ C \in Nat /\ C > 0
      /\ id \in [S -> 0 .. C - 1]
      /\ \A i, k \in S : id[i] = id[k] <=> RowEqual(col, i, k)
  BY <1>5, <1>7, <1>8
<1> QED BY <1>9 DEF id, C

\* A slot is of one pair: the second number is below the factor.
LEMMA SlotTellsApart ==
    ASSUME NEW c \in Nat, NEW a \in Nat, NEW b \in 0 .. c - 1,
           NEW x \in Nat, NEW y \in 0 .. c - 1, Slot(a, b, c) = Slot(x, y, c)
    PROVE  a = x /\ b = y
<1>1. a * c + b = x * c + y  BY DEF Slot
<1>2. a * c \in Nat /\ x * c \in Nat  OBVIOUS
<1>3. ASSUME NEW p \in Nat, NEW q \in Nat, p < q PROVE p * c + c <= q * c
  <2>1. PICK r \in Nat : q = p + 1 + r
    <3>1. q - p - 1 \in Nat /\ q = p + 1 + (q - p - 1)  BY <1>3
    <3> QED BY <3>1
  <2>2. q * c = p * c + c + r * c /\ r * c \in Nat  BY <2>1
  <2>3. p * c \in Nat  OBVIOUS
  <2> QED BY <2>2, <2>3
<1>4. ~ a < x
  <2> SUFFICES ASSUME a < x PROVE FALSE  OBVIOUS
  <2>1. a * c + c <= x * c  BY <1>3
  <2> QED BY <1>1, <1>2, <2>1
<1>5. ~ x < a
  <2> SUFFICES ASSUME x < a PROVE FALSE  OBVIOUS
  <2>1. x * c + c <= a * c  BY <1>3
  <2> QED BY <1>1, <1>2, <2>1
<1>6. a = x  BY <1>4, <1>5
<1> QED BY <1>1, <1>2, <1>6

\* The first m keys tell rows i and j apart nowhere.
SameKeys(keys, m, i, j) == \A k \in 1 .. m : RowEqual(keys[k], i, j)

\* Groups of the rows below n by the first m keys, numbered without gaps in
\* the order of their first rows.
Grouped(groups, n, keys, m) ==
    /\ groups.ids \in [0 .. n - 1 -> Nat]
    /\ \A i, j \in 0 .. n - 1 : groups.ids[i] = groups.ids[j] <=> SameKeys(keys, m, i, j)
    /\ m > 0 =>
          /\ groups.count \in 0 .. n
          /\ \A i \in 0 .. n - 1 : groups.ids[i] \in 0 .. groups.count - 1
          /\ groups.first_row \in [0 .. groups.count - 1 -> 0 .. n - 1]
          /\ \A g \in 0 .. groups.count - 1 :
                /\ groups.ids[groups.first_row[g]] = g
                /\ \A i \in 0 .. n - 1 : groups.ids[i] = g => groups.first_row[g] <= i
    /\ m = 0 => groups = [ids |-> [i \in 0 .. n - 1 |-> 0], count |-> 1, first_row |-> << >>]

\* Columns that rows can be grouped by.
GroupKeys(keys, n) ==
    /\ Len(keys) \in Nat /\ DOMAIN keys = 1 .. Len(keys)
    /\ \A k \in DOMAIN keys : IsColumnOf(keys[k], n) /\ keys[k].ty \in SortableTypes

\* Combining the groups of m keys with one more key groups by m + 1 keys.
LEMMA CombinedGroups ==
    ASSUME NEW n \in Nat, NEW keys, GroupKeys(keys, n), NEW m \in Nat, m < Len(keys),
           NEW groups, Grouped(groups, n, keys, m)
    PROVE  Grouped(Combine(groups.ids, ColumnIds(keys[m + 1])), n, keys, m + 1)
<1> DEFINE S == 0 .. n - 1
           a == groups.ids
           key == ColumnIds(keys[m + 1])
           C == key.card
           b == key.ids
           f == [i \in DOMAIN a |-> Slot(a[i], b[i], C)]
           G == Combine(a, key)
<1>1. /\ C \in Nat /\ b \in [S -> 0 .. C - 1]
      /\ \A i, k \in S : b[i] = b[k] <=> RowEqual(keys[m + 1], i, k)
  <2>1. m + 1 \in DOMAIN keys  BY DEF GroupKeys
  <2>2. IsColumnOf(keys[m + 1], n) /\ keys[m + 1].ty \in SortableTypes
    BY <2>1 DEF GroupKeys
  <2> QED BY <2>2, ColumnIdsAre
<1>2. /\ a \in [S -> Nat]
      /\ \A i, j \in S : a[i] = a[j] <=> SameKeys(keys, m, i, j)
  BY DEF Grouped
<1> HIDE DEF a, key
<1>3. DOMAIN f = S  BY <1>2
<1>4. \A i, j \in S : f[i] = f[j] <=> SameKeys(keys, m + 1, i, j)
  <2> SUFFICES ASSUME NEW i \in S, NEW j \in S
               PROVE  f[i] = f[j] <=> SameKeys(keys, m + 1, i, j)
    OBVIOUS
  <2>1. f[i] = Slot(a[i], b[i], C) /\ f[j] = Slot(a[j], b[j], C)  BY <1>2
  <2>2. /\ a[i] \in Nat /\ b[i] \in 0 .. C - 1 /\ a[j] \in Nat /\ b[j] \in 0 .. C - 1
    BY <1>1, <1>2
  <2>3. f[i] = f[j] <=> (a[i] = a[j] /\ b[i] = b[j])
    <3> DEFINE w == a[i]  x == b[i]  y == a[j]  z == b[j]  v == f[i]  u == f[j]
    <3>1. v = Slot(w, x, C) /\ u = Slot(y, z, C)  BY <2>1
    <3>2. /\ C \in Nat /\ w \in Nat /\ y \in Nat
          /\ x \in 0 .. C - 1 /\ z \in 0 .. C - 1
      BY <1>1, <2>2
    <3> HIDE DEF f, b, C, w, x, y, z, v, u
    <3>3. CASE v = u
      <4>1. Slot(w, x, C) = Slot(y, z, C)  BY <3>1, <3>3
      <4>2. w = y /\ x = z  BY <3>2, <4>1, SlotTellsApart
      <4> QED BY <3>3, <4>2 DEF v, u, w, x, y, z
    <3>4. CASE v # u
      <4>1. ~ (w = y /\ x = z)  BY <3>1, <3>4
      <4> QED BY <3>4, <4>1 DEF v, u, w, x, y, z
    <3> QED BY <3>3, <3>4
  <2>4. SameKeys(keys, m + 1, i, j)
          <=> (SameKeys(keys, m, i, j) /\ RowEqual(keys[m + 1], i, j))
    <3>1. \A k : k \in 1 .. m + 1 <=> (k \in 1 .. m \/ k = m + 1)  OBVIOUS
    <3> QED BY <3>1 DEF SameKeys
  <2> QED BY <1>1, <1>2, <2>3, <2>4
<1> DEFINE F == Firsts(f)
<1>5. /\ Cardinality(F) \in Nat /\ Cardinality(F) <= n
      /\ \A i \in S : SeenBefore(f, F, i) \in 0 .. Cardinality(F) - 1
      /\ \A i, k \in S : SeenBefore(f, F, i) = SeenBefore(f, F, k) <=> f[i] = f[k]
      /\ Ascending(F) \in [0 .. Cardinality(F) - 1 -> S]
      /\ \A g \in 0 .. Cardinality(F) - 1 :
            /\ SeenBefore(f, F, Ascending(F)[g]) = g
            /\ \A i \in S : SeenBefore(f, F, i) = g => Ascending(F)[g] <= i
  <2>1. S \subseteq Nat /\ IsFiniteSet(S) /\ Cardinality(S) = n  BY CountBelow
  <2> HIDE DEF f, S
  <2>2. /\ Cardinality(Firsts(f)) \in Nat /\ Cardinality(Firsts(f)) <= Cardinality(S)
        /\ \A i \in S : SeenBefore(f, Firsts(f), i) \in 0 .. Cardinality(Firsts(f)) - 1
        /\ \A i, k \in S :
              SeenBefore(f, Firsts(f), i) = SeenBefore(f, Firsts(f), k) <=> f[i] = f[k]
        /\ Ascending(Firsts(f)) \in [0 .. Cardinality(Firsts(f)) - 1 -> S]
        /\ \A g \in 0 .. Cardinality(Firsts(f)) - 1 :
              /\ SeenBefore(f, Firsts(f), Ascending(Firsts(f))[g]) = g
              /\ \A i \in S : SeenBefore(f, Firsts(f), i) = g
                                 => Ascending(Firsts(f))[g] <= i
    BY <1>3, <2>1, ValuesNumbered
  <2> QED BY <2>1, <2>2 DEF F
<1>6. G.ids = [i \in S |-> SeenBefore(f, F, i)] /\ G.count = Cardinality(F)
        /\ G.first_row = Ascending(F)
  BY <1>2 DEF Combine
<1> HIDE DEF f, F, G, S
<1>7. m + 1 # 0 /\ n \in Nat  OBVIOUS
<1>8. \A i \in S : G.ids[i] = SeenBefore(f, F, i)  BY <1>6
<1>9. G.ids \in [S -> Nat]
  <2>1. \A i \in S : SeenBefore(f, F, i) \in Nat  BY <1>5
  <2> QED BY <1>6, <2>1
<1>10. \A i, j \in S : G.ids[i] = G.ids[j] <=> SameKeys(keys, m + 1, i, j)
  BY <1>4, <1>5, <1>8
<1>11. /\ G.count \in 0 .. n
       /\ \A i \in S : G.ids[i] \in 0 .. G.count - 1
       /\ G.first_row \in [0 .. G.count - 1 -> S]
  BY <1>5, <1>6, <1>8
<1>12. \A g \in 0 .. G.count - 1 :
          /\ G.ids[G.first_row[g]] = g
          /\ \A i \in S : G.ids[i] = g => G.first_row[g] <= i
  BY <1>5, <1>6, <1>8
<1>13. Grouped(G, n, keys, m + 1)
  BY <1>7, <1>9, <1>10, <1>11, <1>12 DEF Grouped, S
<1> QED BY <1>13 DEF G, key, a

\* group, by any number of keys.
LEMMA GroupsAre ==
    ASSUME NEW n \in Nat, NEW keys, GroupKeys(keys, n)
    PROVE  Grouped(Group(n, keys), n, keys, Len(keys))
<1> DEFINE same == [i \in 0 .. n - 1 |-> 0]
           Step(k, h) == IF k = 0 THEN [ids |-> same, count |-> 1, first_row |-> << >>]
                         ELSE Combine(h[k - 1].ids, ColumnIds(keys[k]))
           N == Len(keys)
           Solves(h, m) == h = [k \in 0 .. m |-> Step(k, h)]
           Good(h, m) == \A k \in 0 .. m : Grouped(h[k], n, keys, k)
           Done == {m \in Nat : m <= N => \E h : Solves(h, m) /\ Good(h, m)}
<1>1. N \in Nat  BY DEF GroupKeys
<1>2. 0 \in Done
  <2> DEFINE h == [k \in 0 .. 0 |-> Step(0, << >>)]
  <2>1. Solves(h, 0)  OBVIOUS
  <2>2. Grouped(h[0], n, keys, 0)
    <3>1. h[0] = [ids |-> same, count |-> 1, first_row |-> << >>]  OBVIOUS
    <3>2. h[0].ids = same  BY <3>1
    <3> HIDE DEF h
    <3> QED BY <3>1, <3>2 DEF Grouped, SameKeys
  <2>3. Good(h, 0)
    <3> HIDE DEF h
    <3> QED BY <2>2
  <2> HIDE DEF Solves, Good, h
  <2> QED BY <2>1, <2>3
<1>3. ASSUME NEW m \in Nat, m \in Done PROVE m + 1 \in Done
  <2>1. CASE ~ m + 1 <= N  BY <2>1
  <2>2. CASE m + 1 <= N
    <3>1. PICK h : Solves(h, m) /\ Good(h, m)  BY <1>1, <1>3, <2>2
    <3> DEFINE g == [k \in 0 .. m + 1 |-> IF k = m + 1 THEN Step(m + 1, h) ELSE h[k]]
    <3>2. DOMAIN h = 0 .. m /\ \A k \in 0 .. m : g[k] = h[k]  BY <3>1
    <3>3. g[m + 1] = Combine(h[m].ids, ColumnIds(keys[m + 1]))  OBVIOUS
    <3> HIDE DEF g
    <3>4. \A k \in 0 .. m + 1 : g[k] = Step(k, g)
      <4> SUFFICES ASSUME NEW k \in 0 .. m + 1 PROVE g[k] = Step(k, g)  OBVIOUS
      <4>1. CASE k = m + 1
        <5>1. g[m] = h[m]  BY <3>2
        <5> QED BY <3>3, <4>1, <5>1
      <4>2. CASE k # m + 1
        <5>1. k \in 0 .. m  BY <4>2
        <5>2. h[k] = Step(k, h)
          <6> DEFINE body(i) == Step(i, h)
          <6>1. h = [i \in 0 .. m |-> body(i)]  BY <3>1
          <6> HIDE DEF body
          <6>2. h[k] = body(k)  BY <5>1, <6>1
          <6> QED BY <6>2 DEF body
        <5>3. k # 0 => g[k - 1] = h[k - 1]
          <6>1. k # 0 => k - 1 \in 0 .. m  BY <5>1
          <6> QED BY <3>2, <6>1
        <5> QED BY <3>2, <5>1, <5>2, <5>3
      <4> QED BY <4>1, <4>2
    <3>5. Solves(g, m + 1)
      <4>1. DOMAIN g = 0 .. m + 1 /\ g = [k \in 0 .. m + 1 |-> g[k]]  BY DEF g
      <4> HIDE DEF Step
      <4> QED BY <3>4, <4>1
    <3>6. Good(g, m + 1)
      <4>1. Grouped(h[m], n, keys, m)  BY <3>1
      <4>2. Grouped(g[m + 1], n, keys, m + 1)
        BY <1>1, <2>2, <3>3, <4>1, CombinedGroups
      <4> QED BY <3>1, <3>2, <4>2
    <3> HIDE DEF Solves, Good
    <3> QED BY <3>5, <3>6
  <2> QED BY <2>1, <2>2
<1>4. PICK h : Solves(h, N) /\ Good(h, N)
  <2> HIDE DEF Done
  <2>1. Nat \subseteq Done  BY <1>2, <1>3, SetInduction
  <2> QED BY <1>1, <2>1 DEF Done
<1> DEFINE acc == CHOOSE f : Solves(f, N)
<1>5. Solves(acc, N)
  <2> HIDE DEF Solves
  <2> QED BY <1>4
<1>6. Group(n, keys) = acc[N]  BY DEF Group
<1>7. acc[N] = h[N]
  <2> DEFINE E == {m \in Nat : m <= N => acc[m] = h[m]}
  <2> HIDE DEF acc
  <2>1. \A f, m : Solves(f, N) /\ m \in 0 .. N => f[m] = Step(m, f)
    <3> SUFFICES ASSUME NEW f, NEW m \in 0 .. N, Solves(f, N) PROVE f[m] = Step(m, f)
      OBVIOUS
    <3> DEFINE body(i) == Step(i, f)
    <3>1. f = [i \in 0 .. N |-> body(i)]  OBVIOUS
    <3> HIDE DEF body
    <3>2. f[m] = body(m)  BY <3>1
    <3> QED BY <3>2 DEF body
  <2>2. 0 \in E  BY <1>1, <1>4, <1>5, <2>1
  <2>3. ASSUME NEW m \in Nat, m \in E PROVE m + 1 \in E
    <3> SUFFICES ASSUME m + 1 <= N PROVE acc[m + 1] = h[m + 1]  OBVIOUS
    <3>1. acc[m] = h[m]  BY <1>1, <2>3
    <3>2. m + 1 \in 0 .. N  BY <1>1
    <3>3. acc[m + 1] = Step(m + 1, acc) /\ h[m + 1] = Step(m + 1, h)
      BY <1>4, <1>5, <2>1, <3>2
    <3> QED BY <3>1, <3>3
  <2> HIDE DEF E
  <2>4. Nat \subseteq E  BY <2>2, <2>3, SetInduction
  <2> QED BY <1>1, <2>4 DEF E
<1> HIDE DEF acc
<1> QED BY <1>1, <1>4, <1>6, <1>7

\* Columns to group by, taken as keys that ascend.
LEMMA AscendingKeys ==
    ASSUME NEW n \in Nat, NEW keys, GroupKeys(keys, n)
    PROVE  /\ \E K : Ascend(keys) \in Seq(K)
           /\ DOMAIN Ascend(keys) = DOMAIN keys
           /\ KeysOf(Ascend(keys), n)
           /\ \A k \in DOMAIN keys : Ascend(keys)[k].col = keys[k]
<1> DEFINE A == Ascend(keys)
           m == Len(keys)
           K == {A[k] : k \in 1 .. m}
<1>1. m \in Nat /\ DOMAIN keys = 1 .. m  BY DEF GroupKeys
<1>2. A = [k \in 1 .. m |-> [col |-> keys[k], descending |-> FALSE]]
  BY <1>1 DEF Ascend
<1> HIDE DEF A, m
<1>3. DOMAIN A = 1 .. m /\ A \in [1 .. m -> K]  BY <1>2
<1>4. A \in Seq(K)
  <2> HIDE DEF K
  <2> QED BY <1>1, <1>3
<1>5. \A k \in 1 .. m : A[k].col = keys[k] /\ A[k].descending = FALSE  BY <1>2
<1>6. \A k \in 1 .. m : WellTyped(keys[k], 0 .. n - 1)
  BY <1>1, SoundIsTyped DEF GroupKeys
<1>7. KeysOf(A, n)  BY <1>3, <1>5, <1>6 DEF KeysOf
<1> QED BY <1>1, <1>3, <1>4, <1>5, <1>7 DEF A

\* The pairs of groups, the one before the other by its first row's keys.
GroupPairs(keys, groups) ==
    LET T == 0 .. groups.count - 1
    IN  {p \in T \X T : ComparedBefore(Ascend(keys), groups.first_row[p[1]],
                                       groups.first_row[p[2]])}

\* Groups are ranked by their keys.
LEMMA GroupOrderRanked ==
    ASSUME NEW keys, keys # << >>, NEW groups
    PROVE  GroupOrder(groups, keys)
             = RankedIn(0 .. groups.count - 1, GroupPairs(keys, groups))
<1> DEFINE S == 0 .. groups.count - 1
           Before(y, x) == ComparedBefore(Ascend(keys), groups.first_row[y],
                                          groups.first_row[x])
           At(i) == CHOOSE x \in S : Cardinality({y \in S : Before(y, x)}) = i
           In(i) == CHOOSE x \in S : Cardinality(Earlier(x, S, GroupPairs(keys, groups))) = i
<1>1. \A x \in S : {y \in S : Before(y, x)} = Earlier(x, S, GroupPairs(keys, groups))
  BY DEF Earlier, GroupPairs
<1>2. \A i : At(i) = In(i)  BY <1>1
<1>3. GroupOrder(groups, keys) = [i \in 0 .. Cardinality(S) - 1 |-> At(i)]
  BY DEF GroupOrder, Ranked
<1>4. RankedIn(S, GroupPairs(keys, groups)) = [i \in 0 .. Cardinality(S) - 1 |-> In(i)]
  BY DEF RankedIn
<1> HIDE DEF At, In
<1> QED BY <1>2, <1>3, <1>4

\* Groups of one key or more come in the order of their keys.
LEMMA GroupOrderLists ==
    ASSUME NEW n \in Nat, NEW keys, GroupKeys(keys, n), Len(keys) > 0,
           NEW groups, Grouped(groups, n, keys, Len(keys))
    PROVE  LET T == 0 .. groups.count - 1
               R == GroupPairs(keys, groups)
           IN  /\ Lists(GroupOrder(groups, keys), groups.count, T, R)
               /\ Asymmetric(R, T)
<1> DEFINE c == groups.count
           T == 0 .. c - 1
           S == 0 .. n - 1
           A == Ascend(keys)
           f == groups.first_row
           R == GroupPairs(keys, groups)
<1>1. Len(keys) \in Nat  BY DEF GroupKeys
<1>2. c \in Nat /\ f \in [T -> S] /\ \A g \in T : groups.ids[f[g]] = g
  BY <1>1 DEF Grouped
<1>3. Orders(ComparedPairs(A, S), S)
  <2>1. PICK K : A \in Seq(K)  BY AscendingKeys
  <2> QED BY <2>1, AscendingKeys, ComparedOrders
<1>4. \A x, y \in T : f[x] = f[y] => x = y  BY <1>2
<1>5. R = {p \in T \X T : <<f[p[1]], f[p[2]]>> \in ComparedPairs(A, S)}
  <2>1. \A x, y \in T : <<f[x], f[y]>> \in ComparedPairs(A, S)
                          <=> ComparedBefore(A, f[x], f[y])
    <3>1. \A x \in T : f[x] \in S  BY <1>2
    <3> HIDE DEF S, T, f
    <3> QED BY <3>1 DEF ComparedPairs
  <2>2. R = {p \in T \X T : ComparedBefore(A, f[p[1]], f[p[2]])}  BY DEF GroupPairs
  <2> HIDE DEF S, T, f, A, R
  <2> QED BY <2>1, <2>2
<1> HIDE DEF f, A, S, T, R
<1>6. Orders(R, T)  BY <1>2, <1>3, <1>4, <1>5, OrdersBack
<1>7. IsFiniteSet(T) /\ Cardinality(T) = c  BY <1>2, CountBelow DEF T
<1>8. Lists(RankedIn(T, R), c, T, R)  BY <1>6, <1>7, RankedLists
<1>9. keys # << >>  BY <1>1
<1>10. GroupOrder(groups, keys) = RankedIn(T, R)  BY <1>9, GroupOrderRanked DEF T, R
<1>11. Lists(GroupOrder(groups, keys), c, T, R) /\ Asymmetric(R, T)
  BY <1>6, <1>8, <1>10 DEF Orders
<1> QED BY <1>11 DEF T, R

\* What GroupsAreKeys says of one table and its columns.
LEMMA TableGroups ==
    ASSUME NEW t, GoodTable(t), NEW keys \in ColumnLists(t)
    PROVE  LET groups == Group(t.len, keys)
               order == GroupOrder(groups, keys)
               same(i, j) == \A k \in DOMAIN keys : RowEqual(keys[k], i, j)
           IN  /\ \A i, j \in RowsOf(t) :
                     groups.ids[i] = groups.ids[j] <=> same(i, j)
               /\ {groups.ids[i] : i \in RowsOf(t)} = 0 .. groups.count - 1
               /\ \A g \in 0 .. groups.count - 1 :
                     /\ groups.ids[groups.first_row[g]] = g
                     /\ \A i \in 0 .. groups.first_row[g] - 1 : groups.ids[i] # g
               /\ \A p, q \in 0 .. groups.count - 1 :
                     p < q <=> ComparedBefore(Ascend(keys), groups.first_row[order[p]],
                                              groups.first_row[order[q]])
<1> DEFINE groups == Group(t.len, keys)
           order == GroupOrder(groups, keys)
           n == t.len
           S == 0 .. n - 1
           c == groups.count
           same(i, j) == \A k \in DOMAIN keys : RowEqual(keys[k], i, j)
<1>1. n \in Nat  BY TableLen
<1>2. GroupKeys(keys, n) /\ Len(keys) \in Nat /\ Len(keys) > 0
      /\ DOMAIN keys = 1 .. Len(keys)
  <2>1. Len(keys) \in 1 .. 2  BY ListedColumns
  <2>2. DOMAIN keys = 1 .. Len(keys)  BY ListedColumns
  <2>3. \A k \in DOMAIN keys : \E j \in Sortable(t) : keys[k] = t.columns[j]
    BY DEF ColumnLists
  <2>4. \A k \in DOMAIN keys : IsColumnOf(keys[k], n) /\ keys[k].ty \in SortableTypes
    BY <2>3, ColumnsOfTable DEF Sortable
  <2> QED BY <2>1, <2>2, <2>4 DEF GroupKeys
<1>3. Grouped(groups, n, keys, Len(keys))  BY <1>1, <1>2, GroupsAre
<1> HIDE DEF groups, n
<1>4. /\ Lists(order, c, 0 .. c - 1, GroupPairs(keys, groups))
      /\ Asymmetric(GroupPairs(keys, groups), 0 .. c - 1)
  BY <1>1, <1>2, <1>3, GroupOrderLists
<1>5. \A i, j \in S : groups.ids[i] = groups.ids[j] <=> same(i, j)
  BY <1>2, <1>3 DEF Grouped, SameKeys
<1>6. /\ c \in Nat
      /\ \A i \in S : groups.ids[i] \in 0 .. c - 1
      /\ \A g \in 0 .. c - 1 : groups.first_row[g] \in S
      /\ \A g \in 0 .. c - 1 :
            /\ groups.ids[groups.first_row[g]] = g
            /\ \A i \in S : groups.ids[i] = g => groups.first_row[g] <= i
  BY <1>2, <1>3 DEF Grouped
<1>7. {groups.ids[i] : i \in S} = 0 .. c - 1  BY <1>6
<1>8. \A g \in 0 .. c - 1 : \A i \in 0 .. groups.first_row[g] - 1 : groups.ids[i] # g
  <2> SUFFICES ASSUME NEW g \in 0 .. c - 1, NEW i \in 0 .. groups.first_row[g] - 1,
                      groups.ids[i] = g
               PROVE  FALSE
    OBVIOUS
  <2>1. groups.first_row[g] \in S  BY <1>6
  <2>2. i \in S /\ i < groups.first_row[g]  BY <1>1, <2>1
  <2>3. groups.first_row[g] <= i  BY <1>6, <2>2
  <2> QED BY <1>1, <2>1, <2>2, <2>3
<1>9. ASSUME NEW p \in 0 .. c - 1, NEW q \in 0 .. c - 1
      PROVE  p < q <=> ComparedBefore(Ascend(keys), groups.first_row[order[p]],
                                      groups.first_row[order[q]])
  <2> DEFINE T == 0 .. c - 1
             R == GroupPairs(keys, groups)
  <2>1. order[p] \in T /\ order[q] \in T  BY <1>4 DEF Lists
  <2>2. <<order[p], order[q]>> \in R
          <=> ComparedBefore(Ascend(keys), groups.first_row[order[p]],
                             groups.first_row[order[q]])
    BY <2>1 DEF GroupPairs
  <2>3. p < q => <<order[p], order[q]>> \in R  BY <1>4 DEF Lists
  <2>4. q < p => <<order[q], order[p]>> \in R  BY <1>4 DEF Lists
  <2>5. <<order[p], order[q]>> \in R => <<order[q], order[p]>> \notin R
    BY <1>4, <2>1 DEF Asymmetric
  <2> HIDE DEF R
  <2>6. p < q \/ q < p \/ p = q  BY <1>6
  <2>7. <<order[p], order[q]>> \in R => p < q  BY <2>4, <2>5, <2>6
  <2> QED BY <2>2, <2>3, <2>7
<1>10. RowsOf(t) = S  BY DEF RowsOf, n
<1> HIDE DEF S, c, order, same
<1>11. /\ \A i, j \in RowsOf(t) : groups.ids[i] = groups.ids[j] <=> same(i, j)
       /\ {groups.ids[i] : i \in RowsOf(t)} = 0 .. c - 1
       /\ \A g \in 0 .. c - 1 :
             /\ groups.ids[groups.first_row[g]] = g
             /\ \A i \in 0 .. groups.first_row[g] - 1 : groups.ids[i] # g
       /\ \A p, q \in 0 .. c - 1 :
             p < q <=> ComparedBefore(Ascend(keys), groups.first_row[order[p]],
                                      groups.first_row[order[q]])
  BY <1>5, <1>6, <1>7, <1>8, <1>9, <1>10
<1> QED BY <1>11 DEF groups, n, c, order, same

----------------------------------------------------------------------------
(* Rows that are gathered.                                                 *)

\* The rows of a sound column, in any order and with any left out, repeated
\* or missing, are a sound column.
LEMMA GatherFits ==
    ASSUME NEW n \in Nat, NEW col, IsColumnOf(col, n), NEW m \in Nat,
           NEW rows \in [0 .. m - 1 -> 0 .. n - 1 \cup {Missing}]
    PROVE  LET g == GatherColumn(col, rows)
           IN  /\ IsColumnOf(g, m) /\ g.name = col.name /\ g.ty = col.ty
               /\ DOMAIN g.cells = 0 .. m - 1
               /\ (~ HasMissing(col) /\ \A i \in 0 .. m - 1 : rows[i] # Missing)
                    => ~ HasMissing(g)
<1> DEFINE g == GatherColumn(col, rows)
           V == CellsOf(col) \cup {Missing}
           cells == [i \in 0 .. m - 1 |-> IF rows[i] = Missing THEN Missing
                                          ELSE col.cells[rows[i]]]
<1>1. /\ col = [name |-> col.name, ty |-> col.ty, cells |-> col.cells,
                dictionary |-> col.dictionary]
      /\ col.cells \in [0 .. n - 1 -> V]
  BY DEF IsColumnOf, NewColumn
<1>2. g = [name |-> col.name, ty |-> col.ty, cells |-> cells,
           dictionary |-> col.dictionary]
  <2>1. g = [col EXCEPT !.cells = cells]  BY DEF GatherColumn
  <2> HIDE DEF cells, g
  <2> QED BY <1>1, <2>1
<1>3. \A i \in 0 .. m - 1 : rows[i] = Missing \/ rows[i] \in 0 .. n - 1  OBVIOUS
<1>4. cells \in [0 .. m - 1 -> V]
  <2> HIDE DEF V
  <2>1. Missing \in V  BY DEF V
  <2>2. \A i \in 0 .. m - 1 : cells[i] \in V  BY <1>1, <1>3, <2>1
  <2> QED BY <2>2
<1>5. g.name = col.name /\ g.ty = col.ty /\ g.cells = cells
        /\ g.dictionary = col.dictionary
  <2> HIDE DEF cells, g
  <2> QED BY <1>2
<1>6. (~ HasMissing(col) /\ \A i \in 0 .. m - 1 : rows[i] # Missing) => ~ HasMissing(g)
  <2> SUFFICES ASSUME ~ HasMissing(col), \A i \in 0 .. m - 1 : rows[i] # Missing,
                      NEW i \in DOMAIN cells, cells[i] = Missing
               PROVE  FALSE
    BY <1>5 DEF HasMissing, IsPresent
  <2>1. rows[i] \in 0 .. n - 1 /\ cells[i] = col.cells[rows[i]]  BY <1>3
  <2>2. rows[i] \in DOMAIN col.cells  BY <1>1, <2>1
  <2> QED BY <2>1, <2>2 DEF HasMissing, IsPresent
<1> HIDE DEF g, cells
<1>7. CellsOf(g) = CellsOf(col)  BY <1>5 DEF CellsOf
<1>8. IsColumnOf(g, m)
  BY <1>2, <1>4, <1>5, <1>7 DEF IsColumnOf, NewColumn
<1>9. DOMAIN cells = 0 .. m - 1  BY DEF cells
<1> QED BY <1>5, <1>6, <1>8, <1>9 DEF g

\* A sound column of numbers made by the executor.
LEMMA MadeColumn ==
    ASSUME NEW m \in Nat, NEW name, NEW ty \in AnyType \ {"DictUtf8"}, NEW cells,
           cells \in [0 .. m - 1 -> ValuesOfType(ty) \cup {Missing}],
           NEW c, c = NewColumn(name, ty, cells, << >>)
    PROVE  /\ IsColumnOf(c, m) /\ c.name = name /\ c.ty = ty
           /\ DOMAIN c.cells = 0 .. m - 1 /\ c.cells = cells
<1>1. c.name = name /\ c.ty = ty /\ c.cells = cells /\ c.dictionary = << >>
  BY DEF NewColumn
<1>2. c = NewColumn(c.name, c.ty, c.cells, c.dictionary)  BY <1>1
<1>3. CellsOf(c) = ValuesOfType(ty)  BY <1>1 DEF CellsOf, ValuesOfType
<1>4. << >> \in Seq(Int) /\ Len(<< >>) = 0 /\ DOMAIN << >> = {}  OBVIOUS
<1>5. 0 <= Half  BY NumberFacts
<1>6. IsColumnOf(c, m)
  BY <1>1, <1>2, <1>3, <1>4, <1>5 DEF IsColumnOf, AnyType
<1> QED BY <1>1, <1>6

----------------------------------------------------------------------------
(* Aggregates.                                                             *)

\* Rows of a column that have a value.
Members(col, n, M) == M \subseteq {i \in 0 .. n - 1 : IsPresent(col, i)}

\* Members are so many rows, which have values of the column's type.
LEMMA MembersAre ==
    ASSUME NEW n \in Nat, NEW col, WellTyped(col, 0 .. n - 1), NEW M, Members(col, n, M)
    PROVE  /\ IsFiniteSet(M) /\ Cardinality(M) \in Nat /\ Cardinality(M) <= n
           /\ M # {} => Cardinality(M) > 0
           /\ \A i \in M : i \in 0 .. n - 1 /\ col.cells[i] \in CellValues(col.ty)
           /\ Lists(Ascending(M), Cardinality(M), M, Less)
<1>1. M \subseteq 0 .. n - 1  BY DEF Members
<1>2. IsFiniteSet(0 .. n - 1) /\ Cardinality(0 .. n - 1) = n  BY CountBelow
<1>3. IsFiniteSet(M) /\ Cardinality(M) <= n  BY <1>1, <1>2, FS_Subset
<1>4. Cardinality(M) \in Nat  BY <1>3, FS_CardinalityType
<1>5. M # {} => Cardinality(M) > 0  BY <1>3, <1>4, FS_EmptySet
<1>6. \A i \in M : i \in 0 .. n - 1 /\ col.cells[i] \in CellValues(col.ty)
  BY <1>1 DEF Members, WellTyped, IsPresent
<1>7. M \in SUBSET Int  BY <1>1
<1>8. Lists(Ascending(M), Cardinality(M), M, Less)  BY <1>3, <1>7, AscendingLists
<1> QED BY <1>1, <1>3, <1>4, <1>5, <1>6, <1>8

\* A sum of integers is at most as large as that many of the largest.
LEMMA IntegerSums ==
    ASSUME NEW n \in Nat, NEW col, WellTyped(col, 0 .. n - 1), col.ty = "I64",
           NEW M, Members(col, n, M)
    PROVE  /\ IntegerSum(col, M) \in Int
           /\ - (Cardinality(M) * Half) <= IntegerSum(col, M)
           /\ IntegerSum(col, M) <= Cardinality(M) * Half
<1> DEFINE N == Cardinality(M)
           rows == Ascending(M)
           F == [p \in (1 .. N) \X Int |-> p[2] + col.cells[rows[p[1] - 1]]]
           body(k, h) == IF k = 0 THEN 0 ELSE h[k - 1] + col.cells[rows[k - 1]]
           Solves(h) == h = [k \in 0 .. N |-> body(k, h)]
           sum == CHOOSE h : Solves(h)
<1>1. /\ N \in Nat
      /\ \A k \in 1 .. N : /\ col.cells[rows[k - 1]] \in Int
                           /\ - Half <= col.cells[rows[k - 1]]
                           /\ col.cells[rows[k - 1]] <= Half
  <2>1. /\ N \in Nat /\ \A i \in M : col.cells[i] \in CellValues("I64")
        /\ rows \in [0 .. N - 1 -> M]
    BY MembersAre DEF Lists
  <2>2. \A k \in 1 .. N : k - 1 \in 0 .. N - 1  BY <2>1
  <2> HIDE DEF rows, N
  <2>3. \A k \in 1 .. N : rows[k - 1] \in M  BY <2>1, <2>2
  <2>4. \A v \in CellValues("I64") : v \in Int /\ - Half <= v /\ v <= Half
    BY NumberFacts DEF CellValues, I64
  <2> QED BY <2>1, <2>3, <2>4
<1> HIDE DEF rows, N
<1>2. F \in [(1 .. N) \X Int -> Int]
  <2>1. \A p \in (1 .. N) \X Int : p[2] + col.cells[rows[p[1] - 1]] \in Int
    <3> TAKE p \in (1 .. N) \X Int
    <3>1. p[1] \in 1 .. N /\ p[2] \in Int  OBVIOUS
    <3> QED BY <1>1, <3>1
  <2> QED BY <2>1
<1>3. PICK h : Repeats(h, N, 0, F) /\ h \in [0 .. N -> Int]
  <2> HIDE DEF F
  <2>1. N \in Nat /\ 0 \in Int  BY <1>1
  <2>2. \E h : Repeats(h, N, 0, F)  BY <1>2, <2>1, Iterated
  <2>3. \A h : Repeats(h, N, 0, F) => h \in [0 .. N -> Int]  BY <1>2, <2>1, Iterated
  <2> QED BY <2>2, <2>3
<1>4. Solves(h)
  <2>1. \A k \in 0 .. N : (IF k = 0 THEN 0 ELSE F[<<k, h[k - 1]>>]) = body(k, h)
    <3> TAKE k \in 0 .. N
    <3>1. CASE k # 0
      <4>1. k \in 1 .. N /\ k - 1 \in 0 .. N  BY <1>1, <3>1
      <4>2. h[k - 1] \in Int  BY <1>3, <4>1
      <4>3. F[<<k, h[k - 1]>>] = h[k - 1] + col.cells[rows[k - 1]]  BY <4>1, <4>2
      <4> QED BY <3>1, <4>3
    <3> QED BY <3>1
  <2> DEFINE left(k) == IF k = 0 THEN 0 ELSE F[<<k, h[k - 1]>>]
  <2>2. h = [k \in 0 .. N |-> left(k)]  BY <1>3 DEF Repeats
  <2>3. \A k \in 0 .. N : left(k) = body(k, h)  BY <2>1
  <2> HIDE DEF left, body
  <2> QED BY <2>2, <2>3
<1>5. Solves(sum)
  <2> HIDE DEF Solves
  <2> QED BY <1>4
<1>6. IntegerSum(col, M) = sum[N]  BY DEF IntegerSum, N, rows
<1> HIDE DEF sum
<1>7. \A k \in 0 .. N : sum[k] = body(k, sum)
  <2> DEFINE now(k) == body(k, sum)
  <2>1. sum = [k \in 0 .. N |-> now(k)]  BY <1>5
  <2> HIDE DEF now
  <2>2. \A k \in 0 .. N : sum[k] = now(k)  BY <2>1
  <2> QED BY <2>2 DEF now
<1> DEFINE Spans(k) == sum[k] \in Int /\ - (k * Half) <= sum[k] /\ sum[k] <= k * Half
           E == {k \in Nat : k <= N => Spans(k)}
<1>8. 0 \in E
  <2>1. 0 \in 0 .. N  BY <1>1
  <2>2. sum[0] = 0  BY <1>7, <2>1
  <2>3. 0 * Half = 0  BY NumberFacts
  <2> QED BY <2>2, <2>3
<1>9. ASSUME NEW k \in Nat, k \in E PROVE k + 1 \in E
  <2> SUFFICES ASSUME k + 1 <= N PROVE Spans(k + 1)  OBVIOUS
  <2>1. Spans(k)  BY <1>1, <1>9
  <2>2. sum[k + 1] = sum[k] + col.cells[rows[k]]
    <3>1. k + 1 \in 0 .. N /\ k + 1 # 0 /\ (k + 1) - 1 = k  BY <1>1
    <3> QED BY <1>7, <3>1
  <2>3. /\ col.cells[rows[k]] \in Int /\ - Half <= col.cells[rows[k]]
        /\ col.cells[rows[k]] <= Half
    <3>1. k + 1 \in 1 .. N /\ (k + 1) - 1 = k  BY <1>1
    <3> QED BY <1>1, <3>1
  <2>4. (k + 1) * Half = k * Half + Half /\ k * Half \in Int /\ Half \in Int
    BY NumberFacts
  <2> HIDE DEF sum
  <2> QED BY <2>1, <2>2, <2>3, <2>4
<1> HIDE DEF E
<1>10. Nat \subseteq E  BY <1>8, <1>9, SetInduction
<1>11. Spans(N)  BY <1>1, <1>10 DEF E
<1> QED BY <1>6, <1>11 DEF N

\* A sum of decimals is a decimal that is finite, or missing.
LEMMA DecimalSums ==
    ASSUME NEW col, NEW M, IsFiniteSet(M)
    PROVE  DecimalSum(col, M) \in Finite \cup {Missing}
<1> DEFINE N == Cardinality(M)
           rows == Ascending(M)
           V == Finite \cup {Missing}
           Next1(k, s) == IF s = Missing THEN Missing
                          ELSE DecimalOp("add", Halves(s), Halves(col.cells[rows[k - 1]]))
           F == [p \in (1 .. N) \X V |-> Next1(p[1], p[2])]
           body(k, h) == IF k = 0 THEN 0
                         ELSE IF h[k - 1] = Missing THEN Missing
                         ELSE DecimalOp("add", Halves(h[k - 1]),
                                        Halves(col.cells[rows[k - 1]]))
           Solves(h) == h = [k \in 0 .. N |-> body(k, h)]
           sum == CHOOSE h : Solves(h)
<1>1. N \in Nat  BY FS_CardinalityType
<1> HIDE DEF N, rows
<1>2. F \in [(1 .. N) \X V -> V]
  <2>1. \A k, s : Next1(k, s) \in V  BY DecimalOps
  <2> HIDE DEF Next1, V
  <2> QED BY <2>1
<1>3. 0 \in V
  <2>1. 0 \in 0 .. Infinity - 1  BY NumberFacts
  <2> QED BY <2>1, WordIsFinite
<1>4. PICK h : Repeats(h, N, 0, F) /\ h \in [0 .. N -> V]
  <2> HIDE DEF F, V
  <2>1. \E h : Repeats(h, N, 0, F)  BY <1>1, <1>2, <1>3, Iterated
  <2>2. \A h : Repeats(h, N, 0, F) => h \in [0 .. N -> V]  BY <1>1, <1>2, <1>3, Iterated
  <2> QED BY <2>1, <2>2
<1>5. \A g : Solves(g) <=> g = [k \in 0 .. N |-> IF k = 0 THEN 0 ELSE Next1(k, g[k - 1])]
  OBVIOUS
<1>6. Solves(h)
  <2> HIDE DEF V, Next1
  <2>1. \A k \in 0 .. N : (IF k = 0 THEN 0 ELSE F[<<k, h[k - 1]>>])
                            = (IF k = 0 THEN 0 ELSE Next1(k, h[k - 1]))
    <3> TAKE k \in 0 .. N
    <3>1. CASE k # 0
      <4>1. k \in 1 .. N /\ k - 1 \in 0 .. N  BY <1>1, <3>1
      <4>2. h[k - 1] \in V  BY <1>4, <4>1
      <4>3. F[<<k, h[k - 1]>>] = Next1(k, h[k - 1])  BY <4>1, <4>2
      <4> QED BY <3>1, <4>3
    <3> QED BY <3>1
  <2> DEFINE left(k) == IF k = 0 THEN 0 ELSE F[<<k, h[k - 1]>>]
             right(k) == IF k = 0 THEN 0 ELSE Next1(k, h[k - 1])
  <2>2. h = [k \in 0 .. N |-> left(k)]  BY <1>4 DEF Repeats
  <2>3. \A k \in 0 .. N : left(k) = right(k)  BY <2>1
  <2> HIDE DEF left, right
  <2>4. h = [k \in 0 .. N |-> right(k)]  BY <2>2, <2>3
  <2> HIDE DEF Solves
  <2> QED BY <1>5, <2>4 DEF right
<1>7. Solves(sum)
  <2> HIDE DEF Solves
  <2> QED BY <1>6
<1>8. DecimalSum(col, M) = sum[N]  BY DEF DecimalSum, N, rows
<1> HIDE DEF sum
<1>9. sum[N] = IF N = 0 THEN 0 ELSE Next1(N, sum[N - 1])
  <2> DEFINE now(k) == IF k = 0 THEN 0 ELSE Next1(k, sum[k - 1])
  <2>1. sum = [k \in 0 .. N |-> now(k)]  BY <1>5, <1>7
  <2>2. N \in 0 .. N  BY <1>1
  <2> HIDE DEF now
  <2>3. sum[N] = now(N)  BY <2>1, <2>2
  <2> QED BY <2>3 DEF now
<1>10. \A k, s : Next1(k, s) \in V  BY DecimalOps
<1> HIDE DEF Next1, V
<1> QED BY <1>3, <1>8, <1>9, <1>10 DEF V

\* The mean of so many numbers of one type is a finite decimal, or missing.
LEMMA Means ==
    ASSUME NEW n \in Nat, NEW col, WellTyped(col, 0 .. n - 1), col.ty \in {"I64", "F64"},
           NEW M, Members(col, n, M), M # {}
    PROVE  Mean(col, M) \in Finite \cup {Missing}
<1> DEFINE N == Cardinality(M)
<1>1. N \in Nat /\ N > 0 /\ IsFiniteSet(M)  BY MembersAre
<1>2. CASE col.ty = "I64"
  <2> DEFINE S == IntegerSum(col, M)
  <2>1. S \in Int /\ - (N * Half) <= S /\ S <= N * Half  BY <1>2, IntegerSums
  <2>2. Mean(col, M) = Rounded(2 * S, N)  BY <1>2 DEF Mean
  <2> HIDE DEF S, N
  <2>3. N * Half \in Int /\ N * (2 * Half) = 2 * (N * Half) /\ N * (2 * Half) <= N * Largest
    <3>1. Half \in Nat /\ Largest \in Nat /\ 2 * Half <= Largest  BY NumberFacts
    <3>2. 2 * Half = Largest \/ 2 * Half < Largest  BY <3>1
    <3>3. 2 * Half < Largest => N * (2 * Half) < N * Largest
      <4>1. 2 * Half \in Nat  BY <3>1
      <4> HIDE DEF Largest
      <4> QED BY <1>1, <3>1, <4>1, TimesRises
    <3>4. N * (2 * Half) \in Int /\ N * Largest \in Int  BY <1>1, <3>1
    <3>5. N * Half \in Int /\ N * (2 * Half) = 2 * (N * Half)  BY <1>1, <3>1
    <3> QED BY <3>2, <3>3, <3>4, <3>5
  <2>4. Magnitude(2 * S) <= N * Largest
    <3>1. N * Largest \in Int  BY <1>1, NumberFacts
    <3> HIDE DEF Largest
    <3> QED BY <2>1, <2>3, <3>1 DEF Magnitude
  <2>5. Rounded(2 * S, N) \in Finite  BY <1>1, <2>1, <2>4, RoundedInRange
  <2> QED BY <2>2, <2>5
<1>3. CASE col.ty = "F64"
  <2> DEFINE S == DecimalSum(col, M)
  <2>1. S \in Finite \cup {Missing}  BY <1>1, DecimalSums
  <2>2. Mean(col, M) = IF S = Missing THEN Missing ELSE Rounded(Halves(S), N)
    BY <1>3 DEF Mean
  <2> HIDE DEF S, N
  <2>3. ASSUME S # Missing PROVE Rounded(Halves(S), N) \in Finite
    <3>1. Halves(S) \in Int /\ - Largest <= Halves(S) /\ Halves(S) <= Largest
      BY <2>1, <2>3, FiniteHalves
    <3>2. Largest \in Nat  BY NumberFacts
    <3>3. Largest <= N * Largest
      <4> HIDE DEF Largest
      <4>1. CASE Largest = 0  BY <1>1, <4>1
      <4>2. CASE Largest > 0  BY <1>1, <3>2, <4>2
      <4> QED BY <3>2, <4>1, <4>2
    <3>4. Magnitude(Halves(S)) <= N * Largest
      <4>1. N * Largest \in Int  BY <1>1, <3>2
      <4> HIDE DEF Largest
      <4> QED BY <3>1, <3>2, <3>3, <4>1 DEF Magnitude
    <3> QED BY <1>1, <3>1, <3>4, RoundedInRange
  <2> QED BY <2>2, <2>3
<1> QED BY <1>2, <1>3

\* The mean of two numbers is a finite decimal: they are halved first if
\* their sum is not one.
LEMMA Middles ==
    ASSUME NEW x \in Int, NEW y \in Int,
           Magnitude(x) <= Largest, Magnitude(y) <= Largest
    PROVE  MiddleOf(x, y) \in Finite
<1> DEFINE sum == Rounded(x + y, 1)
           a == Rounded(x, 2)
           b == Rounded(y, 2)
<1>1. Largest \in Nat  BY NumberFacts
<1>2. CASE sum \in Finite
  <2> HIDE DEF sum
  <2>1. Halves(sum) \in Int /\ - Largest <= Halves(sum) /\ Halves(sum) <= Largest
    BY <1>2, FiniteHalves
  <2>2. Magnitude(Halves(sum)) <= 2 * Largest
    <3> HIDE DEF Largest
    <3> QED BY <1>1, <2>1 DEF Magnitude
  <2>3. Rounded(Halves(sum), 2) \in Finite  BY <2>1, <2>2, RoundedInRange
  <2> QED BY <1>2, <2>3 DEF MiddleOf, sum
<1>3. CASE sum \notin Finite
  <2>1. PICK m \in 1 .. Infinity : Largest = 2 * Magnitudes[m]
    BY MagnitudesAssumption DEF Largest
  <2>2. m - 1 \in 0 .. Infinity - 1 /\ (m - 1) + 1 = m  BY NumberFacts
  <2>3. /\ a \in Finite /\ Magnitude(Halves(a)) <= Magnitudes[m]
        /\ b \in Finite /\ Magnitude(Halves(b)) <= Magnitudes[m]
    <3>1. Magnitude(x) <= 2 * Magnitudes[(m - 1) + 1]
            /\ Magnitude(y) <= 2 * Magnitudes[(m - 1) + 1]
      BY <2>1, <2>2
    <3>2. a \in Finite /\ Magnitude(Halves(a)) <= Magnitudes[(m - 1) + 1]
      BY <2>2, <3>1, RoundedFinite
    <3>3. b \in Finite /\ Magnitude(Halves(b)) <= Magnitudes[(m - 1) + 1]
      BY <2>2, <3>1, RoundedFinite
    <3> QED BY <2>2, <3>2, <3>3
  <2> HIDE DEF a, b
  <2>4. Halves(a) \in Int /\ Halves(b) \in Int  BY <2>3, FiniteHalves
  <2>5. Magnitudes[m] \in Nat  BY NumberFacts
  <2>6. Magnitude(Halves(a) + Halves(b)) <= 1 * Largest
    <3> HIDE DEF Largest
    <3> QED BY <2>1, <2>3, <2>4, <2>5 DEF Magnitude
  <2>7. Rounded(Halves(a) + Halves(b), 1) \in Finite
    <3>1. Halves(a) + Halves(b) \in Int  BY <2>4
    <3> QED BY <2>6, <3>1, RoundedInRange
  <2> QED BY <1>3, <2>7 DEF MiddleOf, a, b
<1> QED BY <1>2, <1>3

\* The pairs of members, the one before the other by value and then by row.
ValuePairs(col, M) ==
    {p \in M \X M : \/ RowLess(col, p[1], p[2])
                    \/ RowEqual(col, p[1], p[2]) /\ p[1] < p[2]}

\* The members of a group are listed by their values.
LEMMA ByValueLists ==
    ASSUME NEW n \in Nat, NEW col, WellTyped(col, 0 .. n - 1), NEW M, Members(col, n, M)
    PROVE  Lists(ByValue(col, M), Cardinality(M), M, ValuePairs(col, M))
<1> DEFINE R == ValuePairs(col, M)
           B(x, y) == RowLess(col, x, y) \/ (RowEqual(col, x, y) /\ x < y)
           P(x) == Place(col, x)
<1>1. M \subseteq 0 .. n - 1  BY DEF Members
<1>2. \A x, y \in M : <<x, y>> \in R <=> B(x, y)  BY DEF ValuePairs
<1>3. \A x, y \in M : B(x, y) <=> (P(x) < P(y) \/ (P(x) = P(y) /\ x < y))
  BY <1>1, PlacesInOrder
<1>4. \A x \in M : P(x) \in Int /\ x \in Int  BY <1>1, PlacesInOrder
<1> HIDE DEF R, B, P
<1>5. Asymmetric(R, M)  BY <1>2, <1>3, <1>4 DEF Asymmetric
<1>6. ASSUME NEW x \in M, NEW y \in M
      PROVE  x = y \/ <<x, y>> \in R \/ <<y, x>> \in R
  <2>1. P(x) \in Int /\ P(y) \in Int /\ x \in Int /\ y \in Int  BY <1>4
  <2>2. P(x) < P(y) \/ P(y) < P(x) \/ (P(x) = P(y) /\ (x < y \/ y < x \/ x = y))
    BY <2>1
  <2>3. B(x, y) \/ B(y, x) \/ x = y  BY <1>3, <2>2
  <2> QED BY <1>2, <2>3
<1>7. \A x, y, z \in M : <<x, y>> \in R /\ <<y, z>> \in R => <<x, z>> \in R
  BY <1>2, <1>3, <1>4
<1>8. Orders(R, M)  BY <1>5, <1>6, <1>7 DEF Orders
<1>9. IsFiniteSet(M)  BY MembersAre
<1>10. Lists(RankedIn(M, R), Cardinality(M), M, R)  BY <1>8, <1>9, RankedLists
<1>11. ByValue(col, M) = RankedIn(M, R)
  <2> DEFINE At(i) == CHOOSE x \in M : Cardinality({y \in M : B(y, x)}) = i
             In(i) == CHOOSE x \in M : Cardinality(Earlier(x, M, R)) = i
  <2>1. \A x \in M : {y \in M : B(y, x)} = Earlier(x, M, R)  BY <1>2 DEF Earlier
  <2>2. \A i : At(i) = In(i)  BY <2>1
  <2>3. ByValue(col, M) = [i \in 0 .. Cardinality(M) - 1 |-> At(i)]
    BY DEF ByValue, Ranked, B
  <2>4. RankedIn(M, R) = [i \in 0 .. Cardinality(M) - 1 |-> In(i)]  BY DEF RankedIn
  <2> HIDE DEF At, In
  <2> QED BY <2>2, <2>3, <2>4
<1> QED BY <1>10, <1>11 DEF R

\* The members by value are members.
LEMMA ByValueMembers ==
    ASSUME NEW n \in Nat, NEW col, WellTyped(col, 0 .. n - 1),
           NEW M, Members(col, n, M), NEW k \in 0 .. Cardinality(M) - 1
    PROVE  ByValue(col, M)[k] \in M
BY ByValueLists DEF Lists

\* The median of numbers is a finite decimal.
LEMMA Medians ==
    ASSUME NEW n \in Nat, NEW col, WellTyped(col, 0 .. n - 1), col.ty \in {"I64", "F64"},
           NEW M, Members(col, n, M), M # {}
    PROVE  Median(col, M) \in Finite
<1> DEFINE N == Cardinality(M)
           value(k) == AsF64(col.ty, col.cells[ByValue(col, M)[k]])
<1>1. N \in Nat /\ N > 0  BY MembersAre
<1>2. ASSUME NEW k \in 0 .. N - 1
      PROVE  value(k) \in Int /\ Magnitude(value(k)) <= Largest
  <2>1. ByValue(col, M)[k] \in M  BY ByValueMembers
  <2>2. col.cells[ByValue(col, M)[k]] \in CellValues(col.ty)  BY <2>1, MembersAre
  <2> QED BY <2>2, NumberAsF64
<1>3. Median(col, M) = IF N % 2 = 1 THEN Rounded(value(N \div 2), 1)
                       ELSE MiddleOf(value(N \div 2 - 1), value(N \div 2))
  BY DEF Median
<1> HIDE DEF value, N
<1>4. N \div 2 \in 0 .. N - 1  BY <1>1
<1>5. CASE N % 2 = 1
  <2>1. Magnitude(value(N \div 2)) <= 1 * Largest
    <3>1. Largest \in Nat  BY NumberFacts
    <3>2. Magnitude(value(N \div 2)) <= Largest  BY <1>2, <1>4
    <3> HIDE DEF Largest
    <3> QED BY <3>1, <3>2
  <2>2. value(N \div 2) \in Int  BY <1>2, <1>4
  <2> QED BY <1>3, <1>5, <2>1, <2>2, RoundedInRange
<1>6. CASE N % 2 # 1
  <2>1. N \div 2 - 1 \in 0 .. N - 1  BY <1>1, <1>6
  <2>2. value(N \div 2) \in Int /\ Magnitude(value(N \div 2)) <= Largest
    BY <1>2, <1>4
  <2>3. value(N \div 2 - 1) \in Int /\ Magnitude(value(N \div 2 - 1)) <= Largest
    BY <1>2, <2>1
  <2> QED BY <1>3, <1>6, <2>2, <2>3, Middles
<1> QED BY <1>5, <1>6

\* The nearest rank of a percentage is one of the ranks.
LEMMA NearestRanks ==
    ASSUME NEW n \in Nat, n > 0, NEW p \in 1 .. 99
    PROVE  NearestRank(n, p) \in 0 .. n - 1
<1> DEFINE x == n * p
<1>1. x \in Nat /\ x <= 99 * n
  <2>1. p = 99 \/ p < 99  OBVIOUS
  <2>2. p < 99 => n * p < n * 99  BY TimesRises
  <2>3. n * 99 = 99 * n /\ n * p \in Nat  OBVIOUS
  <2> QED BY <2>1, <2>2, <2>3
<1>2. NearestRank(n, p) = IF (x + 99) \div 100 = 0 THEN 0 ELSE (x + 99) \div 100 - 1
  BY DEF NearestRank
<1> HIDE DEF x
<1>3. (x + 99) \div 100 \in 0 .. n  BY <1>1
<1> QED BY <1>2, <1>3

\* The row that is picked for a group is one of its members.
LEMMA PickedRows ==
    ASSUME NEW n \in Nat, NEW col, WellTyped(col, 0 .. n - 1),
           NEW M, Members(col, n, M), M # {},
           NEW agg, agg.func \in {"min", "max", "percentile"},
           agg.func = "percentile" => agg.p \in 1 .. 99
    PROVE  PickedRow(agg, col, M) \in M
<1> DEFINE N == Cardinality(M)
           rows == ByValue(col, M)
<1>1. N \in Nat /\ N > 0  BY MembersAre
<1>2. \A k \in 0 .. N - 1 : rows[k] \in M  BY ByValueMembers
<1>3. CASE agg.func = "min"
  <2>1. PickedRow(agg, col, M) = rows[0]  BY <1>3 DEF PickedRow
  <2> QED BY <1>1, <1>2, <2>1
<1>4. CASE agg.func = "percentile"
  <2>1. PickedRow(agg, col, M) = rows[NearestRank(N, agg.p)]  BY <1>4 DEF PickedRow
  <2>2. NearestRank(N, agg.p) \in 0 .. N - 1  BY <1>1, <1>4, NearestRanks
  <2> QED BY <1>2, <2>1, <2>2
<1>5. CASE agg.func = "max"
  <2> DEFINE T == {r \in M : RowEqual(col, r, rows[N - 1])}
  <2>1. rows[N - 1] \in T
    <3>1. rows[N - 1] \in M  BY <1>1, <1>2
    <3>2. M \subseteq 0 .. n - 1  BY DEF Members
    <3>3. rows[N - 1] \in 0 .. n - 1  BY <3>1, <3>2
    <3>4. RowEqual(col, rows[N - 1], rows[N - 1])  BY <3>3, PlacesInOrder
    <3> QED BY <3>1, <3>4
  <2>2. T \in SUBSET Nat
    <3>1. M \subseteq Nat  BY DEF Members
    <3> QED BY <3>1
  <2>3. PICK r \in T : \A s \in T : r <= s
    <3> HIDE DEF T, rows
    <3> QED BY <2>1, <2>2, LeastElement
  <2> DEFINE Fit(x) == /\ RowEqual(col, x, rows[N - 1])
                       /\ \A s \in M : RowEqual(col, s, rows[N - 1]) => x <= s
  <2>4. PickedRow(agg, col, M) = CHOOSE x \in M : Fit(x)
    BY <1>5 DEF PickedRow
  <2>5. r \in M /\ Fit(r)  BY <2>3
  <2> HIDE DEF Fit
  <2> QED BY <2>4, <2>5
<1> QED BY <1>3, <1>4, <1>5

\* An aggregate that is usable has a column of a type that its function takes,
\* unless it is the number of rows.
LEMMA AggregateTypes ==
    ASSUME NEW t, GoodTable(t), NEW agg \in Aggregates, AggFits(agg, t.schema)
    PROVE  LET ty == AggType(agg, t.schema)
               col == ColumnOf(t, agg.column)
           IN  /\ agg.func = "count" => ty = "I64"
               /\ agg.func # "count" =>
                     /\ agg.column \in FieldNames(t.schema)
                     /\ IsColumnOf(col, t.len) /\ col.ty \in AnyType
                     /\ Takes(agg.func, col)
               /\ agg.func = "count_non_null" => ty = "I64"
               /\ agg.func = "sum" => ty = col.ty /\ col.ty \in {"I64", "F64"}
               /\ agg.func \in {"mean", "median"} => ty = "F64" /\ col.ty \in {"I64", "F64"}
               /\ agg.func \in {"min", "max", "percentile"} =>
                     ty = col.ty /\ col.ty \in SortableTypes
               /\ ty \in AnyType
<1> DEFINE ty == AggType(agg, t.schema)
           col == ColumnOf(t, agg.column)
           input == IF agg.column = NoColumn THEN "None" ELSE Field(t.schema, agg.column).ty
<1>1. /\ ty = OutputType(agg.func, input) /\ ty # "None"
      /\ agg.column = NoColumn \/ agg.column \in FieldNames(t.schema)
  BY DEF AggFits, AggType
<1>2. agg.func \in {"count", "count_non_null", "sum", "mean", "median", "min", "max",
                    "percentile"}
  BY DEF Aggregates
<1>3. ASSUME agg.column # NoColumn
      PROVE  /\ agg.column \in FieldNames(t.schema)
             /\ IsColumnOf(col, t.len) /\ col.ty = input /\ input \in AnyType
  BY <1>1, <1>3, ColumnFits
<1>4. input = "None" <=> agg.column = NoColumn
  BY <1>3, TypesDiffer DEF AnyType
<1> HIDE DEF ty, input
<1>5. CASE agg.func = "count"
  <2>1. ty = "I64" /\ "I64" \in AnyType
    BY <1>1, <1>5 DEF OutputType, AnyType, SortableTypes
  <2> QED BY <1>5, <2>1 DEF ty
<1>6. CASE agg.func # "count"
  <2>1. input # "None"  BY <1>1, <1>2, <1>6 DEF OutputType
  <2>2. /\ agg.column \in FieldNames(t.schema)
        /\ IsColumnOf(col, t.len) /\ col.ty = input /\ input \in AnyType
    BY <1>3, <1>4, <2>1
  <2> HIDE DEF col
  <2>3. agg.func = "count_non_null" => ty = "I64"  BY <1>1 DEF OutputType
  <2>4. agg.func = "sum" => ty = input /\ input \in {"I64", "F64"}
    BY <1>1 DEF OutputType
  <2>5. agg.func \in {"mean", "median"} => ty = "F64" /\ input \in {"I64", "F64"}
    BY <1>1 DEF OutputType
  <2>6. agg.func \in {"min", "max"} => ty = input /\ input \in SortableTypes
    BY <1>1 DEF OutputType, SortableTypes
  <2>7. agg.func = "percentile" => ty = input /\ input \in SortableTypes
    BY <1>1 DEF OutputType, SortableTypes
  <2>8. Takes(agg.func, col)
    BY <1>2, <1>6, <2>2, <2>4, <2>5, <2>6, <2>7 DEF Takes, Calculated
  <2>9. ty \in AnyType
    BY <1>2, <1>6, <2>2, <2>3, <2>4, <2>5, <2>6, <2>7 DEF AnyType, SortableTypes
  <2> QED BY <1>6, <2>2, <2>3, <2>4, <2>5, <2>6, <2>7, <2>8, <2>9 DEF ty, col
<1> QED BY <1>5, <1>6

\* A column of the table that an aggregate makes.
IsField(c, m, f) ==
    /\ IsColumnOf(c, m) /\ DOMAIN c.cells = 0 .. m - 1
    /\ c.name = f.name /\ c.ty = f.ty
    /\ f.nullable \/ ~ HasMissing(c)

\* The cells of an aggregate that is calculated.
LEMMA CalculatedCells ==
    ASSUME NEW n \in Nat, NEW col, IsColumnOf(col, n), col.ty \in {"I64", "F64"},
           NEW agg, agg.func \in Calculated, NEW M, Members(col, n, M),
           (agg.func = "sum" /\ col.ty = "I64") => IntegerSum(col, M) \in I64
    PROVE  AggCell(agg, col, M)
             \in ValuesOfType(IF agg.func = "sum" THEN col.ty ELSE "F64") \cup {Missing}
<1>1. WellTyped(col, 0 .. n - 1)
  <2>1. col.ty \in SortableTypes  BY DEF SortableTypes
  <2> QED BY <2>1, SoundIsTyped
<1>2. ValuesOfType("F64") = Finite /\ ValuesOfType("I64") = I64
  BY DEF ValuesOfType, CellValues
<1>3. IsFiniteSet(M)  BY <1>1, MembersAre
<1>4. CASE M = {}  BY <1>4 DEF AggCell
<1>5. CASE M # {} /\ agg.func = "sum" /\ col.ty = "I64"
  <2>1. AggCell(agg, col, M) = IntegerSum(col, M)  BY <1>5 DEF AggCell
  <2> QED BY <1>2, <1>5, <2>1
<1>6. CASE M # {} /\ agg.func = "sum" /\ col.ty # "I64"
  <2>1. AggCell(agg, col, M) = DecimalSum(col, M)  BY <1>6 DEF AggCell
  <2>2. DecimalSum(col, M) \in Finite \cup {Missing}  BY <1>3, DecimalSums
  <2>3. col.ty = "F64"  BY <1>6
  <2> QED BY <1>2, <1>6, <2>1, <2>2, <2>3
<1>7. CASE M # {} /\ agg.func = "mean"
  <2>1. AggCell(agg, col, M) = Mean(col, M)  BY <1>7 DEF AggCell
  <2>2. Mean(col, M) \in Finite \cup {Missing}  BY <1>1, <1>7, Means
  <2> QED BY <1>2, <1>7, <2>1, <2>2
<1>8. CASE M # {} /\ agg.func = "median"
  <2>1. AggCell(agg, col, M) = Median(col, M)  BY <1>8 DEF AggCell
  <2>2. Median(col, M) \in Finite  BY <1>1, <1>8, Medians
  <2> QED BY <1>2, <1>8, <2>1, <2>2
<1> QED BY <1>4, <1>5, <1>6, <1>7, <1>8 DEF Calculated

\* An aggregate whose sums fit makes a sound column of the field that is
\* inferred for it.
LEMMA AggregateFits ==
    ASSUME NEW t, GoodTable(t), NEW agg \in Aggregates, AggFits(agg, t.schema),
           NEW groups, NEW m \in Nat, NEW order, DOMAIN order = 0 .. m - 1,
           \A p \in 0 .. m - 1 : order[p] \in 0 .. groups.count - 1,
           agg.func = "sum" => ~ SumOverflows(agg, ColumnOf(t, agg.column), groups)
    PROVE  IsField(AggregateColumn(t, agg, groups, order), m, AggField(agg, t.schema))
<1> DEFINE n == t.len
           col == ColumnOf(t, agg.column)
           D == 0 .. m - 1
           members(p) == {i \in Present(col) : groups.ids[i] = order[p]}
           all(p) == {i \in RowsOf(t) : groups.ids[i] = order[p]}
           c == AggregateColumn(t, agg, groups, order)
           f == AggField(agg, t.schema)
           ty == AggType(agg, t.schema)
           always == agg.func \in {"count", "count_non_null"}
           CountedAll == NewColumn(agg.name, "I64",
                                [p \in DOMAIN order |-> Cardinality(all(p))], << >>)
           CountedNonNull == NewColumn(agg.name, "I64",
                                [p \in DOMAIN order |-> Cardinality(members(p))], << >>)
           Computed == NewColumn(agg.name, IF agg.func = "sum" THEN col.ty ELSE "F64",
                                 [p \in DOMAIN order |-> AggCell(agg, col, members(p))], << >>)
           Chosen == [GatherColumn(col, [p \in DOMAIN order |->
                        IF members(p) = {} THEN Missing
                        ELSE PickedRow(agg, col, members(p))])
                      EXCEPT !.name = agg.name]
<1>0. c = CASE agg.func = "count" -> CountedAll
            [] agg.func = "count_non_null" -> CountedNonNull
            [] agg.func \in Calculated -> Computed
            [] OTHER -> Chosen
  BY DEF AggregateColumn
<1> HIDE DEF c, CountedAll, CountedNonNull, Computed, Chosen
<1>1. n \in Nat /\ n < Half  BY TableLen
<1>2. f = [name |-> agg.name, ty |-> ty, nullable |-> ~ always]
  BY DEF AggField
<1>3. agg.func \in {"count", "count_non_null", "sum", "mean", "median", "min", "max",
                    "percentile"}
  BY DEF Aggregates
<1>4. /\ agg.func = "count" => ty = "I64"
      /\ agg.func # "count" => IsColumnOf(col, n) /\ col.ty \in AnyType
      /\ agg.func = "count_non_null" => ty = "I64"
      /\ agg.func = "sum" => ty = col.ty /\ col.ty \in {"I64", "F64"}
      /\ agg.func \in {"mean", "median"} => ty = "F64" /\ col.ty \in {"I64", "F64"}
      /\ agg.func \in {"min", "max", "percentile"} => ty = col.ty /\ col.ty \in SortableTypes
  BY AggregateTypes
<1>5. f.name = agg.name /\ f.ty = ty
        /\ (f.nullable <=> agg.func \notin {"count", "count_non_null"})
  <2> DEFINE may == ~ always
  <2>1. f = [name |-> agg.name, ty |-> ty, nullable |-> may]  BY <1>2
  <2> HIDE DEF may, f, ty
  <2>2. f.name = agg.name /\ f.ty = ty /\ f.nullable = may  BY <2>1
  <2> QED BY <2>2 DEF may
<1>6. \A k \in 0 .. n : k \in ValuesOfType("I64") /\ k # Missing
  BY <1>1, WordAssumption DEF ValuesOfType, CellValues, I64
<1>7. "I64" \in AnyType \ {"DictUtf8"} /\ "F64" \in AnyType \ {"DictUtf8"}
  BY DEF AnyType, SortableTypes
<1>8. agg.func # "count" => \A p : Members(col, n, members(p))
  <2> SUFFICES ASSUME agg.func # "count", NEW p PROVE Members(col, n, members(p))
    OBVIOUS
  <2> DEFINE g == order[p]
             ids == groups.ids
  <2>1. IsColumnOf(col, n)  BY <1>4
  <2> HIDE DEF g, ids, col
  <2>2. Members(col, n, {i \in Present(col) : ids[i] = g})
    BY <1>1, <2>1 DEF Members, Present, IsColumnOf
  <2> QED BY <2>2 DEF g, ids
<1>9. CASE agg.func = "count"
  <2> DEFINE size(p) == Cardinality(all(p))
             cells == [p \in D |-> size(p)]
  <2>1. c = NewColumn(agg.name, "I64", cells, << >>)
    <3>1. c = CountedAll  BY <1>0, <1>9 DEF Calculated
    <3>2. CountedAll = NewColumn(agg.name, "I64", [p \in DOMAIN order |-> size(p)], << >>)
      BY DEF CountedAll
    <3> HIDE DEF size
    <3> QED BY <3>1, <3>2
  <2>2. \A p : size(p) \in 0 .. n
    <3> TAKE p
    <3>1. IsFiniteSet(RowsOf(t)) /\ Cardinality(RowsOf(t)) = n
      BY <1>1, CountBelow DEF RowsOf
    <3>2. all(p) \subseteq RowsOf(t)  OBVIOUS
    <3> HIDE DEF all
    <3>3. IsFiniteSet(all(p)) /\ Cardinality(all(p)) <= n  BY <3>1, <3>2, FS_Subset
    <3> QED BY <1>1, <3>3, FS_CardinalityType
  <2> HIDE DEF size
  <2>3. /\ cells \in [D -> ValuesOfType("I64") \cup {Missing}]
        /\ \A p \in D : cells[p] # Missing
    BY <1>6, <2>2
  <2> HIDE DEF cells, f
  <2>4. /\ IsColumnOf(c, m) /\ c.name = agg.name /\ c.ty = "I64"
        /\ DOMAIN c.cells = D /\ c.cells = cells
    BY <1>7, <2>1, <2>3, MadeColumn
  <2>5. ~ HasMissing(c)  BY <2>3, <2>4 DEF HasMissing, IsPresent
  <2> QED BY <1>4, <1>5, <1>9, <2>4, <2>5 DEF IsField, c, f
<1>10. CASE agg.func = "count_non_null"
  <2> DEFINE size(p) == Cardinality(members(p))
             cells == [p \in D |-> size(p)]
  <2>1. c = NewColumn(agg.name, "I64", cells, << >>)
    <3>1. c = CountedNonNull  BY <1>0, <1>10 DEF Calculated
    <3>2. CountedNonNull = NewColumn(agg.name, "I64", [p \in DOMAIN order |-> size(p)], << >>)
      BY DEF CountedNonNull
    <3> HIDE DEF size
    <3> QED BY <3>1, <3>2
  <2>2. \A p : size(p) \in 0 .. n
    <3> TAKE p
    <3> DEFINE R == 0 .. n - 1
    <3>1. IsFiniteSet(R) /\ Cardinality(R) = n  BY <1>1, CountBelow
    <3>2. Members(col, n, members(p))  BY <1>8, <1>10
    <3> HIDE DEF members
    <3>3. members(p) \subseteq R  BY <3>2 DEF Members
    <3> HIDE DEF R
    <3>4. IsFiniteSet(members(p)) /\ Cardinality(members(p)) <= n
      BY <3>1, <3>3, FS_Subset
    <3> QED BY <1>1, <3>4, FS_CardinalityType
  <2> HIDE DEF size
  <2>3. /\ cells \in [D -> ValuesOfType("I64") \cup {Missing}]
        /\ \A p \in D : cells[p] # Missing
    BY <1>6, <2>2
  <2> HIDE DEF cells, f
  <2>4. /\ IsColumnOf(c, m) /\ c.name = agg.name /\ c.ty = "I64"
        /\ DOMAIN c.cells = D /\ c.cells = cells
    BY <1>7, <2>1, <2>3, MadeColumn
  <2>5. ~ HasMissing(c)  BY <2>3, <2>4 DEF HasMissing, IsPresent
  <2> QED BY <1>4, <1>5, <1>10, <2>4, <2>5 DEF IsField, c, f
<1>11. CASE agg.func \in Calculated
  <2> DEFINE out == IF agg.func = "sum" THEN col.ty ELSE "F64"
             cells == [p \in D |-> AggCell(agg, col, members(p))]
  <2>1. c = NewColumn(agg.name, out, cells, << >>)
    BY <1>0, <1>11 DEF Computed, Calculated
  <2>2. agg.func # "count" /\ agg.func # "count_non_null"  BY <1>11 DEF Calculated
  <2>3. col.ty \in {"I64", "F64"} /\ ty = out /\ IsColumnOf(col, n)
    BY <1>4, <1>11, <2>2 DEF Calculated
  <2>4. \A p \in D : AggCell(agg, col, members(p)) \in ValuesOfType(out) \cup {Missing}
    <3> TAKE p \in D
    <3>1. (agg.func = "sum" /\ col.ty = "I64") => IntegerSum(col, members(p)) \in I64
      BY DEF SumOverflows
    <3>2. Members(col, n, members(p))  BY <1>8, <2>2
    <3> HIDE DEF members, col
    <3> QED BY <1>1, <1>11, <2>3, <3>1, <3>2, CalculatedCells
  <2>5. out \in AnyType \ {"DictUtf8"}  BY <1>7, <2>3
  <2> HIDE DEF out, members
  <2>6. cells \in [D -> ValuesOfType(out) \cup {Missing}]  BY <2>4
  <2> HIDE DEF cells, f
  <2> DEFINE name == agg.name
  <2> HIDE DEF name
  <2>7. IsColumnOf(c, m) /\ c.name = name /\ c.ty = out /\ DOMAIN c.cells = D
    <3>1. c = NewColumn(name, out, cells, << >>)  BY <2>1 DEF name
    <3> HIDE DEF c, D
    <3>3. m \in Nat /\ cells \in [0 .. m - 1 -> ValuesOfType(out) \cup {Missing}]
      BY <2>6 DEF D
    <3>4. IsColumnOf(c, m)  BY <2>5, <3>1, <3>3, MadeColumn, Zenon
    <3>5. c.name = name /\ c.ty = out /\ c.cells = cells
      BY <3>1 DEF NewColumn
    <3>2. DOMAIN cells = 0 .. m - 1
      BY <3>3
    <3> QED BY <3>2, <3>4, <3>5 DEF D
  <2> QED BY <1>5, <2>2, <2>3, <2>7 DEF IsField, c, f, name
<1>12. CASE agg.func \in {"min", "max", "percentile"}
  <2> DEFINE rows == [p \in D |-> IF members(p) = {} THEN Missing
                                  ELSE PickedRow(agg, col, members(p))]
             g == GatherColumn(col, rows)
  <2>1. c = [g EXCEPT !.name = agg.name]  BY <1>0, <1>12 DEF Chosen, Calculated
  <2>2. agg.func # "count" /\ agg.func # "count_non_null"  BY <1>12
  <2>3. col.ty \in SortableTypes /\ ty = col.ty /\ IsColumnOf(col, n)
    BY <1>4, <1>12, <2>2
  <2>4. agg.func = "percentile" => agg.p \in 1 .. 99  BY DEF AggFits
  <2>5. rows \in [D -> 0 .. n - 1 \cup {Missing}]
    <3>1. ASSUME NEW p \in D, members(p) # {}
          PROVE  PickedRow(agg, col, members(p)) \in 0 .. n - 1
      <4>1. Members(col, n, members(p))  BY <1>8, <2>2
      <4>2. WellTyped(col, 0 .. n - 1)  BY <1>1, <2>3, SoundIsTyped
      <4>3. members(p) \subseteq 0 .. n - 1  BY <4>1 DEF Members
      <4> HIDE DEF members, col
      <4>4. PickedRow(agg, col, members(p)) \in members(p)
        BY <1>1, <1>12, <2>4, <3>1, <4>1, <4>2, PickedRows
      <4> QED BY <4>3, <4>4
    <3> HIDE DEF members
    <3> QED BY <3>1
  <2> HIDE DEF rows, col
  <2>6. IsColumnOf(g, m) /\ g.ty = col.ty /\ DOMAIN g.cells = D
    BY <1>1, <2>3, <2>5, GatherFits
  <2> HIDE DEF g, f
  <2>7. /\ c = NewColumn(agg.name, g.ty, g.cells, g.dictionary)
        /\ c.name = agg.name /\ c.ty = g.ty /\ c.cells = g.cells
        /\ c.dictionary = g.dictionary
    <3>1. g = [name |-> g.name, ty |-> g.ty, cells |-> g.cells,
               dictionary |-> g.dictionary]
      BY <2>6 DEF IsColumnOf, NewColumn
    <3> QED BY <2>1, <3>1 DEF NewColumn
  <2>8. CellsOf(c) = CellsOf(g)  BY <2>7 DEF CellsOf
  <2>9. IsColumnOf(c, m)  BY <2>6, <2>7, <2>8 DEF IsColumnOf
  <2> QED BY <1>5, <2>2, <2>3, <2>6, <2>7, <2>9 DEF IsField, c, f
<1> QED BY <1>3, <1>9, <1>10, <1>11, <1>12 DEF Calculated

----------------------------------------------------------------------------
(* Rows that are found directly.                                           *)

\* What finding the rows of an expression among R may answer.
Results(R) == {Uncovered} \cup [ok : {TRUE}, rows : SUBSET R]

\* An answer is some of the rows, or that there is none.
LEMMA ResultsAre ==
    ASSUME NEW R, NEW v \in Results(R)
    PROVE  /\ v.ok \in BOOLEAN
           /\ ~ v.ok => v = Uncovered
           /\ v.ok => v.rows \subseteq R /\ v = [ok |-> TRUE, rows |-> v.rows]
<1>1. CASE v = Uncovered  BY <1>1 DEF Uncovered
<1>2. CASE v \in [ok : {TRUE}, rows : SUBSET R]  BY <1>2
<1> QED BY <1>1, <1>2 DEF Results

\* Some of the rows are an answer.
LEMMA KeptIsResult ==
    ASSUME NEW R, NEW rows \in SUBSET R
    PROVE  [ok |-> TRUE, rows |-> rows] \in Results(R)
BY DEF Results

\* The step from the rows that one conjunct kept to those the next one keeps.
Conjunct(args, R, f) ==
    [p \in (1 .. Len(args)) \X Results(R) |->
        IF p[2].ok THEN f[<<args[p[1]], p[2].rows>>] ELSE Uncovered]

\* f answers for each of the conjuncts.
Answers(args, R, f) ==
    \A k \in 1 .. Len(args) : \A r \in SUBSET R : f[<<args[k], r>>] \in Results(R)

\* If every conjunct is answered for, so is each step from one to the next.
LEMMA ConjunctAnswers ==
    ASSUME NEW args, NEW R, NEW f, Answers(args, R, f)
    PROVE  Conjunct(args, R, f) \in [(1 .. Len(args)) \X Results(R) -> Results(R)]
<1>1. ASSUME NEW p \in (1 .. Len(args)) \X Results(R)
      PROVE  (IF p[2].ok THEN f[<<args[p[1]], p[2].rows>>] ELSE Uncovered) \in Results(R)
  <2>1. p[1] \in 1 .. Len(args) /\ p[2] \in Results(R)  OBVIOUS
  <2>2. p[2].ok => p[2].rows \in SUBSET R  BY <2>1, ResultsAre
  <2>3. Uncovered \in Results(R)  BY DEF Results
  <2> QED BY <2>1, <2>2, <2>3 DEF Answers
<1> QED BY <1>1 DEF Conjunct

\* Rows narrowed by one conjunct after the other.
Narrowed(args, R, rows, f) ==
    CHOOSE h : Repeats(h, Len(args), [ok |-> TRUE, rows |-> rows], Conjunct(args, R, f))

NarrowsBy(h, args, rows, f) ==
    /\ h[0] = [ok |-> TRUE, rows |-> rows]
    /\ \A k \in 1 .. Len(args) :
          h[k] = IF h[k - 1].ok THEN f[<<args[k], h[k - 1].rows>>] ELSE Uncovered

\* Every conjunct narrows what the ones before it left.
LEMMA NarrowedIs ==
    ASSUME NEW args, Len(args) \in Nat, NEW R, NEW rows \in SUBSET R,
           NEW f, Answers(args, R, f)
    PROVE  LET h == Narrowed(args, R, rows, f)
           IN  h \in [0 .. Len(args) -> Results(R)] /\ NarrowsBy(h, args, rows, f)
<1> DEFINE N == Len(args)
           v == [ok |-> TRUE, rows |-> rows]
           V == Results(R)
           F == Conjunct(args, R, f)
           h == Narrowed(args, R, rows, f)
<1>1. F \in [(1 .. N) \X V -> V]  BY ConjunctAnswers
<1>2. v \in V  BY KeptIsResult
<1>3. h = CHOOSE g : Repeats(g, N, v, F)  BY DEF Narrowed
<1> HIDE DEF N, v, V, F, h
<1>4. N \in Nat  BY DEF N
<1>5. (\E g : Repeats(g, N, v, F)) /\ (\A g : Repeats(g, N, v, F) => g \in [0 .. N -> V])
  <2>1. \E g : Repeats(g, N, v, F)  BY <1>1, <1>2, <1>4, Iterated
  <2>2. \A g : Repeats(g, N, v, F) => g \in [0 .. N -> V]
    BY <1>1, <1>2, <1>4, Iterated
  <2> QED BY <2>1, <2>2
<1>6. Repeats(h, N, v, F) /\ h \in [0 .. N -> V]  BY <1>3, <1>5
<1>7. \A k \in 0 .. N : h[k] = IF k = 0 THEN v ELSE F[<<k, h[k - 1]>>]
  <2> DEFINE now(k) == IF k = 0 THEN v ELSE F[<<k, h[k - 1]>>]
  <2>1. h = [k \in 0 .. N |-> now(k)]  BY <1>6 DEF Repeats
  <2> HIDE DEF now
  <2>2. \A k \in 0 .. N : h[k] = now(k)  BY <2>1
  <2> QED BY <2>2 DEF now
<1>8. h[0] = v
  <2>1. 0 \in 0 .. N  BY <1>4
  <2> QED BY <1>7, <2>1
<1>9. \A k \in 1 .. N :
         h[k] = IF h[k - 1].ok THEN f[<<args[k], h[k - 1].rows>>] ELSE Uncovered
  <2> TAKE k \in 1 .. N
  <2>1. k \in 0 .. N /\ k # 0 /\ k - 1 \in 0 .. N  BY <1>4
  <2>2. h[k] = F[<<k, h[k - 1]>>]  BY <1>7, <2>1
  <2>3. h[k - 1] \in V  BY <1>6, <2>1
  <2> DEFINE w == h[k - 1]
  <2> HIDE DEF w
  <2>4. <<k, w>> \in (1 .. N) \X V  BY <2>3 DEF w
  <2>5. F[<<k, w>>] = IF w.ok THEN f[<<args[k], w.rows>>] ELSE Uncovered
    BY <2>4 DEF F, Conjunct, N, V
  <2> QED BY <2>2, <2>5 DEF w
<1> QED BY <1>6, <1>8, <1>9 DEF h, N, v, V, NarrowsBy

\* SelectAll is what is left after the last conjunct.
LEMMA SelectAllIs ==
    ASSUME NEW t, NEW e, Len(e.args) \in Nat, NEW R, NEW rows \in SUBSET R,
           NEW f, Answers(e.args, R, f)
    PROVE  SelectAll(t, e, rows, f) = Narrowed(e.args, R, rows, f)[Len(e.args)]
<1> DEFINE N == Len(e.args)
           v == [ok |-> TRUE, rows |-> rows]
           V == Results(R)
           F == Conjunct(e.args, R, f)
           body(k, h) == IF k = 0 THEN v
                         ELSE IF h[k - 1].ok THEN f[<<e.args[k], h[k - 1].rows>>]
                         ELSE Uncovered
           Solves(h) == h = [k \in 0 .. N |-> body(k, h)]
<1>1. SelectAll(t, e, rows, f) = (CHOOSE h : Solves(h))[N]  BY DEF SelectAll
<1>2. \A k \in 1 .. N : \A w \in V :
         F[<<k, w>>] = IF w.ok THEN f[<<e.args[k], w.rows>>] ELSE Uncovered
  <2> TAKE k \in 1 .. N
  <2> TAKE w \in V
  <2>1. <<k, w>> \in (1 .. N) \X V  OBVIOUS
  <2> QED BY <2>1 DEF Conjunct
<1>3. v \in V  BY KeptIsResult
<1>4. F \in [(1 .. N) \X V -> V]  BY ConjunctAnswers
<1>5. N \in Nat  OBVIOUS
<1> HIDE DEF F, V, v, N
<1> DEFINE now(k, h) == IF k = 0 THEN v ELSE F[<<k, h[k - 1]>>]
<1>6. \A h : Repeats(h, N, v, F) => \A k \in 0 .. N : h[k] = now(k, h)
  <2> TAKE h
  <2> HAVE Repeats(h, N, v, F)
  <2> DEFINE at(k) == now(k, h)
  <2>1. h = [k \in 0 .. N |-> at(k)]  BY DEF Repeats
  <2> HIDE DEF at
  <2>2. \A k \in 0 .. N : h[k] = at(k)  BY <2>1
  <2> QED BY <2>2 DEF at
<1>7. \A h : Solves(h) => \A k \in 0 .. N : h[k] = body(k, h)
  <2> TAKE h
  <2> HAVE Solves(h)
  <2> DEFINE at(k) == body(k, h)
  <2>1. h = [k \in 0 .. N |-> at(k)]  OBVIOUS
  <2> HIDE DEF at
  <2>2. \A k \in 0 .. N : h[k] = at(k)  BY <2>1
  <2> QED BY <2>2 DEF at
<1>8. ASSUME NEW h, Repeats(h, N, v, F) PROVE Solves(h)
  <2>1. h \in [0 .. N -> V]  BY <1>3, <1>4, <1>5, <1>8, Iterated
  <2>2. \A k \in 0 .. N : h[k] = body(k, h)
    <3> TAKE k \in 0 .. N
    <3>1. h[k] = now(k, h)  BY <1>6, <1>8
    <3>2. CASE k # 0
      <4>1. k \in 1 .. N /\ k - 1 \in 0 .. N  BY <1>5, <3>2
      <4>2. h[k - 1] \in V  BY <2>1, <4>1
      <4> QED BY <1>2, <3>1, <3>2, <4>1, <4>2
    <3> QED BY <3>1, <3>2
  <2> HIDE DEF body
  <2>3. h = [k \in 0 .. N |-> h[k]]  BY <2>1
  <2> QED BY <2>2, <2>3
<1>9. ASSUME NEW h, Solves(h) PROVE Repeats(h, N, v, F)
  <2> DEFINE E == {k \in Nat : k <= N => h[k] \in V /\ h[k] = now(k, h)}
  <2>1. 0 \in E
    <3>1. 0 \in 0 .. N  BY <1>5
    <3>2. h[0] = v  BY <1>7, <1>9, <3>1
    <3> QED BY <1>3, <3>2
  <2>2. ASSUME NEW k \in Nat, k \in E PROVE k + 1 \in E
    <3> SUFFICES ASSUME k + 1 <= N PROVE h[k + 1] \in V /\ h[k + 1] = now(k + 1, h)
      OBVIOUS
    <3>1. h[k] \in V  BY <1>5, <2>2
    <3>2. k + 1 \in 1 .. N /\ k + 1 \in 0 .. N /\ k + 1 # 0 /\ (k + 1) - 1 = k  BY <1>5
    <3>3. h[k + 1] = IF h[k].ok THEN f[<<e.args[k + 1], h[k].rows>>] ELSE Uncovered
      BY <1>7, <1>9, <3>2
    <3>4. F[<<k + 1, h[k]>>] = h[k + 1]  BY <1>2, <3>1, <3>2, <3>3
    <3>5. <<k + 1, h[k]>> \in (1 .. N) \X V  BY <3>1, <3>2
    <3>6. h[k + 1] \in V  BY <1>4, <3>4, <3>5
    <3> QED BY <3>2, <3>4, <3>6
  <2> HIDE DEF E
  <2>3. Nat \subseteq E  BY <2>1, <2>2, SetInduction
  <2>4. \A k \in 0 .. N : h[k] = now(k, h)  BY <2>3 DEF E
  <2>5. h = [k \in 0 .. N |-> h[k]]
    <3> DEFINE at(k) == body(k, h)
    <3>1. h = [k \in 0 .. N |-> at(k)]  BY <1>9
    <3> HIDE DEF at
    <3> QED BY <3>1
  <2> HIDE DEF now
  <2>6. h = [k \in 0 .. N |-> now(k, h)]  BY <2>4, <2>5
  <2> QED BY <2>6 DEF Repeats, now
<1> HIDE DEF Solves
<1>10. (CHOOSE h : Solves(h)) = (CHOOSE h : Repeats(h, N, v, F))  BY <1>8, <1>9
<1>11. Narrowed(e.args, R, rows, f) = CHOOSE h : Repeats(h, N, v, F)
  BY DEF Narrowed, N, v, F
<1> QED BY <1>1, <1>10, <1>11 DEF N

\* f answers for what an expression is made of.
AnswersFor(e, R, f) == \A a \in Inner(e) : \A r \in SUBSET R : f[<<a, r>>] \in Results(R)

\* The arguments of an `and` or an `or`.
LEMMA ArgsInner ==
    ASSUME NEW e \in Exprs, e.x \in {"and", "or"}
    PROVE  /\ Len(e.args) \in Nat /\ DOMAIN e.args = 1 .. Len(e.args)
           /\ \A k \in 1 .. Len(e.args) : e.args[k] \in Inner(e) /\ e.args[k] \in Exprs
<1>1. e.args \in Seq(Exprs)  BY ExprAssumption
<1>2. DOMAIN e.args = 1 .. Len(e.args) /\ Len(e.args) \in Nat  BY <1>1
<1>3. \A k \in 1 .. Len(e.args) : e.args[k] \in Inner(e)  BY <1>2 DEF Inner
<1> QED BY <1>2, <1>3, InnerIsShallower

\* If all that an `and` is made of is answered for, its conjuncts are.
LEMMA ArgsAnswer ==
    ASSUME NEW e \in Exprs, e.x = "and", NEW R, NEW f, AnswersFor(e, R, f)
    PROVE  Answers(e.args, R, f)
BY ArgsInner DEF Answers, AnswersFor

\* What is found of an expression is some of the rows that were left.
LEMMA SelectStepAnswers ==
    ASSUME NEW t, NEW R, NEW e \in Exprs, NEW rows \in SUBSET R, NEW f,
           AnswersFor(e, R, f)
    PROVE  SelectStep(e, rows, t, f) \in Results(R)
<1>0. Uncovered \in Results(R)  BY DEF Results
<1>1. CASE e.x = "and"
  <2>1. Answers(e.args, R, f) /\ Len(e.args) \in Nat  BY <1>1, ArgsAnswer, ArgsInner
  <2> DEFINE h == Narrowed(e.args, R, rows, f)
             s == SelectAll(t, e, rows, f)
             all == \A k \in DOMAIN e.args : FastCovers(t, e.args[k])
  <2>2. h \in [0 .. Len(e.args) -> Results(R)]  BY <2>1, NarrowedIs
  <2>3. s = h[Len(e.args)]  BY <2>1, SelectAllIs
  <2>4. Len(e.args) \in 0 .. Len(e.args)  BY <2>1
  <2>5. SelectStep(e, rows, t, f) = IF all THEN s ELSE Uncovered
    BY <1>1 DEF SelectStep
  <2> HIDE DEF h, s, all
  <2> QED BY <1>0, <2>2, <2>3, <2>4, <2>5
<1>2. CASE e.x # "and"
  <2> DEFINE f1 == ColumnFirst(e)
             A == {i \in rows : ~ IsPresent(ColumnOf(t, e.a.name), i)}
             B == {i \in rows : IsPresent(ColumnOf(t, e.a.a.name), i)}
             C == {i \in rows : BothPresent(t, f1, i) /\ OpHolds(f1.op, FastOrder(t, f1, i))}
  <2>1. \/ SelectStep(e, rows, t, f) = [ok |-> TRUE, rows |-> A]
        \/ SelectStep(e, rows, t, f) = [ok |-> TRUE, rows |-> B]
        \/ SelectStep(e, rows, t, f) = [ok |-> TRUE, rows |-> C]
        \/ SelectStep(e, rows, t, f) = Uncovered
    BY <1>2 DEF SelectStep, Kept
  <2>2. A \in SUBSET R /\ B \in SUBSET R /\ C \in SUBSET R  OBVIOUS
  <2> HIDE DEF A, B, C
  <2> QED BY <1>0, <2>1, <2>2, KeptIsResult
<1> QED BY <1>1, <1>2

\* What is found of an expression depends on what is found of its parts.
LEMMA SelectStepLocal ==
    ASSUME NEW t, NEW R, NEW e \in Exprs, NEW rows \in SUBSET R, NEW f, NEW g,
           AnswersFor(e, R, f),
           \A a \in Inner(e) : \A r \in SUBSET R : f[<<a, r>>] = g[<<a, r>>]
    PROVE  SelectStep(e, rows, t, f) = SelectStep(e, rows, t, g)
<1>1. CASE e.x = "and"
  <2>1. Answers(e.args, R, f) /\ Len(e.args) \in Nat /\ DOMAIN e.args = 1 .. Len(e.args)
    BY <1>1, ArgsAnswer, ArgsInner
  <2>2. AnswersFor(e, R, g)  BY DEF AnswersFor
  <2>3. Answers(e.args, R, g)  BY <1>1, <2>2, ArgsAnswer
  <2>4. ASSUME NEW p \in (1 .. Len(e.args)) \X Results(R)
        PROVE  (IF p[2].ok THEN f[<<e.args[p[1]], p[2].rows>>] ELSE Uncovered)
                 = (IF p[2].ok THEN g[<<e.args[p[1]], p[2].rows>>] ELSE Uncovered)
    <3>1. p[1] \in 1 .. Len(e.args) /\ p[2] \in Results(R)  OBVIOUS
    <3>2. p[2].ok => p[2].rows \in SUBSET R  BY <3>1, ResultsAre
    <3>3. e.args[p[1]] \in Inner(e)  BY <1>1, <3>1, ArgsInner
    <3> QED BY <3>2, <3>3
  <2>5. Conjunct(e.args, R, f) = Conjunct(e.args, R, g)  BY <2>4 DEF Conjunct
  <2>6. Narrowed(e.args, R, rows, f) = Narrowed(e.args, R, rows, g)
    BY <2>5 DEF Narrowed
  <2>7. SelectAll(t, e, rows, f) = SelectAll(t, e, rows, g)
    <3>1. SelectAll(t, e, rows, f) = Narrowed(e.args, R, rows, f)[Len(e.args)]
      BY <2>1, SelectAllIs
    <3>2. SelectAll(t, e, rows, g) = Narrowed(e.args, R, rows, g)[Len(e.args)]
      BY <2>1, <2>3, SelectAllIs
    <3> QED BY <2>6, <3>1, <3>2
  <2> QED BY <1>1, <2>7 DEF SelectStep
<1>2. CASE e.x # "and"  BY <1>2 DEF SelectStep
<1> QED BY <1>1, <1>2

\* What is found of every expression among any rows.
Selects(t) ==
    LET select[p \in Exprs \X SUBSET RowsOf(t)] == SelectStep(p[1], p[2], t, select)
    IN  select

\* What is found of every expression is found step by step from its parts.
LEMMA SelectsAre ==
    ASSUME NEW t
    PROVE  /\ Selects(t) = [p \in Exprs \X SUBSET RowsOf(t) |->
                              SelectStep(p[1], p[2], t, Selects(t))]
           /\ \A e : FastSelection(t, e) = Selects(t)[<<e, RowsOf(t)>>]
<1> DEFINE R == RowsOf(t)
           P == Exprs \X SUBSET R
           Step(e, r, f) == SelectStep(e, r, t, f)
           Solves(f, n) == \A e \in Exprs : Depth[e] < n => \A r \in SUBSET R :
                              f[<<e, r>>] = Step(e, r, f) /\ f[<<e, r>>] \in Results(R)
           N == {n \in Nat : \E f : Solves(f, n)}
<1>0. ASSUME NEW f, NEW n, Solves(f, n), NEW e \in Exprs, Depth[e] < n + 1, n \in Nat
      PROVE  AnswersFor(e, R, f) /\ \A a \in Inner(e) : Depth[a] < n /\ a \in Exprs
  <2>1. \A a \in Inner(e) : Depth[a] < n /\ a \in Exprs  BY <1>0, InnerIsShallower
  <2> QED BY <1>0, <2>1 DEF AnswersFor
<1> HIDE DEF R
<1>1. 0 \in N  BY ExprAssumption
<1>2. \A n \in Nat : n \in N => n + 1 \in N
  <2> SUFFICES ASSUME NEW n \in N PROVE n + 1 \in N  OBVIOUS
  <2>1. PICK f : Solves(f, n)  OBVIOUS
  <2> DEFINE g == [p \in P |-> IF Depth[p[1]] < n THEN f[p] ELSE Step(p[1], p[2], f)]
  <2>2. ASSUME NEW e \in Exprs, Depth[e] < n + 1, NEW r \in SUBSET R
        PROVE  g[<<e, r>>] = Step(e, r, g) /\ g[<<e, r>>] \in Results(R)
    <3>1. <<e, r>> \in P  OBVIOUS
    <3>2. g[<<e, r>>] = Step(e, r, f)  BY <2>1, <3>1
    <3>3. AnswersFor(e, R, f) /\ \A a \in Inner(e) : Depth[a] < n /\ a \in Exprs
      BY <1>0, <2>1, <2>2
    <3>4. \A a \in Inner(e) : \A s \in SUBSET R : f[<<a, s>>] = g[<<a, s>>]
      <4> TAKE a \in Inner(e)
      <4> TAKE s \in SUBSET R
      <4>1. <<a, s>> \in P /\ Depth[a] < n  BY <3>3
      <4> QED BY <4>1
    <3> HIDE DEF g
    <3>5. Step(e, r, f) = Step(e, r, g)  BY <3>3, <3>4, SelectStepLocal
    <3>6. Step(e, r, f) \in Results(R)  BY <3>3, SelectStepAnswers
    <3> QED BY <3>2, <3>5, <3>6
  <2>3. Solves(g, n + 1)  BY <2>2
  <2> HIDE DEF g
  <2> QED BY <2>3
<1>3. MaxDepth + 1 \in N
  <2> HIDE DEF N
  <2> QED BY <1>1, <1>2, SetInduction, ExprAssumption
<1>4. PICK f : Solves(f, MaxDepth + 1)  BY <1>3
<1> DEFINE Eq(h) == h = [p \in P |-> Step(p[1], p[2], h)]
           g == [p \in P |-> f[p]]
<1>5. \A p \in P : g[p] = Step(p[1], p[2], g)
  <2> TAKE p \in P
  <2> DEFINE e == p[1]
             r == p[2]
  <2>1. e \in Exprs /\ r \in SUBSET R /\ p = <<e, r>>  OBVIOUS
  <2> HIDE DEF e, r
  <2>2. Depth[e] < MaxDepth + 1 /\ MaxDepth \in Nat  BY <2>1, ExprAssumption
  <2>3. g[<<e, r>>] = Step(e, r, f)  BY <1>4, <2>1, <2>2
  <2>4. AnswersFor(e, R, f) /\ \A a \in Inner(e) : a \in Exprs
    <3>1. Depth[e] < MaxDepth + 1 + 1 /\ MaxDepth + 1 \in Nat  BY <2>1, <2>2, ExprAssumption
    <3> QED BY <1>0, <1>4, <2>1, <3>1
  <2>5. \A a \in Inner(e) : \A s \in SUBSET R : f[<<a, s>>] = g[<<a, s>>]
    BY <2>4
  <2> HIDE DEF g
  <2>6. Step(e, r, f) = Step(e, r, g)  BY <2>1, <2>4, <2>5, SelectStepLocal
  <2> QED BY <2>1, <2>3, <2>6 DEF e, r
<1>6. Eq(g)  BY <1>5
<1>7. Selects(t) = CHOOSE h : Eq(h)  BY DEF Selects, R
<1> HIDE DEF Eq, g
<1>8. Eq(Selects(t))  BY <1>6, <1>7
<1>9. \A e : FastSelection(t, e) = Selects(t)[<<e, R>>]  BY DEF FastSelection, Selects, R
<1> QED BY <1>8, <1>9 DEF Eq, R

\* Every expression selects some of the rows, or is not covered.
LEMMA SelectsResults ==
    ASSUME NEW t, NEW e \in Exprs
    PROVE  AnswersFor(e, RowsOf(t), Selects(t))
           /\ \A r \in SUBSET RowsOf(t) : Selects(t)[<<e, r>>] \in Results(RowsOf(t))
<1> DEFINE R == RowsOf(t)
           f == Selects(t)
           S == {a \in Exprs : \A r \in SUBSET R : f[<<a, r>>] \in Results(R)}
<1>1. \A a \in Exprs : \A r \in SUBSET R : f[<<a, r>>] = SelectStep(a, r, t, f)
  <2> TAKE a \in Exprs
  <2> TAKE r \in SUBSET R
  <2>1. <<a, r>> \in Exprs \X SUBSET R  OBVIOUS
  <2> DEFINE at(p) == SelectStep(p[1], p[2], t, f)
  <2>2. f = [p \in Exprs \X SUBSET R |-> at(p)]  BY SelectsAre
  <2> HIDE DEF at, f, R
  <2>3. f[<<a, r>>] = at(<<a, r>>)  BY <2>1, <2>2
  <2> QED BY <2>3 DEF at
<1> HIDE DEF f, R
<1>2. ASSUME NEW a \in Exprs, \A b \in Inner(a) : b \in S PROVE a \in S
  <2>1. AnswersFor(a, R, f)  BY <1>2 DEF AnswersFor
  <2> QED BY <1>1, <2>1, SelectStepAnswers
<1>3. Exprs \subseteq S
  <2> HIDE DEF S
  <2> QED BY <1>2, ExprInduction
<1>4. \A a \in Inner(e) : a \in Exprs  BY InnerIsShallower
<1> QED BY <1>3, <1>4 DEF AnswersFor, f, R

\* What is found of an expression among rows is one step from its parts.
LEMMA SelectsStep ==
    ASSUME NEW t, NEW e \in Exprs, NEW r \in SUBSET RowsOf(t)
    PROVE  Selects(t)[<<e, r>>] = SelectStep(e, r, t, Selects(t))
<1> DEFINE R == RowsOf(t)
           f == Selects(t)
           at(p) == SelectStep(p[1], p[2], t, f)
<1>1. <<e, r>> \in Exprs \X SUBSET R  OBVIOUS
<1>2. f = [p \in Exprs \X SUBSET R |-> at(p)]  BY SelectsAre
<1> HIDE DEF at, f, R
<1>3. f[<<e, r>>] = at(<<e, r>>)  BY <1>1, <1>2
<1> QED BY <1>3 DEF at, f

\* Rows that are found directly are rows of the table.
LEMMA FastRows ==
    ASSUME NEW t, NEW e \in Exprs
    PROVE  FastSelection(t, e).ok => FastSelection(t, e).rows \in SUBSET RowsOf(t)
<1>1. FastSelection(t, e) = Selects(t)[<<e, RowsOf(t)>>]  BY SelectsAre
<1>2. RowsOf(t) \in SUBSET RowsOf(t)  OBVIOUS
<1>3. FastSelection(t, e) \in Results(RowsOf(t))  BY <1>1, <1>2, SelectsResults
<1> QED BY <1>3, ResultsAre

----------------------------------------------------------------------------
(* A step that was validated makes the columns of its schema.              *)

\* Columns of the fields of a schema, all of one length, are accepted.
LEMMA ColumnsGood ==
    ASSUME NEW n \in Nat, NEW schema, DOMAIN schema = 1 .. n, NEW m \in 0 .. Half - 1,
           NEW columns, IsList(columns), DOMAIN columns = 1 .. n,
           \A k \in 1 .. n : IsField(columns[k], m, schema[k])
    PROVE  GoodColumns(schema, columns)
<1>1. m \in Nat /\ m < Half  BY NumberFacts
<1>2. \A k \in 1 .. n : Cardinality(DOMAIN columns[k].cells) = m
  BY <1>1, CountBelow DEF IsField
<1>3. CASE n = 0
  <2>1. DOMAIN columns = {} /\ DOMAIN schema = {}  BY <1>3
  <2>2. columns = << >>  BY <1>3 DEF IsList
  <2>3. LenOf(columns) = 0  BY <2>2 DEF LenOf
  <2>4. LenOf(columns) \in 0 .. Half - 1  BY <1>1, <2>3, NumberFacts
  <2>5. MatchesSchema(schema, columns)  BY <2>1 DEF MatchesSchema
  <2> QED BY <2>1, <2>4, <2>5 DEF GoodColumns
<1>4. CASE n > 0
  <2>1. 1 \in 1 .. n  BY <1>4
  <2>2. columns # << >>  BY <2>1
  <2>3. LenOf(columns) = m  BY <1>2, <2>1, <2>2 DEF LenOf
  <2>4. \A k \in 1 .. n : /\ IsColumnOf(columns[k], m)
                          /\ columns[k].name = schema[k].name
                          /\ columns[k].ty = schema[k].ty
                          /\ schema[k].nullable \/ ~ HasMissing(columns[k])
    BY DEF IsField
  <2> QED BY <1>2, <2>3, <2>4 DEF GoodColumns, MatchesSchema
<1> QED BY <1>3, <1>4

\* The columns of a good table are its fields.
LEMMA TableFields ==
    ASSUME NEW t, GoodTable(t)
    PROVE  /\ Len(t.schema) \in Nat /\ Len(t.columns) = Len(t.schema)
           /\ DOMAIN t.schema = 1 .. Len(t.schema) /\ DOMAIN t.columns = 1 .. Len(t.schema)
           /\ IsList(t.columns) /\ t.schema \in Seq(SchemaFields)
           /\ \A k \in DOMAIN t.columns : IsField(t.columns[k], t.len, t.schema[k])
           /\ t.len \in 0 .. Half - 1
<1>1. t.schema \in Seq(SchemaFields) /\ IsList(t.columns) /\ DOMAIN t.columns = DOMAIN t.schema
  BY DEF GoodTable, GoodColumns, MatchesSchema
<1>2. /\ Len(t.schema) \in Nat /\ Len(t.columns) = Len(t.schema)
      /\ DOMAIN t.schema = 1 .. Len(t.schema) /\ DOMAIN t.columns = 1 .. Len(t.schema)
  BY <1>1 DEF IsList
<1>3. ASSUME NEW k \in DOMAIN t.columns PROVE IsField(t.columns[k], t.len, t.schema[k])
  <2>1. IsColumnOf(t.columns[k], t.len)  BY ColumnsOfTable
  <2>2. DOMAIN t.columns[k].cells = 0 .. t.len - 1  BY <2>1 DEF IsColumnOf
  <2>3. /\ t.columns[k].name = t.schema[k].name /\ t.columns[k].ty = t.schema[k].ty
        /\ t.schema[k].nullable \/ ~ HasMissing(t.columns[k])
    BY <1>1 DEF GoodTable, GoodColumns, MatchesSchema
  <2> QED BY <2>1, <2>2, <2>3 DEF IsField
<1>4. t.len \in 0 .. Half - 1  BY TableLen, NumberFacts
<1> QED BY <1>1, <1>2, <1>3, <1>4

\* A list is one by its numbers.
LEMMA ListedBy ==
    ASSUME NEW n \in Nat, NEW s, s = [k \in 1 .. n |-> s[k]]
    PROVE  IsList(s) /\ DOMAIN s = 1 .. n
<1> DEFINE V == {s[k] : k \in DOMAIN s}
<1>1. DOMAIN s = 1 .. n  OBVIOUS
<1>2. s \in [1 .. n -> V]
  <2>1. \A k \in 1 .. n : s[k] \in V  BY <1>1
  <2> HIDE DEF V
  <2> QED BY <2>1
<1>3. s \in Seq(V)
  <2> HIDE DEF V
  <2> QED BY <1>2
<1> QED BY <1>1, <1>3 DEF IsList

\* A step is stopped by a sum or a product that does not fit, or has made the
\* columns of its schema.
RunsTo(made, schema) ==
    \/ made = Stopped("overflow")
    \/ made.why = "none" /\ GoodColumns(schema, made.columns)

\* Columns that fit a schema are what a step must make.
LEMMA MadeColumns ==
    ASSUME NEW schema, NEW columns, GoodColumns(schema, columns)
    PROVE  RunsTo(Columns(columns), schema)
BY DEF RunsTo, Columns

\* Rows of a field's column are one.
LEMMA GatheredField ==
    ASSUME NEW n \in Nat, NEW col, NEW f, IsField(col, n, f), NEW m \in Nat,
           NEW rows \in [0 .. m - 1 -> 0 .. n - 1]
    PROVE  IsField(GatherColumn(col, rows), m, f)
<1> DEFINE g == GatherColumn(col, rows)
<1>1. rows \in [0 .. m - 1 -> 0 .. n - 1 \cup {Missing}]  OBVIOUS
<1>2. \A i \in 0 .. m - 1 : rows[i] # Missing
  <2>1. \A i \in 0 .. m - 1 : rows[i] \in Int  OBVIOUS
  <2>2. Missing \notin Int  BY WordAssumption
  <2> QED BY <2>1, <2>2
<1>3. IsColumnOf(col, n)  BY DEF IsField
<1>4. /\ IsColumnOf(g, m) /\ g.name = col.name /\ g.ty = col.ty
      /\ DOMAIN g.cells = 0 .. m - 1
      /\ (~ HasMissing(col) /\ \A i \in 0 .. m - 1 : rows[i] # Missing) => ~ HasMissing(g)
  BY <1>1, <1>3, GatherFits
<1> HIDE DEF g
<1>5. IsField(g, m, f)  BY <1>2, <1>4 DEF IsField
<1> QED BY <1>5 DEF g

\* Rows of a good table are one.
LEMMA GatheredGood ==
    ASSUME NEW t, GoodTable(t), NEW m \in 0 .. Half - 1,
           NEW rows \in [0 .. m - 1 -> 0 .. t.len - 1]
    PROVE  RunsTo(Columns(GatherColumns(t, rows)), t.schema)
<1> DEFINE n == Len(t.schema)
           columns == GatherColumns(t, rows)
<1>1. /\ n \in Nat /\ DOMAIN t.schema = 1 .. n /\ DOMAIN t.columns = 1 .. n
      /\ t.len \in Nat /\ m \in Nat
  BY TableFields, TableLen, NumberFacts
<1>2. columns = [k \in 1 .. n |-> GatherColumn(t.columns[k], rows)]
  BY <1>1 DEF GatherColumns
<1>3. ASSUME NEW k \in 1 .. n PROVE IsField(columns[k], m, t.schema[k])
  <2>1. IsField(t.columns[k], t.len, t.schema[k])  BY <1>1, TableFields
  <2>2. columns[k] = GatherColumn(t.columns[k], rows)  BY <1>2
  <2> HIDE DEF columns, n
  <2> QED BY <1>1, <2>1, <2>2, GatheredField
<1>4. IsList(columns) /\ DOMAIN columns = 1 .. n
  <2>1. columns = [k \in 1 .. n |-> columns[k]]  BY <1>2
  <2> HIDE DEF columns, n
  <2> QED BY <1>1, <2>1, ListedBy
<1> HIDE DEF columns, n
<1>5. GoodColumns(t.schema, columns)  BY <1>1, <1>3, <1>4, ColumnsGood
<1> QED BY <1>5, MadeColumns DEF columns

\* Rows that are kept, from the first to the last.
LEMMA KeptGood ==
    ASSUME NEW t, GoodTable(t), NEW S \in SUBSET RowsOf(t)
    PROVE  RunsTo(Columns(GatherColumns(t, Ascending(S))), t.schema)
<1> DEFINE n == t.len
           m == Cardinality(S)
<1>1. n \in Nat /\ n < Half /\ S \in SUBSET (0 .. n - 1)  BY TableLen DEF RowsOf
<1>2. IsFiniteSet(0 .. n - 1) /\ Cardinality(0 .. n - 1) = n  BY <1>1, CountBelow
<1> HIDE DEF n
<1>3. IsFiniteSet(S) /\ m <= n /\ m \in Nat
  <2> DEFINE T == 0 .. n - 1
  <2>1. IsFiniteSet(T) /\ S \in SUBSET T /\ Cardinality(T) = n  BY <1>1, <1>2
  <2> HIDE DEF T
  <2>2. IsFiniteSet(S) /\ Cardinality(S) <= Cardinality(T)  BY <2>1, FS_Subset
  <2> QED BY <2>1, <2>2, FS_CardinalityType
<1>4. S \in SUBSET Int  BY <1>1
<1>5. Lists(Ascending(S), m, S, Less)  BY <1>3, <1>4, AscendingLists
<1> HIDE DEF m
<1>6. Ascending(S) \in [0 .. m - 1 -> 0 .. n - 1]  BY <1>1, <1>5 DEF Lists
<1>7. m \in 0 .. Half - 1  BY <1>1, <1>3, NumberFacts
<1> QED BY <1>6, <1>7, GatheredGood DEF n

\* A filter that was validated runs, and keeps the schema.
LEMMA FilterRuns ==
    ASSUME NEW t, GoodTable(t), NEW op, op.op = "filter", op.predicate \in Exprs,
           NodeSchema(op, t.schema).ok
    PROVE  RunsTo(RunOp(op, t), t.schema) /\ NodeSchema(op, t.schema).schema = t.schema
<1> DEFINE e == op.predicate
           T == TypeOf(e, t.schema)
           fast == FastSelection(t, e)
           d == Eval(e, t)
           good == TypedAs(e, t.schema, "Bool").ok
<1>1. NodeSchema(op, t.schema) = IF good THEN [ok |-> TRUE, schema |-> t.schema] ELSE Refused
  BY DEF NodeSchema, SchemaIf
<1>2. good
  <2> HIDE DEF good
  <2> QED BY <1>1, RefusedType
<1>3. NodeSchema(op, t.schema).schema = t.schema
  <2> HIDE DEF good
  <2> QED BY <1>1, <1>2
<1>4. TypedAs(e, t.schema, "Bool") = UsableAs(T, "Bool")  BY DEF TypedAs
<1>5. T.ok /\ T.ty = "Bool"  BY <1>2, <1>4, Operand DEF GoodTable
<1>6. Fits(d, t.len, T)  BY <1>5, EvalFits
<1>7. RunOp(op, t) = IF fast.ok THEN Columns(GatherColumns(t, Ascending(fast.rows)))
                     ELSE FilterBy(t, d)
  BY DEF RunOp, RunFilter
<1>8. fast.ok => fast.rows \in SUBSET RowsOf(t)  BY FastRows
<1>9. CASE fast.ok  BY <1>3, <1>7, <1>8, <1>9, KeptGood
<1>10. CASE ~ fast.ok
  <2> HIDE DEF d, fast, T
  <2>1. CASE Stops(d)
    <3>1. d = Overflow  BY <1>6, <2>1, StopsOverflow
    <3>2. FilterBy(t, d) = Stopped("overflow")  BY <2>1, <3>1 DEF FilterBy, Overflow
    <3> QED BY <1>3, <1>7, <1>10, <3>2 DEF RunsTo
  <2>2. CASE ~ Stops(d)
    <3>1. t.len \in Nat /\ T.ty \in AnyType  BY <1>5, TableLen, BoolValues
    <3>2. TypeOfDatum(d) = "Bool"  BY <1>5, <1>6, <2>2, <3>1, FitsGet
    <3>3. FilterBy(t, d) = Columns(GatherColumns(t, Ascending(Selection(t, d))))
      BY <2>2, <3>2 DEF FilterBy, Booleans
    <3>4. Selection(t, d) \in SUBSET RowsOf(t)  BY DEF Selection
    <3> QED BY <1>3, <1>7, <1>10, <3>3, <3>4, KeptGood
  <2> QED BY <2>1, <2>2
<1> QED BY <1>9, <1>10

\* A limit runs, and keeps the schema.
LEMMA LimitRuns ==
    ASSUME NEW t, GoodTable(t), NEW op, op.op = "limit", op.count \in Nat
    PROVE  /\ RunsTo(RunOp(op, t), t.schema)
           /\ NodeSchema(op, t.schema).schema = t.schema
<1> DEFINE m == IF op.count < t.len THEN op.count ELSE t.len
           rows == [i \in 0 .. m - 1 |-> i]
<1>1. t.len \in Nat /\ t.len < Half  BY TableLen
<1>2. m \in 0 .. Half - 1 /\ m <= t.len /\ m \in Nat  BY <1>1, NumberFacts
<1>3. RunOp(op, t) = Columns(GatherColumns(t, rows))  BY DEF RunOp, RunLimit
<1> HIDE DEF m
<1>4. rows \in [0 .. m - 1 -> 0 .. t.len - 1]  BY <1>1, <1>2
<1> HIDE DEF rows
<1>5. RunsTo(RunOp(op, t), t.schema)  BY <1>2, <1>3, <1>4, GatheredGood
<1>6. NodeSchema(op, t.schema).schema = t.schema  BY DEF NodeSchema, SchemaIf
<1> QED BY <1>5, <1>6

\* Known columns of types that have an order can be sorted and grouped by.
LEMMA OrderedColumns ==
    ASSUME NEW t, GoodTable(t), NEW m \in Nat, NEW names, DOMAIN names = 1 .. m,
           Orderable(names, t.schema)
    PROVE  /\ CanOrder(t, names)
           /\ \A k \in 1 .. m : /\ names[k] \in FieldNames(t.schema)
                                /\ IsColumnOf(ColumnOf(t, names[k]), t.len)
                                /\ ColumnOf(t, names[k]).ty \in SortableTypes
<1>1. ASSUME NEW k \in 1 .. m
      PROVE  /\ names[k] \in FieldNames(t.schema)
             /\ IsColumnOf(ColumnOf(t, names[k]), t.len)
             /\ ColumnOf(t, names[k]).ty \in SortableTypes
  <2>1. names[k] \in FieldNames(t.schema) /\ Field(t.schema, names[k]).ty # "Geo"
    BY DEF Orderable, Known
  <2>2. /\ IsColumnOf(ColumnOf(t, names[k]), t.len)
        /\ ColumnOf(t, names[k]).ty = Field(t.schema, names[k]).ty
        /\ Field(t.schema, names[k]).ty \in AnyType
    BY <2>1, ColumnFits
  <2> QED BY <2>1, <2>2 DEF AnyType
<1> QED BY <1>1 DEF CanOrder, Known

\* A sort that was validated runs, and keeps the schema.
LEMMA SortRuns ==
    ASSUME NEW t, GoodTable(t), NEW op, op.op = "sort",
           op.keys \in Seq([column : STRING, descending : BOOLEAN]),
           NodeSchema(op, t.schema).ok
    PROVE  RunsTo(RunOp(op, t), t.schema) /\ NodeSchema(op, t.schema).schema = t.schema
<1> DEFINE names == SortColumns(op)
           m == Len(op.keys)
           good == op.keys # << >> /\ Orderable(names, t.schema)
           keys == SortKeysOf(op, t)
           n == t.len
           rows == SortPermutation(n, keys)
<1>1. NodeSchema(op, t.schema) = IF good THEN [ok |-> TRUE, schema |-> t.schema] ELSE Refused
  BY DEF NodeSchema, SchemaIf
<1>2. good
  <2> HIDE DEF good
  <2> QED BY <1>1, RefusedType
<1>3. NodeSchema(op, t.schema).schema = t.schema
  <2> HIDE DEF good
  <2> QED BY <1>1, <1>2
<1>4. /\ m \in Nat /\ DOMAIN op.keys = 1 .. m
      /\ \A k \in 1 .. m : op.keys[k].descending \in BOOLEAN
  <2> DEFINE K == [column : STRING, descending : BOOLEAN]
  <2>1. \A x \in K : x.descending \in BOOLEAN  OBVIOUS
  <2>2. op.keys \in Seq(K)  OBVIOUS
  <2> HIDE DEF K
  <2>3. m \in Nat /\ DOMAIN op.keys = 1 .. m  BY <2>2
  <2>4. \A k \in 1 .. m : op.keys[k] \in K  BY <2>2
  <2> QED BY <2>1, <2>3, <2>4
<1>5. DOMAIN names = 1 .. m /\ \A k \in 1 .. m : names[k] = op.keys[k].column
  BY <1>4 DEF SortColumns
<1>6. n \in Nat /\ n < Half  BY TableLen
<1>7. CanOrder(t, names)
  <2> HIDE DEF names, m
  <2> QED BY <1>2, <1>4, <1>5, OrderedColumns
<1>8. \A k \in 1 .. m : /\ IsColumnOf(ColumnOf(t, names[k]), n)
                        /\ ColumnOf(t, names[k]).ty \in SortableTypes
  <2> HIDE DEF names, m
  <2> QED BY <1>2, <1>4, <1>5, OrderedColumns
<1>9. /\ keys = [k \in 1 .. m |-> keys[k]] /\ DOMAIN keys = 1 .. m
      /\ \A k \in 1 .. m : /\ keys[k].col = ColumnOf(t, names[k])
                           /\ keys[k].descending \in BOOLEAN
  BY <1>4, <1>5 DEF SortKeysOf
<1>10. RunOp(op, t) = Columns(GatherColumns(t, rows))
  BY <1>7 DEF RunOp, RunSort
<1> HIDE DEF names, m, keys, n
<1>11. KeysOf(keys, n)
  <2>1. \A k \in 1 .. m : WellTyped(keys[k].col, 0 .. n - 1)
    BY <1>6, <1>8, <1>9, SoundIsTyped
  <2> QED BY <1>9, <2>1 DEF KeysOf
<1> DEFINE K == {keys[k] : k \in DOMAIN keys}
<1>12. keys \in Seq(K)  BY <1>4, <1>9, ListedBy DEF IsList
<1> HIDE DEF K
<1>13. Lists(rows, n, 0 .. n - 1, ComparedPairs(keys, 0 .. n - 1))
  BY <1>6, <1>11, <1>12, SortLists
<1> HIDE DEF rows
<1>14. rows \in [0 .. n - 1 -> 0 .. n - 1]  BY <1>13 DEF Lists
<1>15. n \in 0 .. Half - 1  BY <1>6, NumberFacts
<1>16. RunsTo(RunOp(op, t), t.schema)  BY <1>10, <1>14, <1>15, GatheredGood DEF n
<1> QED BY <1>3, <1>16

\* A datum becomes a column of its type.
LEMMA MaterializedFits ==
    ASSUME NEW t, t.len \in Nat, NEW T, T.ty \in AnyType, NEW d, Fits(d, t.len, T), ~ Stops(d),
           NEW name
    PROVE  IsField(Materialized(t, d, name), t.len,
                   [name |-> name, ty |-> T.ty, nullable |-> T.nullable])
<1> DEFINE n == t.len
           c == Materialized(t, d, name)
           f == [name |-> name, ty |-> T.ty, nullable |-> T.nullable]
<1>1. T.ty # "None"  BY TypesDiffer DEF AnyType
<1>2. d # Overflow  BY DEF Stops, Overflow
<1>3. f.name = name /\ f.ty = T.ty /\ f.nullable = T.nullable  OBVIOUS
<1>4. CASE d = Scalar(d.lit) /\ IsLiteral(d.lit) /\ d.lit.ty = T.ty
  <2>1. d.d = "scalar"  BY <1>4 DEF Scalar
  <2>2. d.lit.ty \in SortableTypes  BY <1>4, TypesDiffer DEF AnyType, IsLiteral
  <2> DEFINE v == d.lit.v
  <2>3. v \in IF T.ty = "DictUtf8" THEN Int ELSE CellValues(T.ty)
    BY <1>4, <2>2, TypesDiffer DEF IsLiteral
  <2>4. CASE T.ty = "DictUtf8"
    <3> DEFINE cells == [i \in 0 .. n - 1 |-> 0]
               dictionary == <<v>>
    <3>1. c = NewColumn(name, "DictUtf8", cells, dictionary)
      BY <1>4, <2>1, <2>4 DEF Materialized, RowsOf
    <3>2. /\ c.name = name /\ c.ty = "DictUtf8" /\ c.cells = cells
          /\ c.dictionary = dictionary
      BY <3>1 DEF NewColumn
    <3>3. dictionary \in Seq(Int) /\ Len(dictionary) = 1 /\ DOMAIN dictionary = 1 .. 1
      <4>1. v \in Int  BY <2>3, <2>4
      <4> HIDE DEF v
      <4> QED BY <4>1
    <3> HIDE DEF c, dictionary, v
    <3>4. \A k, m \in DOMAIN dictionary : k < m => dictionary[k] < dictionary[m]
      BY <3>3
    <3>5. CellsOf(c) = 0 .. 0  BY <3>2, <3>3 DEF CellsOf
    <3>6. cells \in [0 .. n - 1 -> CellsOf(c) \cup {Missing}] /\ DOMAIN cells = 0 .. n - 1
      BY <3>5
    <3>7. ~ HasMissing(c)
      <4>1. \A i \in DOMAIN cells : cells[i] # Missing  BY WordAssumption
      <4> QED BY <3>2, <4>1 DEF HasMissing, IsPresent
    <3> HIDE DEF cells
    <3>8. IsColumnOf(c, n)
      <4>1. 1 <= Half  BY NumberFacts
      <4>2. c.dictionary \in Seq(Int) /\ Len(c.dictionary) <= Half  BY <3>2, <3>3, <4>1
      <4>3. c = NewColumn(c.name, c.ty, c.cells, c.dictionary)  BY <3>1, <3>2
      <4>4. c.ty \in SortableTypes  BY <3>2 DEF SortableTypes
      <4>5. c.cells \in [0 .. n - 1 -> CellsOf(c) \cup {Missing}]  BY <3>2, <3>6
      <4>6. \A k, m \in DOMAIN c.dictionary :
               k < m => c.dictionary[k] < c.dictionary[m]
        BY <3>2, <3>4
      <4> HIDE DEF n
      <4> QED BY <4>2, <4>3, <4>4, <4>5, <4>6 DEF IsColumnOf
    <3> QED BY <1>3, <2>4, <3>2, <3>6, <3>7, <3>8 DEF IsField, c
  <2>5. CASE T.ty # "DictUtf8"
    <3> DEFINE cells == [i \in 0 .. n - 1 |-> v]
    <3>1. c = NewColumn(name, T.ty, cells, << >>)
      BY <1>4, <2>1, <2>5 DEF Materialized, RowsOf
    <3>2. v \in ValuesOfType(T.ty) /\ v # Missing
      <4>1. v \in ValuesOfType(T.ty)
        BY <1>4, <2>2, <2>3, <2>5, TypesDiffer DEF ValuesOfType
      <4>2. v \in Int  BY <1>4, <2>2, <4>1, TypesDiffer
      <4> QED BY <4>1, <4>2, WordAssumption
    <3> HIDE DEF c, v
    <3>3. cells \in [0 .. n - 1 -> ValuesOfType(T.ty) \cup {Missing}]  BY <3>2
    <3>4. /\ IsColumnOf(c, n) /\ c.name = name /\ c.ty = T.ty
          /\ DOMAIN c.cells = 0 .. n - 1 /\ c.cells = cells
      BY <2>5, <3>1, <3>3, MadeColumn
    <3>5. ~ HasMissing(c)  BY <3>2, <3>4 DEF HasMissing, IsPresent
    <3> QED BY <1>3, <3>4, <3>5 DEF IsField, c
  <2> QED BY <2>4, <2>5
<1>5. CASE /\ d = [d |-> "col", col |-> d.col] /\ IsColumnOf(d.col, n)
           /\ d.col.ty = T.ty /\ (T.nullable \/ ~ HasMissing(d.col))
  <2> DEFINE col == d.col
  <2>1. d.d = "col"  BY <1>5
  <2>2. c = [col EXCEPT !.name = name]  BY <2>1 DEF Materialized
  <2>3. col = NewColumn(col.name, col.ty, col.cells, col.dictionary)
    BY <1>5 DEF IsColumnOf
  <2> HIDE DEF c
  <2>4. c = NewColumn(name, col.ty, col.cells, col.dictionary)
    BY <2>2, <2>3 DEF NewColumn
  <2>5. c.name = name /\ c.ty = col.ty /\ c.cells = col.cells /\ c.dictionary = col.dictionary
    BY <2>4 DEF NewColumn
  <2>6. IsColumnOf(col, n) /\ col.ty = T.ty /\ (T.nullable \/ ~ HasMissing(col))
    BY <1>5
  <2> HIDE DEF col
  <2>7. CellsOf(c) = CellsOf(col)  BY <2>5 DEF CellsOf
  <2>8. IsColumnOf(c, n)  BY <2>4, <2>5, <2>6, <2>7 DEF IsColumnOf
  <2>9. HasMissing(c) <=> HasMissing(col)  BY <2>5 DEF HasMissing, IsPresent
  <2>10. DOMAIN c.cells = 0 .. n - 1  BY <2>8 DEF IsColumnOf
  <2> QED BY <1>3, <2>5, <2>6, <2>8, <2>9, <2>10 DEF IsField, c
<1> QED BY <1>1, <1>2, <1>4, <1>5 DEF Fits

\* One more column, of one more field.
LEMMA AppendedGood ==
    ASSUME NEW t, GoodTable(t), NEW c, NEW f, IsField(c, t.len, f)
    PROVE  GoodColumns(Append(t.schema, f), Append(t.columns, c))
<1> DEFINE n == Len(t.schema)
           schema == Append(t.schema, f)
           columns == Append(t.columns, c)
<1>1. /\ n \in Nat /\ Len(t.columns) = n
      /\ DOMAIN t.schema = 1 .. n /\ DOMAIN t.columns = 1 .. n
      /\ IsList(t.columns) /\ t.schema \in Seq(SchemaFields)
      /\ \A k \in 1 .. n : IsField(t.columns[k], t.len, t.schema[k])
      /\ t.len \in 0 .. Half - 1
  <2>1. /\ n \in Nat /\ Len(t.columns) = n
        /\ DOMAIN t.schema = 1 .. n /\ DOMAIN t.columns = 1 .. n
        /\ IsList(t.columns) /\ t.schema \in Seq(SchemaFields)
        /\ t.len \in 0 .. Half - 1
    BY TableFields
  <2>2. \A k \in DOMAIN t.columns : IsField(t.columns[k], t.len, t.schema[k])
    BY TableFields
  <2> QED BY <2>1, <2>2
<1>2. /\ schema = [k \in 1 .. n + 1 |-> IF k = n + 1 THEN f ELSE t.schema[k]]
      /\ columns = [k \in 1 .. n + 1 |-> IF k = n + 1 THEN c ELSE t.columns[k]]
  <2> DEFINE V == {t.columns[k] : k \in DOMAIN t.columns}
             W == SchemaFields
             s == t.schema
             u == t.columns
  <2>1. u \in Seq(V) /\ s \in Seq(W) /\ Len(u) = n /\ Len(s) = n  BY <1>1 DEF IsList
  <2> HIDE DEF V, W, s, u, n
  <2>2. Append(s, f) = [k \in 1 .. n + 1 |-> IF k = n + 1 THEN f ELSE s[k]]
    BY <2>1, AppendedItems
  <2>3. Append(u, c) = [k \in 1 .. n + 1 |-> IF k = n + 1 THEN c ELSE u[k]]
    BY <2>1, AppendedItems
  <2> QED BY <2>2, <2>3 DEF s, u
<1> HIDE DEF schema, columns, n
<1>3. \A k \in 1 .. n + 1 : IsField(columns[k], t.len, schema[k])
  <2> TAKE k \in 1 .. n + 1
  <2>1. CASE k = n + 1  BY <1>2, <2>1
  <2>2. CASE k # n + 1
    <3>1. k \in 1 .. n  BY <1>1, <2>2
    <3> QED BY <1>1, <1>2, <2>2, <3>1
  <2> QED BY <2>1, <2>2
<1>4. n + 1 \in Nat /\ DOMAIN schema = 1 .. n + 1  BY <1>1, <1>2
<1>5. IsList(columns) /\ DOMAIN columns = 1 .. n + 1
  <2>1. columns = [k \in 1 .. n + 1 |-> columns[k]]  BY <1>2
  <2> QED BY <1>4, <2>1, ListedBy
<1> QED BY <1>1, <1>3, <1>4, <1>5, ColumnsGood DEF schema, columns

\* A map that was validated runs or overflows, and adds its column.
LEMMA MapRuns ==
    ASSUME NEW t, GoodTable(t), NEW op, op.op = "map", op.expr \in Exprs, op.name \in STRING,
           NodeSchema(op, t.schema).ok
    PROVE  LET schema == NodeSchema(op, t.schema).schema
           IN  RunsTo(RunOp(op, t), schema) /\ schema \in Seq(SchemaFields)
<1> DEFINE e == op.expr
           T == TypeOf(e, t.schema)
           u == Typed(e, t.schema)
           d == Eval(e, t)
           good == op.name # "" /\ op.name \notin FieldNames(t.schema) /\ u.ok
           f == [name |-> op.name, ty |-> u.ty, nullable |-> u.nullable]
           schema == Append(t.schema, f)
           c == Materialized(t, d, op.name)
<1>1. NodeSchema(op, t.schema) = IF good THEN [ok |-> TRUE, schema |-> schema] ELSE Refused
  BY DEF NodeSchema, SchemaIf
<1>2. good
  <2> HIDE DEF good, schema
  <2> QED BY <1>1, RefusedType
<1>3. NodeSchema(op, t.schema).schema = schema
  <2> HIDE DEF good, schema
  <2> QED BY <1>1, <1>2
<1>4. u = T /\ T.ok /\ T.ty \in AnyType /\ T.nullable \in BOOLEAN
  <2>1. u = Usable(T) /\ Usable(T).ok  BY <1>2, Operand DEF GoodTable
  <2> QED BY <2>1, Operand DEF GoodTable
<1>5. Fits(d, t.len, T)  BY <1>4, EvalFits
<1>6. t.schema \in Seq(SchemaFields) /\ t.len \in Nat  BY TableLen DEF GoodTable
<1>7. schema \in Seq(SchemaFields)
  <2>1. f \in SchemaFields  BY <1>4 DEF SchemaFields, AnyType
  <2> HIDE DEF f
  <2> DEFINE W == SchemaFields
             s == t.schema
  <2>2. f \in W /\ s \in Seq(W)  BY <1>6, <2>1
  <2> HIDE DEF W, s
  <2>3. Append(s, f) \in Seq(W)  BY <2>2
  <2> QED BY <2>3 DEF W, s
<1>8. RunOp(op, t) = AddColumn(t, d, op.name)  BY DEF RunOp, RunMap
<1>9. CASE Stops(d)
  <2> HIDE DEF d, T
  <2>1. d = Overflow  BY <1>5, <1>9, StopsOverflow
  <2>2. AddColumn(t, d, op.name) = Stopped("overflow")
    BY <1>9, <2>1 DEF AddColumn, Overflow
  <2>3. RunsTo(RunOp(op, t), schema)
    <3> HIDE DEF schema
    <3> QED BY <1>8, <2>2 DEF RunsTo
  <2> QED BY <1>3, <1>7, <2>3
<1>10. CASE ~ Stops(d)
  <2>1. f = [name |-> op.name, ty |-> T.ty, nullable |-> T.nullable]  BY <1>4
  <2> HIDE DEF d, T, f
  <2>2. TypeOfDatum(d) = T.ty  BY <1>4, <1>5, <1>6, <1>10, FitsGet
  <2>3. T.ty # "Null"  BY <1>4, TypesDiffer DEF AnyType
  <2>4. AddColumn(t, d, op.name) = Columns(Append(t.columns, c))
    BY <1>10, <2>2, <2>3 DEF AddColumn
  <2>5. IsField(c, t.len, f)
    BY <1>4, <1>5, <1>6, <1>10, <2>1, MaterializedFits
  <2> HIDE DEF c
  <2>6. GoodColumns(schema, Append(t.columns, c))  BY <2>5, AppendedGood
  <2>7. RunsTo(RunOp(op, t), schema)
    <3> HIDE DEF schema
    <3> QED BY <1>8, <2>4, <2>6, MadeColumns
  <2> QED BY <1>3, <1>7, <2>7
<1> QED BY <1>9, <1>10

\* Columns picked by name are the fields picked by name.
LEMMA PickedFields ==
    ASSUME NEW t, GoodTable(t), NEW m \in Nat, NEW names, DOMAIN names = 1 .. m,
           Known(names, t.schema)
    PROVE  /\ DOMAIN Picked(names, t.schema) = 1 .. m
           /\ DOMAIN ColumnsNamed(t, names) = 1 .. m
           /\ \A k \in 1 .. m :
                 /\ Picked(names, t.schema)[k] \in SchemaFields
                 /\ ColumnsNamed(t, names)[k] = ColumnOf(t, names[k])
                 /\ IsField(ColumnsNamed(t, names)[k], t.len, Picked(names, t.schema)[k])
<1>1. ASSUME NEW k \in 1 .. m
      PROVE  /\ Field(t.schema, names[k]) \in SchemaFields
             /\ IsField(ColumnOf(t, names[k]), t.len, Field(t.schema, names[k]))
  <2> DEFINE name == names[k]
             col == ColumnOf(t, name)
             f == Field(t.schema, name)
  <2>1. name \in FieldNames(t.schema)  BY DEF Known
  <2>2. /\ IsColumnOf(col, t.len) /\ col.name = name /\ col.ty = f.ty
        /\ f.nullable \/ ~ HasMissing(col)
    BY <2>1, ColumnFits
  <2>3. f \in SchemaFields /\ f.name = name  BY <2>1, FieldFound DEF GoodTable
  <2>4. DOMAIN col.cells = 0 .. t.len - 1  BY <2>2 DEF IsColumnOf
  <2> HIDE DEF col, f, name
  <2>5. IsField(col, t.len, f)  BY <2>2, <2>3, <2>4 DEF IsField
  <2> QED BY <2>3, <2>5 DEF col, f, name
<1> QED BY <1>1 DEF Picked, ColumnsNamed

\* A projection that was validated runs, and makes the schema inferred.
LEMMA ProjectRuns ==
    ASSUME NEW t, GoodTable(t), NEW op, op.op = "project", op.columns \in Seq(STRING),
           NodeSchema(op, t.schema).ok
    PROVE  LET schema == NodeSchema(op, t.schema).schema
           IN  RunsTo(RunOp(op, t), schema) /\ schema \in Seq(SchemaFields)
<1> DEFINE names == op.columns
           m == Len(names)
           good == names # << >> /\ Unique(names) /\ Known(names, t.schema)
           schema == Picked(names, t.schema)
           columns == ColumnsNamed(t, names)
<1>1. NodeSchema(op, t.schema) = IF good THEN [ok |-> TRUE, schema |-> schema] ELSE Refused
  BY DEF NodeSchema, SchemaIf
<1>2. good
  <2> HIDE DEF good, schema
  <2> QED BY <1>1, RefusedType
<1>3. NodeSchema(op, t.schema).schema = schema
  <2> HIDE DEF good, schema
  <2> QED BY <1>1, <1>2
<1>4. m \in Nat /\ DOMAIN names = 1 .. m  OBVIOUS
<1>5. RunOp(op, t) = Columns(columns)  BY <1>2 DEF RunOp, RunProject
<1>6. /\ schema = [k \in 1 .. m |-> schema[k]] /\ columns = [k \in 1 .. m |-> columns[k]]
  BY <1>4 DEF Picked, ColumnsNamed
<1> HIDE DEF m
<1>7. /\ DOMAIN schema = 1 .. m /\ DOMAIN columns = 1 .. m
      /\ \A k \in 1 .. m : /\ schema[k] \in SchemaFields
                           /\ IsField(columns[k], t.len, schema[k])
  BY <1>2, <1>4, PickedFields
<1> HIDE DEF schema, columns
<1>8. IsList(columns)  BY <1>4, <1>6, ListedBy
<1>9. t.len \in 0 .. Half - 1  BY TableFields
<1>10. GoodColumns(schema, columns)  BY <1>4, <1>7, <1>8, <1>9, ColumnsGood
<1>11. schema \in Seq(SchemaFields)
  <2> DEFINE W == SchemaFields
  <2>1. schema \in [1 .. m -> W]  BY <1>6, <1>7
  <2> HIDE DEF W
  <2>2. schema \in Seq(W)  BY <1>4, <2>1
  <2> QED BY <2>2 DEF W
<1> QED BY <1>3, <1>5, <1>10, <1>11, MadeColumns

\* Lists of columns that are fields, one after the other.
LEMMA JoinedFields ==
    ASSUME NEW n \in Nat, NEW s, NEW c,
           IsList(s), IsList(c), DOMAIN s = 1 .. n, DOMAIN c = 1 .. n,
           NEW p \in Nat, NEW u, NEW d,
           IsList(u), IsList(d), DOMAIN u = 1 .. p, DOMAIN d = 1 .. p,
           NEW m \in 0 .. Half - 1,
           \A k \in 1 .. n : s[k] \in SchemaFields /\ IsField(c[k], m, s[k]),
           \A k \in 1 .. p : u[k] \in SchemaFields /\ IsField(d[k], m, u[k])
    PROVE  GoodColumns(s \o u, c \o d) /\ s \o u \in Seq(SchemaFields)
<1> DEFINE S == SchemaFields
           C == {c[k] : k \in DOMAIN c} \cup {d[k] : k \in DOMAIN d}
           a == s \o u
           b == c \o d
<1>1. s \in Seq(S) /\ u \in Seq(S) /\ Len(s) = n /\ Len(u) = p
  <2>1. s \in Seq({s[k] : k \in DOMAIN s}) /\ u \in Seq({u[k] : k \in DOMAIN u})
    BY DEF IsList
  <2>2. Len(s) = n /\ Len(u) = p  BY <2>1
  <2> HIDE DEF S
  <2>3. s \in [1 .. n -> S] /\ u \in [1 .. p -> S]
    <3>1. \A k \in 1 .. n : s[k] \in S  BY DEF S
    <3>2. \A k \in 1 .. p : u[k] \in S  BY DEF S
    <3>3. s = [k \in 1 .. n |-> s[k]] /\ u = [k \in 1 .. p |-> u[k]]  BY <2>1
    <3> QED BY <3>1, <3>2, <3>3
  <2> QED BY <2>2, <2>3
<1>2. c \in Seq(C) /\ d \in Seq(C) /\ Len(c) = n /\ Len(d) = p
  <2>1. c \in Seq({c[k] : k \in DOMAIN c}) /\ d \in Seq({d[k] : k \in DOMAIN d})
    BY DEF IsList
  <2>2. Len(c) = n /\ Len(d) = p  BY <2>1
  <2>3. {c[k] : k \in DOMAIN c} \subseteq C /\ {d[k] : k \in DOMAIN d} \subseteq C  OBVIOUS
  <2> HIDE DEF C
  <2> QED BY <2>1, <2>2, <2>3
<1> HIDE DEF S, C
<1>3. /\ a \in Seq(S) /\ Len(a) = n + p
      /\ \A k \in 1 .. n : a[k] = s[k]
      /\ \A k \in n + 1 .. n + p : a[k] = u[k - n]
  BY <1>1, JoinedItems
<1>4. /\ b \in Seq(C) /\ Len(b) = n + p
      /\ \A k \in 1 .. n : b[k] = c[k]
      /\ \A k \in n + 1 .. n + p : b[k] = d[k - n]
  BY <1>2, JoinedItems
<1> HIDE DEF a, b
<1>5. ASSUME NEW k \in 1 .. n + p PROVE IsField(b[k], m, a[k])
  <2>1. CASE k <= n
    <3>1. k \in 1 .. n  BY <2>1
    <3> QED BY <1>3, <1>4, <3>1
  <2>2. CASE k > n
    <3>1. k \in n + 1 .. n + p /\ k - n \in 1 .. p  BY <2>2
    <3> QED BY <1>3, <1>4, <3>1
  <2> QED BY <2>1, <2>2
<1>6. n + p \in Nat /\ DOMAIN a = 1 .. n + p  BY <1>3
<1>7. b = [k \in 1 .. n + p |-> b[k]]  BY <1>4
<1>8. IsList(b) /\ DOMAIN b = 1 .. n + p  BY <1>6, <1>7, ListedBy
<1>9. GoodColumns(a, b)  BY <1>5, <1>6, <1>8, ColumnsGood
<1> QED BY <1>3, <1>9 DEF a, b, S

\* The groups by columns of a table, in order: there are fewer than numbers
\* go, and the first row of each is one of the table.
LEMMA GroupsInOrder ==
    ASSUME NEW n \in Nat, n < Half, NEW keys, GroupKeys(keys, n), IsList(keys)
    PROVE  LET groups == Group(n, keys)
               order == GroupOrder(groups, keys)
           IN  \E m \in 0 .. Half - 1 :
                  /\ DOMAIN order = 0 .. m - 1
                  /\ \A p \in 0 .. m - 1 : order[p] \in 0 .. groups.count - 1
                  /\ Len(keys) > 0 =>
                        \A p \in 0 .. m - 1 : groups.first_row[order[p]] \in 0 .. n - 1
<1> DEFINE groups == Group(n, keys)
           order == GroupOrder(groups, keys)
<1>1. Grouped(groups, n, keys, Len(keys))  BY GroupsAre
<1>2. Len(keys) \in Nat /\ DOMAIN keys = 1 .. Len(keys)  BY DEF GroupKeys
<1> DEFINE Fine(m) ==
              /\ DOMAIN order = 0 .. m - 1
              /\ \A p \in 0 .. m - 1 : order[p] \in 0 .. groups.count - 1
              /\ Len(keys) > 0 =>
                    \A p \in 0 .. m - 1 : groups.first_row[order[p]] \in 0 .. n - 1
<1> HIDE DEF groups
<1>3. ASSUME Len(keys) = 0 PROVE \E m \in 0 .. Half - 1 : Fine(m)
  <2>1. groups = [ids |-> [i \in 0 .. n - 1 |-> 0], count |-> 1, first_row |-> << >>]
    BY <1>1, <1>3 DEF Grouped
  <2>2. groups.count = 1  BY <2>1
  <2>3. keys = << >>  BY <1>3 DEF IsList
  <2>4. order = [p \in {0} |-> 0]  BY <2>3 DEF GroupOrder
  <2>5. DOMAIN order = 0 .. 1 - 1 /\ order[0] = 0
    <3>1. 0 .. 1 - 1 = {0}  OBVIOUS
    <3> QED BY <2>4, <3>1
  <2> HIDE DEF order
  <2>6. 1 \in 0 .. Half - 1  BY NumberFacts
  <2>7. \A p \in 0 .. 1 - 1 : order[p] \in 0 .. groups.count - 1  BY <2>2, <2>5
  <2>8. Fine(1)  BY <1>3, <2>5, <2>7
  <2> HIDE DEF Fine
  <2> QED BY <2>6, <2>8
<1>4. ASSUME Len(keys) > 0 PROVE \E m \in 0 .. Half - 1 : Fine(m)
  <2>1. keys # << >>  BY <1>2, <1>4
  <2>2. Lists(order, groups.count, 0 .. groups.count - 1, GroupPairs(keys, groups))
    BY <1>1, <1>4, GroupOrderLists
  <2> HIDE DEF order
  <2>3. groups.count \in 0 .. n /\ groups.first_row \in [0 .. groups.count - 1 -> 0 .. n - 1]
    BY <1>1, <1>4 DEF Grouped
  <2>4. order \in [0 .. groups.count - 1 -> 0 .. groups.count - 1]  BY <2>2 DEF Lists
  <2>5. groups.count \in 0 .. Half - 1  BY <2>3, NumberFacts
  <2>6. Fine(groups.count)  BY <2>3, <2>4
  <2> HIDE DEF Fine
  <2> QED BY <2>5, <2>6
<1>5. \E m \in 0 .. Half - 1 : Fine(m)
  <2> HIDE DEF Fine
  <2> QED BY <1>2, <1>3, <1>4
<1> QED BY <1>5 DEF groups

\* An aggregation that was validated runs or overflows, and makes the schema
\* inferred.
LEMMA AggregateRuns ==
    ASSUME NEW t, GoodTable(t), NEW op, op.op = "aggregate",
           op.group_by \in Seq(STRING), op.aggregates \in Seq(Aggregates),
           NodeSchema(op, t.schema).ok
    PROVE  LET schema == NodeSchema(op, t.schema).schema
           IN  RunsTo(RunOp(op, t), schema) /\ schema \in Seq(SchemaFields)
<1> DEFINE n == t.len
           names == op.group_by
           aggs == op.aggregates
           g == Len(names)
           q == Len(aggs)
           good == /\ aggs # << >> \/ names # << >>
                   /\ Unique(names \o AggNames(op))
                   /\ Orderable(names, t.schema)
                   /\ \A i \in DOMAIN aggs : AggFits(aggs[i], t.schema)
           picked == Picked(names, t.schema)
           made == [i \in DOMAIN aggs |-> AggField(aggs[i], t.schema)]
           schema == picked \o made
           keys == ColumnsNamed(t, names)
           groups == Group(n, keys)
           order == GroupOrder(groups, keys)
           first == [p \in DOMAIN order |-> groups.first_row[order[p]]]
           kcols == [k \in DOMAIN keys |-> GatherColumn(keys[k], first)]
           acols == [i \in DOMAIN aggs |-> AggregateColumn(t, aggs[i], groups, order)]
           usable(a) == \/ a.func = "count"
                        \/ /\ a.column \in FieldNames(t.schema)
                           /\ Takes(a.func, ColumnOf(t, a.column))
           overflows(a) == a.func = "sum" /\ SumOverflows(a, ColumnOf(t, a.column), groups)
           stops == \E i \in DOMAIN aggs : overflows(aggs[i])
           unusable == ~ CanOrder(t, names) \/ \E i \in DOMAIN aggs : ~ usable(aggs[i])
<1>1. NodeSchema(op, t.schema) = IF good THEN [ok |-> TRUE, schema |-> schema] ELSE Refused
  BY DEF NodeSchema, SchemaIf
<1>2. good
  <2> HIDE DEF good, schema
  <2> QED BY <1>1, RefusedType
<1>3. NodeSchema(op, t.schema).schema = schema
  <2> HIDE DEF good, schema
  <2> QED BY <1>1, <1>2
<1>4. RunOp(op, t) = IF unusable THEN Stopped("panic")
                     ELSE IF stops THEN Stopped("overflow")
                     ELSE Columns(kcols \o acols)
  BY DEF RunOp, RunAggregate
<1>5. /\ g \in Nat /\ DOMAIN names = 1 .. g /\ q \in Nat /\ DOMAIN aggs = 1 .. q
      /\ \A i \in 1 .. q : aggs[i] \in Aggregates /\ AggFits(aggs[i], t.schema)
  <2> DEFINE A == Aggregates
  <2>1. names \in Seq(STRING) /\ aggs \in Seq(A)  OBVIOUS
  <2>2. \A i \in DOMAIN aggs : AggFits(aggs[i], t.schema)  BY <1>2
  <2> HIDE DEF A, names, aggs
  <2>3. g \in Nat /\ DOMAIN names = 1 .. g /\ q \in Nat /\ DOMAIN aggs = 1 .. q
    BY <2>1
  <2>4. \A i \in 1 .. q : aggs[i] \in A  BY <2>1
  <2> QED BY <2>2, <2>3, <2>4 DEF A
<1>6. Orderable(names, t.schema) /\ Known(names, t.schema)  BY <1>2 DEF Orderable
<1> HIDE DEF good, g, q, names, aggs
<1>7. CanOrder(t, names)  BY <1>5, <1>6, OrderedColumns
<1>8. \A k \in 1 .. g : /\ IsColumnOf(ColumnOf(t, names[k]), n)
                        /\ ColumnOf(t, names[k]).ty \in SortableTypes
  BY <1>5, <1>6, OrderedColumns
<1>9. /\ DOMAIN picked = 1 .. g /\ DOMAIN keys = 1 .. g
      /\ \A k \in 1 .. g : /\ picked[k] \in SchemaFields
                           /\ keys[k] = ColumnOf(t, names[k])
                           /\ IsField(keys[k], n, picked[k])
  BY <1>5, <1>6, PickedFields
<1>10. picked = [k \in 1 .. g |-> picked[k]] /\ keys = [k \in 1 .. g |-> keys[k]]
  BY <1>5 DEF Picked, ColumnsNamed
<1>11. IsList(picked) /\ IsList(keys) /\ Len(keys) = g
  <2> HIDE DEF picked, keys
  <2>1. IsList(picked) /\ IsList(keys)  BY <1>5, <1>10, ListedBy
  <2>2. Len(keys) = g  BY <1>5, <1>9, <2>1 DEF IsList
  <2> QED BY <2>1, <2>2
<1>12. ~ unusable
  <2>1. \A i \in 1 .. q : usable(aggs[i])
    <3> TAKE i \in 1 .. q
    <3> DEFINE a == aggs[i]
    <3>1. a \in Aggregates /\ AggFits(a, t.schema)  BY <1>5
    <3> HIDE DEF a
    <3>2. a.func # "count" => /\ a.column \in FieldNames(t.schema)
                              /\ Takes(a.func, ColumnOf(t, a.column))
      BY <3>1, AggregateTypes
    <3> QED BY <3>2 DEF a
  <2> HIDE DEF usable
  <2> QED BY <1>5, <1>7, <2>1
<1>13. n \in Nat /\ n < Half  BY TableLen
<1> HIDE DEF n, unusable, picked, keys, schema
<1>14. GroupKeys(keys, n)  BY <1>5, <1>8, <1>9, <1>11 DEF GroupKeys
<1>15. PICK m \in 0 .. Half - 1 :
          /\ DOMAIN order = 0 .. m - 1
          /\ \A p \in 0 .. m - 1 : order[p] \in 0 .. groups.count - 1
          /\ Len(keys) > 0 => \A p \in 0 .. m - 1 : groups.first_row[order[p]] \in 0 .. n - 1
  BY <1>11, <1>13, <1>14, GroupsInOrder
<1>16. m \in Nat  BY NumberFacts
<1> HIDE DEF order, groups
<1>17. ASSUME NEW k \in 1 .. g PROVE IsField(kcols[k], m, picked[k])
  <2>1. kcols[k] = GatherColumn(keys[k], first)  BY <1>9
  <2>2. Len(keys) > 0  BY <1>5, <1>11
  <2>3. first \in [0 .. m - 1 -> 0 .. n - 1]  BY <1>15, <2>2
  <2> HIDE DEF kcols, first
  <2> QED BY <1>9, <1>13, <1>16, <2>1, <2>3, GatheredField
<1>18. ASSUME NEW i \in 1 .. q, ~ stops PROVE IsField(acols[i], m, made[i])
  <2> DEFINE a == aggs[i]
  <2>1. a \in Aggregates /\ AggFits(a, t.schema) /\ ~ overflows(a)  BY <1>5, <1>18
  <2>2. acols[i] = AggregateColumn(t, a, groups, order) /\ made[i] = AggField(a, t.schema)
    BY <1>5
  <2> HIDE DEF a, acols, made
  <2>3. a.func = "sum" => ~ SumOverflows(a, ColumnOf(t, a.column), groups)  BY <2>1
  <2>4. IsField(AggregateColumn(t, a, groups, order), m, AggField(a, t.schema))
    BY <1>15, <1>16, <2>1, <2>3, AggregateFits
  <2> QED BY <2>2, <2>4
<1>19. \A i \in 1 .. q : made[i] \in SchemaFields
  <2> TAKE i \in 1 .. q
  <2> DEFINE a == aggs[i]
             ty == AggType(a, t.schema)
  <2>1. a \in Aggregates /\ AggFits(a, t.schema)  BY <1>5
  <2>2. made[i] = [name |-> a.name, ty |-> ty,
                   nullable |-> a.func \notin {"count", "count_non_null"}]
    BY <1>5 DEF AggField
  <2> HIDE DEF a, made
  <2>3. ty \in AnyType  BY <2>1, AggregateTypes
  <2>4. a.name \in STRING  BY <2>1 DEF Aggregates
  <2> HIDE DEF ty
  <2> QED BY <2>2, <2>3, <2>4 DEF SchemaFields, AnyType
<1>20. /\ DOMAIN made = 1 .. q /\ DOMAIN kcols = 1 .. g /\ DOMAIN acols = 1 .. q
       /\ made = [i \in 1 .. q |-> made[i]]
       /\ kcols = [i \in 1 .. g |-> kcols[i]]
       /\ acols = [i \in 1 .. q |-> acols[i]]
  BY <1>5, <1>9
<1> HIDE DEF made, kcols, acols, stops
<1>21. IsList(made) /\ IsList(kcols) /\ IsList(acols)  BY <1>5, <1>20, ListedBy
<1>22. schema \in Seq(SchemaFields)
  <2>1. picked \in Seq(SchemaFields) /\ made \in Seq(SchemaFields)
    <3> DEFINE W == SchemaFields
    <3>1. \A k \in 1 .. g : picked[k] \in W  BY <1>9
    <3>2. \A i \in 1 .. q : made[i] \in W  BY <1>19
    <3> HIDE DEF W
    <3>3. picked \in [1 .. g -> W] /\ made \in [1 .. q -> W]
      BY <1>10, <1>20, <3>1, <3>2
    <3>4. picked \in Seq(W) /\ made \in Seq(W)  BY <1>5, <3>3
    <3> QED BY <3>4 DEF W
  <2> QED BY <2>1, JoinedItems DEF schema
<1>23. ~ stops => GoodColumns(schema, kcols \o acols)
  <2> SUFFICES ASSUME ~ stops PROVE GoodColumns(schema, kcols \o acols)  OBVIOUS
  <2>1. \A k \in 1 .. g : picked[k] \in SchemaFields /\ IsField(kcols[k], m, picked[k])
    BY <1>9, <1>17
  <2>2. \A i \in 1 .. q : made[i] \in SchemaFields /\ IsField(acols[i], m, made[i])
    BY <1>18, <1>19
  <2>3. GoodColumns(picked \o made, kcols \o acols)
    BY <1>5, <1>9, <1>11, <1>20, <1>21, <2>1, <2>2, JoinedFields
  <2> QED BY <2>3 DEF schema
<1>24. RunsTo(RunOp(op, t), schema)
  <2>1. CASE stops  BY <1>4, <1>12, <2>1 DEF RunsTo
  <2>2. CASE ~ stops  BY <1>4, <1>12, <1>23, <2>2, MadeColumns
  <2> QED BY <2>1, <2>2
<1> QED BY <1>3, <1>22, <1>24

\* A scan that has a schema finds its snapshot.
LEMMA ScanRuns ==
    ASSUME NEW op, op.op = "scan", NodeSchema(op, << >>).ok, NEW input
    PROVE  LET schema == NodeSchema(op, << >>).schema
           IN  RunsTo(RunOp(op, input), schema) /\ schema \in Seq(SchemaFields)
<1> DEFINE s == op.snapshot
           scan == [op |-> "scan", snapshot |-> s]
           schema == Catalog[s]
           unique == Unique([i \in DOMAIN Catalog[s] |-> Catalog[s][i].name])
<1>1. NodeSchema(op, << >>) = IF s \in DOMAIN Catalog
                              THEN IF unique THEN [ok |-> TRUE, schema |-> schema] ELSE Refused
                              ELSE Refused
  BY DEF NodeSchema, SchemaIf
<1>2. NodeSchema(scan, << >>) = IF s \in DOMAIN Catalog
                                THEN IF unique THEN [ok |-> TRUE, schema |-> schema]
                                     ELSE Refused
                                ELSE Refused
  <2>1. scan.op = "scan" /\ scan.snapshot = s  OBVIOUS
  <2> HIDE DEF scan
  <2> QED BY <2>1 DEF NodeSchema, SchemaIf
<1> HIDE DEF unique, schema, scan
<1>3. s \in DOMAIN Catalog /\ unique  BY <1>1, RefusedType
<1>4. NodeSchema(op, << >>).schema = schema /\ NodeSchema(scan, << >>).ok
  BY <1>1, <1>2, <1>3
<1>5. RunOp(op, input) = Columns(Snapshots[s])  BY DEF RunOp
<1> HIDE DEF s
<1>6. /\ IsList(Snapshots[s]) /\ MatchesSchema(schema, Snapshots[s])
      /\ LenOf(Snapshots[s]) \in 0 .. Half - 1
      /\ \A k \in DOMAIN Snapshots[s] : IsColumnOf(Snapshots[s][k], LenOf(Snapshots[s]))
      /\ schema \in Seq(SchemaFields)
  BY <1>3, <1>4, SnapshotsAssumption DEF schema, scan
<1>7. GoodColumns(schema, Snapshots[s])  BY <1>6 DEF GoodColumns
<1> QED BY <1>4, <1>5, <1>6, <1>7, MadeColumns

\* A step that was validated makes its schema's columns, if what it reads is a
\* table of its schema.
LEMMA StepRuns ==
    ASSUME NEW op, IsOp(op), Reads(op), NEW t, GoodTable(t), NodeSchema(op, t.schema).ok
    PROVE  LET schema == NodeSchema(op, t.schema).schema
           IN  RunsTo(RunOp(op, t), schema) /\ schema \in Seq(SchemaFields)
<1>0. t.schema \in Seq(SchemaFields)  BY DEF GoodTable
<1>1. CASE op.op = "filter"
  <2>1. op.predicate \in Exprs  BY <1>1 DEF IsOp
  <2> QED BY <1>0, <1>1, <2>1, FilterRuns
<1>2. CASE op.op = "map"
  <2>1. op.expr \in Exprs /\ op.name \in STRING  BY <1>2 DEF IsOp
  <2> QED BY <1>2, <2>1, MapRuns
<1>3. CASE op.op = "project"
  <2>1. op.columns \in Seq(STRING)  BY <1>3 DEF IsOp
  <2> QED BY <1>3, <2>1, ProjectRuns
<1>4. CASE op.op = "aggregate"
  <2>1. op.group_by \in Seq(STRING) /\ op.aggregates \in Seq(Aggregates)
    BY <1>4 DEF IsOp
  <2> QED BY <1>4, <2>1, AggregateRuns
<1>5. CASE op.op = "sort"
  <2>1. op.keys \in Seq([column : STRING, descending : BOOLEAN])  BY <1>5 DEF IsOp
  <2> QED BY <1>0, <1>5, <2>1, SortRuns
<1>6. CASE op.op = "limit"
  <2>1. op.count \in Nat  BY <1>6 DEF IsOp
  <2> QED BY <1>0, <1>6, <2>1, LimitRuns
<1>7. op.op \in {"filter", "map", "project", "aggregate", "sort", "limit"}
  BY DEF IsOp, Reads
<1> QED BY <1>1, <1>2, <1>3, <1>4, <1>5, <1>6, <1>7

----------------------------------------------------------------------------
(* Plans that run.                                                         *)

NumTables == Cardinality(DOMAIN tables)

\* The steps that have run have each made the table of their schema.
Ran ==
    /\ NumTables \in Nat /\ DOMAIN tables = 0 .. NumTables - 1
    /\ status \notin LetThrough => NumTables = 0
    /\ status = "running" => NumTables < NumSteps
    /\ status = "done" => NumTables = NumSteps
    /\ \A j \in 0 .. NumTables - 1 : GoodTable(tables[j]) /\ tables[j].schema = schemas[j]

Validated ==
    status \in LetThrough =>
        /\ IsValid(output)
        /\ schemas = [i \in DOMAIN plan |-> SchemasOf(plan)[i].schema]

PlanInv ==
    /\ ShapeInv
    /\ \A i \in DOMAIN plan : plan[i] \in Ops
    /\ failure \in {"none", "overflow"}
    /\ Validated
    /\ Ran

\* Writing a step keeps the invariant.
LEMMA AddStepRuns ==
    ASSUME PlanInv, NEW op \in Ops, AddStep(op)
    PROVE  PlanInv'
<1>1. ShapeInv'
  <2>1. plan' = Extended(plan, op) /\ status' = "writing"  BY DEF AddStep
  <2>2. DOMAIN plan' = 0 .. (NumSteps + 1) - 1  BY <2>1, ExtendedBy DEF PlanInv, ShapeInv
  <2>3. NumSteps' = NumSteps + 1  BY <2>2, CountBelow DEF NumSteps, PlanInv, ShapeInv
  <2>4. NumSteps' <= MaxSteps
    BY <2>3, PlanRunAssumption DEF AddStep, PlanInv, ShapeInv
  <2> QED BY <2>1, <2>2, <2>3, <2>4 DEF PlanInv, ShapeInv, LetThrough
<1>2. \A i \in DOMAIN plan' : plan'[i] \in Ops
  <2> DEFINE n == NumSteps
  <2>1. n \in Nat /\ DOMAIN plan = 0 .. n - 1  BY DEF PlanInv, ShapeInv
  <2> HIDE DEF n
  <2>2. /\ DOMAIN plan' = 0 .. (n + 1) - 1 /\ plan'[n] = op
        /\ \A i \in 0 .. n - 1 : plan'[i] = plan[i]
    BY <2>1, ExtendedBy DEF AddStep
  <2>3. \A i \in 0 .. n - 1 : plan[i] \in Ops  BY <2>1 DEF PlanInv
  <2> QED BY <2>1, <2>2, <2>3
<1>3. status = "writing" /\ status' = "writing" /\ tables' = tables /\ failure' = failure
  BY DEF AddStep
<1>4. NumTables' = NumTables /\ NumTables = 0
  BY <1>3 DEF NumTables, PlanInv, Ran, LetThrough
<1>5. Ran'  BY <1>3, <1>4 DEF PlanInv, Ran, LetThrough
<1> QED BY <1>1, <1>2, <1>3, <1>5 DEF PlanInv, Validated, LetThrough

\* Validating a plan establishes what its run depends on.
LEMMA ValidateRuns ==
    ASSUME PlanInv, NEW out, Validate(out)
    PROVE  PlanInv'
<1>1. /\ plan' = plan /\ tables' = tables /\ failure' = failure /\ status = "writing"
      /\ output' = out
      /\ status' \in {"running", "refused"}
  BY DEF Validate
<1>2. status' = "running" =>
         /\ IsValid(out)
         /\ schemas' = [i \in DOMAIN plan |-> SchemasOf(plan)[i].schema]
  BY DEF Validate
<1>3. NumSteps' = NumSteps /\ NumTables' = NumTables /\ NumTables = 0
  BY <1>1 DEF NumSteps, NumTables, PlanInv, Ran, LetThrough
<1>4. IsValid(output)' <=> IsValid(out)  BY <1>1, <1>3 DEF IsValid
<1>5. status' \in LetThrough => status' = "running"  BY <1>1 DEF LetThrough
<1>6. Validated'  BY <1>1, <1>2, <1>4, <1>5 DEF Validated
<1>7. ShapeInv'
  BY <1>1, <1>2, <1>3, <1>5 DEF PlanInv, ShapeInv, IsValid
<1>8. Ran'
  <2>1. status' = "running" => NumSteps > 0  BY <1>2 DEF IsValid, WellShaped
  <2>2. status' # "done"  BY <1>1
  <2>3. DOMAIN tables = 0 .. NumTables - 1  BY DEF PlanInv, Ran
  <2> QED BY <1>1, <1>3, <2>1, <2>2, <2>3 DEF Ran
<1> QED BY <1>1, <1>6, <1>7, <1>8 DEF PlanInv

\* Step i of a plan that is running: what it reads is there and it runs.
LEMMA NextRuns ==
    ASSUME PlanInv, status = "running"
    PROVE  LET i == NumTables
               input == IF Reads(plan[i]) THEN tables[plan[i].input] ELSE NoStep
           IN  /\ RunsTo(RunOp(plan[i], input), schemas[i])
               /\ schemas[i] \in Seq(SchemaFields)
<1> DEFINE i == NumTables
           n == NumSteps
           op == plan[i]
           p == SchemasOf(plan)
           input == IF Reads(plan[i]) THEN tables[plan[i].input] ELSE NoStep
<1>1. /\ n \in Nat /\ DOMAIN plan = 0 .. n - 1 /\ i \in Nat /\ i < n
      /\ DOMAIN tables = 0 .. i - 1
      /\ IsValid(output) /\ schemas = [k \in DOMAIN plan |-> p[k].schema]
      /\ \A j \in 0 .. i - 1 : GoodTable(tables[j]) /\ tables[j].schema = schemas[j]
      /\ \A k \in DOMAIN plan : plan[k] \in Ops
  BY DEF PlanInv, ShapeInv, Validated, Ran, LetThrough
<1>2. i \in 0 .. n - 1  BY <1>1
<1>3. InOrder(plan) /\ \A k \in DOMAIN plan : p[k].ok  BY <1>1 DEF IsValid, WellShaped
<1>4. IsOp(op)  BY <1>1, <1>2, PlanRunAssumption
<1> HIDE DEF i, n
<1>5. p[i] = SchemaStep(plan, i, p)
  <2> DEFINE at(k) == SchemaStep(plan, k, p)
  <2>1. p = [k \in DOMAIN plan |-> at(k)]  BY <1>1, <1>3, SchemasAre
  <2> HIDE DEF at, p
  <2>2. p[i] = at(i)  BY <1>1, <1>2, <2>1
  <2> QED BY <2>2 DEF at
<1> HIDE DEF p
<1>6. p[i].ok /\ schemas[i] = p[i].schema  BY <1>1, <1>2, <1>3
<1>7. CASE ~ Reads(op)
  <2>1. p[i] = NodeSchema(op, << >>) /\ op.op = "scan"  BY <1>5, <1>7 DEF SchemaStep, Reads
  <2> HIDE DEF op
  <2>2. RunsTo(RunOp(op, input), p[i].schema) /\ p[i].schema \in Seq(SchemaFields)
    BY <1>6, <2>1, ScanRuns
  <2> QED BY <1>6, <2>2 DEF op, i
<1>8. CASE Reads(op)
  <2> DEFINE j == op.input
             t == tables[j]
  <2>1. j \in 0 .. i - 1 /\ j \in DOMAIN plan  BY <1>1, <1>2, <1>3, <1>8 DEF InOrder
  <2>2. p[j].ok /\ schemas[j] = p[j].schema  BY <1>1, <1>3, <2>1
  <2>3. p[i] = NodeSchema(op, schemas[j])  BY <1>5, <1>8, <2>2 DEF SchemaStep
  <2>4. GoodTable(t) /\ t.schema = schemas[j]  BY <1>1, <2>1
  <2>5. input = t  BY <1>8
  <2> HIDE DEF op, j, t, input
  <2>6. RunsTo(RunOp(op, t), p[i].schema) /\ p[i].schema \in Seq(SchemaFields)
    BY <1>4, <1>6, <1>8, <2>3, <2>4, StepRuns
  <2> QED BY <1>6, <2>5, <2>6 DEF op, i, input
<1> QED BY <1>7, <1>8

\* Running a step keeps the invariant: its table is as its schema says.
LEMMA RunStepRuns ==
    ASSUME PlanInv, RunStep
    PROVE  PlanInv'
<1> DEFINE i == NumTables
           n == NumSteps
           input == IF Reads(plan[i]) THEN tables[plan[i].input] ELSE NoStep
           made == RunOp(plan[i], input)
           t == [schema |-> schemas[i], columns |-> made.columns, len |-> LenOf(made.columns)]
<1>1. status = "running" /\ Finish(i, made)  BY DEF RunStep, NumTables
<1>2. RunsTo(made, schemas[i]) /\ schemas[i] \in Seq(SchemaFields)  BY <1>1, NextRuns
<1>3. plan' = plan /\ output' = output /\ schemas' = schemas
  BY <1>1 DEF Finish, Fail
<1>4. status \in LetThrough  BY <1>1 DEF LetThrough
<1>5. NumSteps' = NumSteps /\ (IsValid(output)' <=> IsValid(output))
  BY <1>3 DEF NumSteps, IsValid
<1>6. ShapeInv' /\ Validated'
  BY <1>3, <1>4, <1>5 DEF PlanInv, ShapeInv, Validated
<1>7. CASE made = Stopped("overflow")
  <2>1. made.why = "overflow"  BY <1>7 DEF Stopped
  <2> HIDE DEF made
  <2>2. status' = "failed" /\ failure' = "overflow" /\ tables' = tables
    BY <1>1, <2>1 DEF Finish, Fail
  <2>3. NumTables' = NumTables  BY <2>2 DEF NumTables
  <2>4. Ran'  BY <1>3, <2>2, <2>3 DEF PlanInv, Ran, LetThrough
  <2> QED BY <1>3, <1>6, <2>2, <2>4 DEF PlanInv
<1>8. CASE made.why = "none" /\ GoodColumns(schemas[i], made.columns)
  <2>1. MatchesSchema(schemas[i], made.columns)  BY <1>8 DEF GoodColumns
  <2>2. GoodTable(t)  BY <1>2, <1>8 DEF GoodTable
  <2>3. t.schema = schemas[i]  OBVIOUS
  <2>4. /\ tables' = Extended(tables, t) /\ failure' = failure
        /\ status' = IF i + 1 = NumSteps THEN "done" ELSE "running"
    BY <1>1, <1>8, <2>1 DEF Finish
  <2> HIDE DEF made, t
  <2>5. /\ i \in Nat /\ n \in Nat /\ i < n /\ DOMAIN tables = 0 .. i - 1
        /\ \A j \in 0 .. i - 1 : GoodTable(tables[j]) /\ tables[j].schema = schemas[j]
    BY <1>1 DEF PlanInv, Ran, ShapeInv
  <2>6. /\ DOMAIN tables' = 0 .. (i + 1) - 1 /\ tables'[i] = t
        /\ \A j \in 0 .. i - 1 : tables'[j] = tables[j]
    <3> HIDE DEF i
    <3>1. DOMAIN Extended(tables, t) = 0 .. (i + 1) - 1  BY <2>5, ExtendedBy
    <3>2. Extended(tables, t)[i] = t  BY <2>5, ExtendedBy
    <3>3. \A j \in 0 .. i - 1 : Extended(tables, t)[j] = tables[j]
      BY <2>5, ExtendedBy
    <3> QED BY <2>4, <3>1, <3>2, <3>3
  <2>7. NumTables' = i + 1  BY <2>5, <2>6, CountBelow DEF NumTables
  <2>8. \A j \in 0 .. (i + 1) - 1 : GoodTable(tables'[j]) /\ tables'[j].schema = schemas'[j]
    <3> HIDE DEF i
    <3> QED BY <1>3, <2>2, <2>3, <2>5, <2>6
  <2>9. status' \in LetThrough /\ (status' = "running" => i + 1 < n)
        /\ (status' = "done" => i + 1 = n)
    BY <2>4, <2>5 DEF LetThrough
  <2>10. Ran'
    <3> HIDE DEF i
    <3> QED BY <1>5, <2>5, <2>6, <2>7, <2>8, <2>9 DEF Ran
  <2> QED BY <1>3, <1>6, <2>4, <2>10 DEF PlanInv
<1> QED BY <1>2, <1>7, <1>8 DEF RunsTo

\* Every step of a plan's life keeps the invariant.
LEMMA PlanKept ==
    ASSUME PlanInv, [PlanNext]_vars
    PROVE  PlanInv'
<1>1. CASE \E op \in Steps(NumSteps, LastStep) : AddStep(op)
  <2>1. PICK op \in Steps(NumSteps, LastStep) : AddStep(op)  BY <1>1
  <2>2. op \in Ops
    <3>1. NumSteps \in 0 .. MaxSteps - 1
      BY <2>1, PlanRunAssumption DEF AddStep, PlanInv, ShapeInv
    <3>2. LastStep \in Ops \cup {NoStep}
      <4>1. CASE NumSteps = 0  BY <4>1 DEF LastStep
      <4>2. CASE NumSteps # 0
        <5>1. NumSteps - 1 \in DOMAIN plan  BY <4>2 DEF PlanInv, ShapeInv
        <5> QED BY <4>2, <5>1 DEF LastStep, PlanInv
      <4> QED BY <4>1, <4>2
    <3> QED BY <2>1, <3>1, <3>2, PlanRunAssumption
  <2> QED BY <2>1, <2>2, AddStepRuns
<1>2. CASE \E out \in 0 .. MaxSteps : Validate(out)  BY <1>2, ValidateRuns
<1>3. CASE RunStep  BY <1>3, RunStepRuns
<1>4. CASE UNCHANGED vars
  <2>1. NumSteps' = NumSteps /\ NumTables' = NumTables
    BY <1>4 DEF vars, NumSteps, NumTables
  <2>2. IsValid(output)' <=> IsValid(output)  BY <1>4, <2>1 DEF vars, IsValid
  <2> QED BY <1>4, <2>1, <2>2 DEF vars, PlanInv, ShapeInv, Validated, Ran
<1> QED BY <1>1, <1>2, <1>3, <1>4 DEF PlanNext

\* The invariant holds of every plan.
LEMMA PlanHolds == PlanSpec => []PlanInv
<1>1. PlanInit => PlanInv
  <2> SUFFICES ASSUME PlanInit PROVE PlanInv  OBVIOUS
  <2>1. DOMAIN plan = 0 .. 0 - 1 /\ DOMAIN tables = 0 .. 0 - 1  BY DEF PlanInit
  <2>2. NumSteps = 0 /\ NumTables = 0  BY <2>1, CountBelow DEF NumSteps, NumTables
  <2> QED BY <2>1, <2>2, PlanRunAssumption
           DEF PlanInit, PlanInv, ShapeInv, Validated, Ran, LetThrough
<1> QED BY <1>1, PlanKept, PTL DEF PlanSpec

\* The output of a plan that is done is a good table.
LEMMA OutputsGood ==
    ASSUME PlanInv, NEW t \in Outputs
    PROVE  GoodTable(t)
<1>1. status = "done" /\ t = tables[output]  BY DEF Outputs
<1>2. output \in 0 .. NumSteps - 1
  BY <1>1 DEF PlanInv, ShapeInv, WellShaped, LetThrough
<1> QED BY <1>1, <1>2 DEF PlanInv, Ran

\* A column's codes have their text, and its decimals are numbers.
LEMMA ColumnsSound ==
    ASSUME NEW n \in Nat, NEW col, IsColumnOf(col, n)
    PROVE  Sound(col)
<1> SUFFICES ASSUME NEW i \in Present(col)
             PROVE  CASE col.ty = "DictUtf8" ->
                            /\ col.cells[i] \in 0 .. Len(col.dictionary) - 1
                            /\ \A k \in 1 .. Len(col.dictionary) - 1 :
                                  col.dictionary[k] < col.dictionary[k + 1]
                      [] col.ty = "Geo" -> \A k \in {1, 2} : col.cells[i][k] \in Finite
                      [] OTHER -> col.cells[i] \in CellValues(col.ty)
  BY DEF Sound
<1>1. col.cells[i] \in CellsOf(col)
  BY DEF IsColumnOf, Present, IsPresent
<1>2. CASE col.ty = "DictUtf8"
  <2>1. col.cells[i] \in 0 .. Len(col.dictionary) - 1  BY <1>1, <1>2 DEF CellsOf
  <2>2. \A k \in 1 .. Len(col.dictionary) - 1 : col.dictionary[k] < col.dictionary[k + 1]
    <3>1. col.dictionary \in Seq(Int)
          /\ \A k, m \in DOMAIN col.dictionary :
                k < m => col.dictionary[k] < col.dictionary[m]
      BY DEF IsColumnOf
    <3> QED BY <3>1
  <2> QED BY <1>2, <2>1, <2>2
<1>3. CASE col.ty = "Geo"
  <2>1. col.cells[i] \in Finite \X Finite  BY <1>1, <1>3 DEF CellsOf
  <2> QED BY <1>3, <2>1
<1>4. CASE col.ty \notin {"DictUtf8", "Geo"}  BY <1>1, <1>4 DEF CellsOf
<1> QED BY <1>2, <1>3, <1>4

\* What was validated runs, and its columns are sound: neither a plan that is
\* let through nor the data of a snapshot meets an expect of the executor.
THEOREM ValidPlansComplete == PlanSpec => []ValidPlansRun
<1>1. PlanInv => ValidPlansRun
  <2> SUFFICES ASSUME PlanInv PROVE ValidPlansRun  OBVIOUS
  <2>1. failure \in {"none", "overflow"}  BY DEF PlanInv
  <2>2. ASSUME NEW t \in Outputs, NEW k \in DOMAIN t.columns PROVE Sound(t.columns[k])
    <3>1. GoodTable(t)  BY OutputsGood
    <3>2. IsColumnOf(t.columns[k], t.len) /\ t.len \in Nat  BY <3>1, ColumnsOfTable, TableLen
    <3> QED BY <3>2, ColumnsSound
  <2> QED BY <2>1, <2>2 DEF ValidPlansRun
<1> QED BY <1>1, PlanHolds, PTL

\* Whatever a plan computes is sorted by words as it is by values.
THEOREM OutputsSortLikeValues == PlanSpec => []EncodedSortAgrees
<1>1. PlanInv => EncodedSortAgrees
  <2> SUFFICES ASSUME PlanInv, NEW t \in Outputs, NEW cols \in ColumnLists(t),
                      NEW keys \in Directed(cols)
               PROVE  SortPermutation(t.len, keys)
                        = Ranked(RowsOf(t), LAMBDA a, b : ComparedBefore(keys, a, b))
    BY DEF EncodedSortAgrees
  <2>1. GoodTable(t)  BY OutputsGood
  <2>2. SortPermutation(t.len, keys) = RankedRows(keys, RowsOf(t))
    BY <2>1, TableSorts
  <2> QED BY <2>2 DEF Ranked, RankedRows
<1> QED BY <1>1, PlanHolds, PTL

\* Whatever a plan computes is grouped by the keys' values, in their order.
THEOREM OutputsGroupByKeys == PlanSpec => []GroupsAreKeys
<1>1. PlanInv => GroupsAreKeys
  BY OutputsGood, TableGroups DEF GroupsAreKeys
<1> QED BY <1>1, PlanHolds, PTL

----------------------------------------------------------------------------
(* What comparisons mean.                                                  *)

\* A code is to a string as the code's own string is, whether or not the
\* dictionary has that string.
LEMMA CodeInOrder ==
    ASSUME NEW dict \in Seq(Int), \A k, m \in DOMAIN dict : k < m => dict[k] < dict[m],
           NEW code \in 0 .. Len(dict) - 1, NEW s \in Int
    PROVE  CodeToText(dict, code, s) = OrderOf(dict[code + 1], s)
<1> DEFINE n == Len(dict)
           B == {k \in 1 .. n : dict[k] < s}
           pos == Cardinality(B)
<1>1. n \in Nat /\ DOMAIN dict = 1 .. n /\ \A k \in 1 .. n : dict[k] \in Int  OBVIOUS
<1>2. PositionOf(dict, s) = pos  BY <1>1 DEF PositionOf
<1>3. \A k, m \in 1 .. n : k < m => dict[k] < dict[m]  BY <1>1
<1>4. pos \in 0 .. n /\ B = 1 .. pos
  <2> DEFINE N == {k \in 0 .. n : \A m \in 1 .. k : dict[m] < s}
  <2>1. 0 \in N  BY <1>1
  <2>2. N # {} /\ N \subseteq 0 .. n /\ n \in Nat  BY <1>1, <2>1
  <2>3. PICK g \in N : \A k \in N : k <= g
    <3> HIDE DEF N, n
    <3>1. N \in SUBSET Nat  BY <2>2
    <3>2. IsFiniteSet(0 .. n)  BY <2>2, FS_Interval
    <3>3. IsFiniteSet(N)  BY <2>2, <3>2, FS_Subset
    <3> QED BY <2>2, <3>1, <3>3, GreatestElement
  <2>4. g \in 0 .. n /\ \A m \in 1 .. g : dict[m] < s  OBVIOUS
  <2>5. B = 1 .. g
    <3>1. ASSUME NEW k \in B PROVE k <= g
      <4>1. \A m \in 1 .. k : dict[m] < s
        <5> TAKE m \in 1 .. k
        <5>1. m \in 1 .. n /\ (m = k \/ m < k)  BY <1>1
        <5>2. dict[m] \in Int /\ dict[k] \in Int /\ dict[k] < s  BY <1>1, <5>1
        <5> QED BY <1>3, <5>1, <5>2
      <4>2. k \in N  BY <1>1, <4>1
      <4> QED BY <2>3, <4>2
    <3> QED BY <1>1, <2>4, <3>1
  <2>6. Cardinality(1 .. g) = g  BY <2>4, FS_Interval, <1>1
  <2> QED BY <2>4, <2>5, <2>6
<1>5. code + 1 \in 1 .. n /\ code \in Int  BY <1>1
<1> DEFINE v == dict[code + 1]
           found == pos < n /\ dict[pos + 1] = s
<1>6. CodeToText(dict, code, s)
        = IF code < pos THEN -1 ELSE IF code = pos /\ found THEN 0 ELSE 1
  BY <1>2 DEF CodeToText
<1>7. code < pos <=> v < s
  <2>1. code + 1 \in B <=> v < s  BY <1>5
  <2> HIDE DEF B
  <2> QED BY <1>4, <1>5, <2>1
<1>8. (code = pos /\ found) <=> v = s
  <2>1. ASSUME v = s PROVE code = pos
    <3>1. ~ (code < pos)  BY <1>1, <1>5, <1>7, <2>1
    <3>2. ASSUME pos < code PROVE FALSE
      <4>1. pos + 1 \in 1 .. n /\ pos + 1 < code + 1  BY <1>4, <1>5, <3>2
      <4>2. dict[pos + 1] < s
        <5> HIDE DEF pos, n
        <5> QED BY <1>3, <1>5, <2>1, <4>1
      <4>3. pos + 1 \in B  BY <4>1, <4>2
      <4> HIDE DEF B
      <4> QED BY <1>4, <4>3
    <3> HIDE DEF pos
    <3> QED BY <1>4, <1>5, <3>1, <3>2
  <2>2. n \in Nat  BY <1>1
  <2> HIDE DEF pos, n
  <2> QED BY <1>5, <2>1, <2>2
<1> HIDE DEF pos, found, v
<1> QED BY <1>6, <1>7, <1>8 DEF OrderOf, v

\* An integer is to a decimal as its double is to the decimal's halves.
LEMMA IntegerToDecimalExact ==
    ASSUME NEW x \in I64, NEW bits \in Finite
    PROVE  IntegerToDecimal(x, bits) = OrderOf(2 * x, Halves(bits))
<1> DEFINE y == Halves(bits)
           whole == IF y < 0 THEN - ((- y) \div 2) ELSE y \div 2
<1>1. y \in Int  BY FiniteHalves
<1>2. IntegerToDecimal(x, bits) =
        IF y >= 2 * Half THEN -1
        ELSE IF y < -2 * Half THEN 1
        ELSE IF x # whole THEN OrderOf(x, whole)
        ELSE OrderOf(0, y - 2 * whole)
  BY DEF IntegerToDecimal
<1> HIDE DEF y
<1>3. x \in Int /\ Half \in Int /\ - Half <= x /\ x < Half  BY WordAssumption DEF I64
<1>4. /\ whole \in Int
      /\ y >= 0 => 2 * whole <= y /\ y <= 2 * whole + 1
      /\ y < 0 => 2 * whole - 1 <= y /\ y <= 2 * whole
  BY <1>1
<1> HIDE DEF whole
<1>5. CASE y >= 2 * Half  BY <1>1, <1>2, <1>3, <1>5 DEF OrderOf, y
<1>6. CASE y < -2 * Half  BY <1>1, <1>2, <1>3, <1>6 DEF OrderOf, y
<1>7. CASE ~ (y >= 2 * Half) /\ ~ (y < -2 * Half) /\ x # whole
  <2>1. IntegerToDecimal(x, bits) = OrderOf(x, whole)  BY <1>2, <1>7
  <2>2. x < whole <=> 2 * x < y  BY <1>1, <1>3, <1>4, <1>7
  <2>3. 2 * x # y  BY <1>1, <1>3, <1>4, <1>7
  <2> QED BY <1>7, <2>1, <2>2, <2>3 DEF OrderOf, y
<1>8. CASE ~ (y >= 2 * Half) /\ ~ (y < -2 * Half) /\ x = whole
  <2>1. IntegerToDecimal(x, bits) = OrderOf(0, y - 2 * x)  BY <1>2, <1>8
  <2>2. (0 < y - 2 * x <=> 2 * x < y) /\ (0 = y - 2 * x <=> 2 * x = y)  BY <1>1, <1>3
  <2> QED BY <2>1, <2>2 DEF OrderOf, y
<1> QED BY <1>5, <1>6, <1>7, <1>8

\* Numbers are compared exactly, whatever their types.
LEMMA CompareNumbersExact ==
    ASSUME NEW ta \in {"I64", "F64"}, NEW tb \in {"I64", "F64"},
           NEW x \in CellValues(ta), NEW y \in CellValues(tb)
    PROVE  CompareNumbers(ta, x, tb, y) = OrderOf(Comparand(ta, x), Comparand(tb, y))
<1>1. CellValues("I64") = I64 /\ CellValues("F64") = Finite  BY DEF CellValues
<1>2. I64 \subseteq Int  BY NumberFacts DEF I64
<1>3. CASE ta = "I64" /\ tb = "I64"
  <2>1. x \in Int /\ y \in Int  BY <1>1, <1>2, <1>3
  <2>2. (x < y <=> 2 * x < 2 * y) /\ (x = y <=> 2 * x = 2 * y)  BY <2>1
  <2> QED BY <1>3, <2>2 DEF CompareNumbers, Comparand, OrderOf
<1>4. CASE ta = "F64" /\ tb = "F64"
  <2>1. x \in Finite /\ y \in Finite  BY <1>1, <1>4
  <2>2. /\ Signed(x) < Signed(y) <=> Halves(x) < Halves(y)
        /\ Signed(x) = Signed(y) <=> Halves(x) = Halves(y)
    BY <2>1, SignedInOrder
  <2> QED BY <1>4, <2>2 DEF CompareNumbers, Comparand, OrderOf
<1>5. CASE ta = "I64" /\ tb = "F64"
  <2>1. x \in I64 /\ y \in Finite  BY <1>1, <1>5
  <2>2. IntegerToDecimal(x, y) = OrderOf(2 * x, Halves(y))  BY <2>1, IntegerToDecimalExact
  <2> QED BY <1>5, <2>2 DEF CompareNumbers, Comparand
<1>6. CASE ta = "F64" /\ tb = "I64"
  <2>1. x \in Finite /\ y \in I64  BY <1>1, <1>6
  <2>2. IntegerToDecimal(y, x) = OrderOf(2 * y, Halves(x))  BY <2>1, IntegerToDecimalExact
  <2>3. Halves(x) \in Int /\ 2 * y \in Int  BY <1>2, <2>1, FiniteHalves
  <2>4. - OrderOf(2 * y, Halves(x)) = OrderOf(Halves(x), 2 * y)
    BY <2>3 DEF OrderOf
  <2>5. CompareNumbers(ta, x, tb, y) = - IntegerToDecimal(y, x)
    BY <1>6 DEF CompareNumbers
  <2>6. Comparand(ta, x) = Halves(x) /\ Comparand(tb, y) = 2 * y  BY <1>6 DEF Comparand
  <2> QED BY <2>2, <2>4, <2>5, <2>6
<1> QED BY <1>3, <1>4, <1>5, <1>6

\* What a column of text holds in a row is the string of its code.
LEMMA TextIn ==
    ASSUME NEW n \in Nat, NEW ta, ta.ty = "DictUtf8", NEW a, Fits(a, n, ta),
           ~ Stops(a), a.d = "col", NEW i \in 0 .. n - 1, Get(a, i) # Missing,
           NEW s \in Int
    PROVE  CodeToText(a.col.dictionary, a.col.cells[i], s) = OrderOf(Get(a, i), s)
<1> DEFINE dict == a.col.dictionary
           code == a.col.cells[i]
<1>1. IsColumnOf(a.col, n) /\ a.col.ty = "DictUtf8"
  BY DEF Fits, Scalar, Overflow
<1>2. dict \in Seq(Int) /\ \A k, m \in DOMAIN dict : k < m => dict[k] < dict[m]
  BY <1>1 DEF IsColumnOf
<1>3. code \in 0 .. Len(dict) - 1 \/ code = Missing
  BY <1>1 DEF IsColumnOf, CellsOf
<1>4. code # Missing /\ Get(a, i) = dict[code + 1]  BY <1>1 DEF Get
<1> HIDE DEF dict, code
<1>5. CodeToText(dict, code, s) = OrderOf(dict[code + 1], s)
  BY <1>2, <1>3, <1>4, CodeInOrder
<1> QED BY <1>4, <1>5 DEF dict, code

\* Values of comparable types are compared as their comparands are.
Exact(a, ta, b, tb, i) ==
    LET u == Comparand(ta.ty, Get(a, i))
        w == Comparand(tb.ty, Get(b, i))
    IN  /\ u \in Int /\ w \in Int
        /\ OrderAt(a, ta.ty, b, tb.ty, i) = OrderOf(u, w)

\* Two values that are present are put in the order of their exact values,
\* whatever their types: codes against text, integers against decimals.
LEMMA OrderAtExact ==
    ASSUME NEW n \in Nat, NEW ta, ta.ty \in AnyType, NEW tb, tb.ty \in AnyType,
           Comparable(ta.ty, tb.ty),
           NEW a, Fits(a, n, ta), ~ Stops(a), NEW b, Fits(b, n, tb), ~ Stops(b),
           NEW i \in 0 .. n - 1, Get(a, i) # Missing, Get(b, i) # Missing
    PROVE  Exact(a, ta, b, tb, i)
<1> DEFINE x == Get(a, i)
           y == Get(b, i)
           u == Comparand(ta.ty, x)
           w == Comparand(tb.ty, y)
           ord == OrderAt(a, ta.ty, b, tb.ty, i)
<1>1. TypeOfDatum(a) = ta.ty /\ TypeOfDatum(b) = tb.ty
      /\ a.d \in {"col", "scalar"} /\ b.d \in {"col", "scalar"}
  BY FitsGet
<1>2. x \in ValuesOfType(ta.ty)  BY FitsGet
<1>3. y \in ValuesOfType(tb.ty)  BY FitsGet
<1>4. CASE ta.ty = "DictUtf8"
  <2>1. tb.ty = "DictUtf8"  BY <1>4 DEF Comparable, IsNumeric
  <2>2. x \in Int /\ y \in Int  BY <1>2, <1>3, <1>4, <2>1 DEF ValuesOfType
  <2>3. u = x /\ w = y  BY <1>4, <2>1 DEF Comparand
  <2>4. CASE a.d = "col" /\ b.d = "scalar"
    <3>1. ord = CodeToText(a.col.dictionary, a.col.cells[i], y)
      BY <1>4, <2>4 DEF OrderAt
    <3>2. CodeToText(a.col.dictionary, a.col.cells[i], y) = OrderOf(x, y)
      BY <1>4, <2>2, <2>4, TextIn
    <3> QED BY <2>2, <2>3, <3>1, <3>2 DEF Exact
  <2>5. CASE a.d = "scalar" /\ b.d = "col"
    <3>1. ord = - CodeToText(b.col.dictionary, b.col.cells[i], x)
      BY <1>4, <2>5 DEF OrderAt
    <3>2. CodeToText(b.col.dictionary, b.col.cells[i], x) = OrderOf(y, x)
      BY <2>1, <2>2, <2>5, TextIn
    <3>3. - OrderOf(y, x) = OrderOf(x, y)
      <4> HIDE DEF x, y
      <4> QED BY <2>2 DEF OrderOf
    <3> QED BY <2>2, <2>3, <3>1, <3>2, <3>3 DEF Exact
  <2>6. CASE a.d = b.d
    <3>1. ord = OrderOf(x, y)  BY <1>1, <1>4, <2>1, <2>6 DEF OrderAt
    <3> QED BY <2>2, <2>3, <3>1 DEF Exact
  <2> QED BY <1>1, <2>4, <2>5, <2>6
<1>5. CASE ta.ty # "DictUtf8" /\ "F64" \in {ta.ty, tb.ty}
  <2>1. ta.ty \in {"I64", "F64"} /\ tb.ty \in {"I64", "F64"}
    BY <1>5 DEF Comparable, IsNumeric
  <2>2. x \in CellValues(ta.ty) /\ y \in CellValues(tb.ty)
    BY <1>2, <1>3, <2>1 DEF ValuesOfType
  <2>3. ord = CompareNumbers(ta.ty, x, tb.ty, y)  BY <1>1, <1>5 DEF OrderAt
  <2>4. CompareNumbers(ta.ty, x, tb.ty, y) = OrderOf(u, w)
    <3> HIDE DEF x, y
    <3> QED BY <2>1, <2>2, CompareNumbersExact
  <2>5. u \in Int /\ w \in Int
    <3>1. \A ty \in {"I64", "F64"} : \A v \in CellValues(ty) : Comparand(ty, v) \in Int
      <4> TAKE ty \in {"I64", "F64"}
      <4> TAKE v \in CellValues(ty)
      <4>1. CASE ty = "I64"  BY <4>1, NumberFacts DEF CellValues, Comparand, I64
      <4>2. CASE ty = "F64"  BY <4>2, FiniteHalves DEF CellValues, Comparand
      <4> QED BY <4>1, <4>2
    <3> HIDE DEF x, y
    <3> QED BY <2>1, <2>2, <3>1
  <2> QED BY <2>3, <2>4, <2>5 DEF Exact
<1>6. CASE ta.ty # "DictUtf8" /\ "F64" \notin {ta.ty, tb.ty}
  <2>1. ord = OrderOf(x, y)  BY <1>6 DEF OrderAt
  <2>2. ta.ty = tb.ty /\ ta.ty \in {"I64", "Timestamp", "Bool"}
    BY <1>6 DEF Comparable, IsNumeric
  <2>3. x \in Int /\ y \in Int
    BY <1>2, <1>3, <2>2, TypesDiffer DEF SortableTypes
  <2>4. CASE ta.ty = "I64"
    <3>1. u = 2 * x /\ w = 2 * y  BY <2>2, <2>4 DEF Comparand
    <3>2. OrderOf(x, y) = OrderOf(2 * x, 2 * y)
      <4> HIDE DEF x, y
      <4>1. (x < y <=> 2 * x < 2 * y) /\ (x = y <=> 2 * x = 2 * y)  BY <2>3
      <4> QED BY <4>1 DEF OrderOf
    <3>3. 2 * x \in Int /\ 2 * y \in Int  BY <2>3
    <3> QED BY <2>1, <3>1, <3>2, <3>3 DEF Exact
  <2>5. CASE ta.ty # "I64"
    <3>1. u = x /\ w = y  BY <2>2, <2>5 DEF Comparand
    <3> QED BY <2>1, <2>3, <3>1 DEF Exact
  <2> QED BY <2>4, <2>5
<1> QED BY <1>4, <1>5, <1>6

\* An operator holds of an order exactly if it holds of what is in that order.
Holds(op, u, w) ==
    CASE op = "eq" -> u = w [] op = "ne" -> u # w [] op = "lt" -> u < w
      [] op = "le" -> u <= w [] op = "gt" -> u > w [] op = "ge" -> u >= w

Operators == {"eq", "ne", "lt", "le", "gt", "ge"}

\* An operator holds of an order as of the numbers ordered, and its flip of the
\* numbers swapped.
LEMMA OrderHolds ==
    ASSUME NEW op \in Operators, NEW u \in Int, NEW w \in Int
    PROVE  /\ OpHolds(op, OrderOf(u, w)) <=> Holds(op, u, w)
           /\ Holds(Flipped(op), w, u) <=> Holds(op, u, w)
           /\ Flipped(op) \in Operators
<1>1. CASE op = "eq"  BY <1>1 DEF OpHolds, OrderOf, Holds, Flipped, Operators
<1>2. CASE op = "ne"  BY <1>2 DEF OpHolds, OrderOf, Holds, Flipped, Operators
<1>3. CASE op = "lt"  BY <1>3 DEF OpHolds, OrderOf, Holds, Flipped, Operators
<1>4. CASE op = "le"  BY <1>4 DEF OpHolds, OrderOf, Holds, Flipped, Operators
<1>5. CASE op = "gt"  BY <1>5 DEF OpHolds, OrderOf, Holds, Flipped, Operators
<1>6. CASE op = "ge"  BY <1>6 DEF OpHolds, OrderOf, Holds, Flipped, Operators
<1> QED BY <1>1, <1>2, <1>3, <1>4, <1>5, <1>6 DEF Operators

\* What is known of an expression that has a type, and of what it is made of.
LEMMA Inside ==
    ASSUME NEW t, GoodTable(t), NEW e \in Exprs, TypeOf(e, t.schema).ok
    PROVE  /\ Parts(t, e, TypesIn(t.schema), DatumsIn(t))
           /\ TypeStep(e, t.schema, TypesIn(t.schema)).ok
           /\ TypeOf(e, t.schema) = TypeStep(e, t.schema, TypesIn(t.schema))
           /\ Eval(e, t) = EvalStep(e, t, DatumsIn(t))
           /\ t.len \in Nat
<1> DEFINE T == TypesIn(t.schema)
           D == DatumsIn(t)
<1>1. T[e] = TypeStep(e, t.schema, T)  BY TypesAre
<1>2. D[e] = EvalStep(e, t, D)  BY DatumsAre
<1>3. \A a \in Inner(e) : T[a].ok => Fits(D[a], t.len, T[a])
  <2> TAKE a \in Inner(e)
  <2> HAVE T[a].ok
  <2>1. a \in Exprs  BY InnerIsShallower
  <2>2. Fits(Eval(a, t), t.len, TypeOf(a, t.schema))  BY <2>1, EvalFits DEF TypeOf
  <2> QED BY <2>2 DEF Eval, TypeOf
<1>4. Parts(t, e, T, D)  BY <1>3 DEF Parts
<1> QED BY <1>1, <1>2, <1>4, TableLen DEF TypeOf, Eval

\* What an expression means is one step from what its parts mean.
LEMMA MeaningIs ==
    ASSUME NEW t, NEW e \in Exprs, NEW i
    PROVE  Meaning(e, t, i) = MeaningStep(e, t, i, Meanings(t, i))
<1> DEFINE at(x) == MeaningStep(x, t, i, Meanings(t, i))
           M == Meanings(t, i)
<1>1. M = [x \in Exprs |-> at(x)]  BY MeaningsAre
<1> HIDE DEF at, M
<1>2. M[e] = at(e)  BY <1>1
<1> QED BY <1>2 DEF Meaning, M, at

\* A datum holds in every row what the expression means there.
Says(d, e, t) == \A i \in 0 .. t.len - 1 : Get(d, i) = Meaning(e, t, i)

Agrees(e, t) == Stops(Eval(e, t)) \/ Says(Eval(e, t), e, t)

\* A column that was made holds its cells.
LEMMA GetMade ==
    ASSUME NEW d, d.d = "col", d.col.ty # "DictUtf8", NEW i
    PROVE  Get(d, i) = d.col.cells[i]
BY DEF Get

\* A column holds what it means.
LEMMA ColumnAgrees ==
    ASSUME NEW t, GoodTable(t), NEW e \in Exprs, TypeOf(e, t.schema).ok, e.x = "column"
    PROVE  Agrees(e, t)
<1> DEFINE d == [d |-> "col", col |-> ColumnOf(t, e.name)]
<1>1. TypeStep(e, t.schema, TypesIn(t.schema)).ok  BY Inside
<1>2. e.name \in FieldNames(t.schema)  BY <1>1, RefusedType DEF TypeStep
<1>3. EvalStep(e, t, DatumsIn(t)) = d  BY <1>2 DEF EvalStep, HasColumn
<1>4. Eval(e, t) = d  BY <1>3, Inside
<1>5. \A i : Meaning(e, t, i) = Get(d, i)
  <2> TAKE i
  <2>1. MeaningStep(e, t, i, Meanings(t, i)) = Get(d, i)  BY DEF MeaningStep
  <2> QED BY <2>1, MeaningIs
<1> HIDE DEF d
<1> QED BY <1>4, <1>5 DEF Agrees, Says

\* A literal is what it means.
LEMMA LiteralAgrees ==
    ASSUME NEW t, GoodTable(t), NEW e \in Exprs, TypeOf(e, t.schema).ok, e.x = "literal"
    PROVE  Agrees(e, t)
<1>1. EvalStep(e, t, DatumsIn(t)) = Scalar(e.lit)  BY DEF EvalStep
<1>2. Eval(e, t) = Scalar(e.lit)  BY <1>1, Inside
<1>3. \A i : Meaning(e, t, i) = Get(Scalar(e.lit), i)
  <2> TAKE i
  <2>1. MeaningStep(e, t, i, Meanings(t, i)) = Get(Scalar(e.lit), i)
    BY DEF MeaningStep, Get, Scalar
  <2> QED BY <2>1, MeaningIs
<1> QED BY <1>2, <1>3 DEF Agrees, Says

\* The two operands of an expression whose evaluation did not stop.
LEMMA PairAgrees ==
    ASSUME NEW t, GoodTable(t), NEW e \in Exprs, TypeOf(e, t.schema).ok,
           e.x \in {"compare", "arith"}, Agrees(e.a, t), Agrees(e.b, t),
           ~ Stops(Eval(e, t))
    PROVE  LET ta == TypeOf(e.a, t.schema)
               tb == TypeOf(e.b, t.schema)
               a == Eval(e.a, t)
               b == Eval(e.b, t)
           IN  /\ ta.ty \in AnyType /\ ta.nullable \in BOOLEAN
               /\ tb.ty \in AnyType /\ tb.nullable \in BOOLEAN
               /\ Fits(a, t.len, ta) /\ ~ Stops(a) /\ Says(a, e.a, t)
               /\ Fits(b, t.len, tb) /\ ~ Stops(b) /\ Says(b, e.b, t)
               /\ e.x = "compare" =>
                     /\ Comparable(ta.ty, tb.ty)
                     /\ Eval(e, t) = CompareDatums(t, e.op, a, ta.ty, b, tb.ty)
               /\ e.x = "arith" =>
                     /\ ArithType(e.op, ta.ty, tb.ty) # "None"
                     /\ Eval(e, t) = ArithDatums(t, e.op, a, ta.ty, b, tb.ty)
<1> DEFINE T == TypesIn(t.schema)
           D == DatumsIn(t)
           ta == T[e.a]
           tb == T[e.b]
           a == D[e.a]
           b == D[e.b]
           d == IF e.x = "compare" THEN CompareDatums(t, e.op, a, ta.ty, b, tb.ty)
                ELSE ArithDatums(t, e.op, a, ta.ty, b, tb.ty)
<1>1. Parts(t, e, T, D) /\ TypeStep(e, t.schema, T).ok  BY Inside
<1>2. /\ ta = Typed(e.a, t.schema) /\ tb = Typed(e.b, t.schema) /\ ta.ok /\ tb.ok
      /\ ta.ty \in AnyType /\ ta.nullable \in BOOLEAN
      /\ tb.ty \in AnyType /\ tb.nullable \in BOOLEAN
      /\ Fits(a, t.len, ta) /\ Fits(b, t.len, tb)
      /\ e.x = "compare" => Comparable(ta.ty, tb.ty)
      /\ e.x = "arith" => ArithType(e.op, ta.ty, tb.ty) # "None"
  BY <1>1, PairTypes
<1>3. EvalStep(e, t, D) = IF Stops(a) THEN a ELSE IF Stops(b) THEN b ELSE d
  <2>1. CASE e.x = "compare"  BY <1>2, <2>1 DEF EvalStep, EvalPair, Combined
  <2>2. CASE e.x = "arith"  BY <1>2, <2>2 DEF EvalStep, EvalPair, Combined
  <2> QED BY <2>1, <2>2
<1>4. Eval(e, t) = EvalStep(e, t, D)  BY Inside
<1>5. /\ TypeOf(e.a, t.schema) = ta /\ TypeOf(e.b, t.schema) = tb
      /\ Eval(e.a, t) = a /\ Eval(e.b, t) = b
  BY DEF TypeOf, Eval
<1> HIDE DEF T, D, ta, tb, a, b
<1>6. ~ Stops(a) /\ ~ Stops(b)  BY <1>3, <1>4
<1>7. Says(a, e.a, t) /\ Says(b, e.b, t)  BY <1>5, <1>6 DEF Agrees
<1>8. Eval(e, t) = d  BY <1>3, <1>4, <1>6
<1>9. /\ e.x = "compare" => Eval(e, t) = CompareDatums(t, e.op, a, ta.ty, b, tb.ty)
      /\ e.x = "arith" => Eval(e, t) = ArithDatums(t, e.op, a, ta.ty, b, tb.ty)
  BY <1>8
<1> HIDE DEF d
<1> QED BY <1>2, <1>5, <1>6, <1>7, <1>9

\* What a comparison means: its operator holds of the comparands.
LEMMA ComparisonMeans ==
    ASSUME NEW t, NEW e \in Exprs, e.x = "compare", NEW i
    PROVE  LET x == Meaning(e.a, t, i)
               y == Meaning(e.b, t, i)
           IN  Meaning(e, t, i) =
                  IF x = Missing \/ y = Missing THEN Missing
                  ELSE OfTruth(Holds(e.op, Comparand(TypeOf(e.a, t.schema).ty, x),
                                     Comparand(TypeOf(e.b, t.schema).ty, y)))
<1> DEFINE v == Meanings(t, i)
           ta == TypeOf(e.a, t.schema).ty
           tb == TypeOf(e.b, t.schema).ty
<1>1. MeaningStep(e, t, i, v) = MeaningOfPair(e, ta, tb, v[e.a], v[e.b])
  BY DEF MeaningStep
<1>2. Meaning(e, t, i) = MeaningStep(e, t, i, v)  BY MeaningIs
<1>3. Meaning(e.a, t, i) = v[e.a] /\ Meaning(e.b, t, i) = v[e.b]  BY DEF Meaning
<1> DEFINE x == v[e.a]
           y == v[e.b]
<1> HIDE DEF v, ta, tb
<1>4. MeaningOfPair(e, ta, tb, x, y) =
         IF x = Missing \/ y = Missing THEN Missing
         ELSE OfTruth(Holds(e.op, Comparand(ta, x), Comparand(tb, y)))
  BY DEF MeaningOfPair, Holds
<1> HIDE DEF x, y
<1> QED BY <1>1, <1>2, <1>3, <1>4 DEF ta, tb, x, y

\* A comparison of operands that hold what they mean holds what it means.
LEMMA CompareAgrees ==
    ASSUME NEW t, GoodTable(t), NEW e \in Exprs, TypeOf(e, t.schema).ok,
           e.x = "compare", Agrees(e.a, t), Agrees(e.b, t)
    PROVE  Agrees(e, t)
<1> SUFFICES ASSUME ~ Stops(Eval(e, t)), NEW i \in 0 .. t.len - 1
             PROVE  Get(Eval(e, t), i) = Meaning(e, t, i)
  BY DEF Agrees, Says
<1> DEFINE ta == TypeOf(e.a, t.schema)
           tb == TypeOf(e.b, t.schema)
           a == Eval(e.a, t)
           b == Eval(e.b, t)
           d == CompareDatums(t, e.op, a, ta.ty, b, tb.ty)
           x == Get(a, i)
           y == Get(b, i)
           u == Comparand(ta.ty, x)
           w == Comparand(tb.ty, y)
<1>1. /\ ta.ty \in AnyType /\ ta.nullable \in BOOLEAN
      /\ tb.ty \in AnyType /\ tb.nullable \in BOOLEAN
      /\ Fits(a, t.len, ta) /\ ~ Stops(a) /\ Says(a, e.a, t)
      /\ Fits(b, t.len, tb) /\ ~ Stops(b) /\ Says(b, e.b, t)
      /\ Comparable(ta.ty, tb.ty) /\ Eval(e, t) = d
  BY PairAgrees
<1>2. t.len \in Nat  BY TableLen
<1>3. Meaning(e.a, t, i) = x /\ Meaning(e.b, t, i) = y  BY <1>1 DEF Says
<1>4. Meaning(e, t, i) = IF x = Missing \/ y = Missing THEN Missing
                         ELSE OfTruth(Holds(e.op, u, w))
  BY <1>3, ComparisonMeans
<1> HIDE DEF ta, tb, a, b
<1>5. ComparesTo(d, e.op, a, ta, b, tb, t.len)  BY <1>1, <1>2, CompareFits
<1>6. Get(d, i) = IF x = Missing \/ y = Missing THEN Missing
                  ELSE OfTruth(OpHolds(e.op, OrderAt(a, ta.ty, b, tb.ty, i)))
  <2> HIDE DEF d
  <2>1. d.d = "col" /\ d.col.ty = "Bool"  BY <1>5 DEF ComparesTo
  <2>2. Get(d, i) = d.col.cells[i]  BY <2>1, GetMade
  <2> QED BY <1>5, <2>2 DEF ComparesTo
<1>7. ASSUME x # Missing, y # Missing
      PROVE  OpHolds(e.op, OrderAt(a, ta.ty, b, tb.ty, i)) <=> Holds(e.op, u, w)
  <2>1. Exact(a, ta, b, tb, i)  BY <1>1, <1>2, <1>7, OrderAtExact
  <2>2. u \in Int /\ w \in Int /\ OrderAt(a, ta.ty, b, tb.ty, i) = OrderOf(u, w)
    BY <2>1 DEF Exact
  <2>3. e.op \in Operators  BY ExprAssumption DEF Operators
  <2> HIDE DEF u, w
  <2> QED BY <2>2, <2>3, OrderHolds
<1> HIDE DEF d, x, y, u, w
<1>8. CASE x = Missing \/ y = Missing  BY <1>1, <1>4, <1>6, <1>8
<1>9. CASE x # Missing /\ y # Missing
  <2>1. OfTruth(OpHolds(e.op, OrderAt(a, ta.ty, b, tb.ty, i))) = OfTruth(Holds(e.op, u, w))
    BY <1>7, <1>9 DEF OfTruth
  <2> QED BY <1>1, <1>4, <1>6, <1>9, <2>1
<1> QED BY <1>8, <1>9

\* Arithmetic on operands that hold what they mean holds what it means.
LEMMA ArithAgrees ==
    ASSUME NEW t, GoodTable(t), NEW e \in Exprs, TypeOf(e, t.schema).ok,
           e.x = "arith", Agrees(e.a, t), Agrees(e.b, t)
    PROVE  Agrees(e, t)
<1> SUFFICES ASSUME ~ Stops(Eval(e, t)), NEW i \in 0 .. t.len - 1
             PROVE  Get(Eval(e, t), i) = Meaning(e, t, i)
  BY DEF Agrees, Says
<1> DEFINE ta == TypeOf(e.a, t.schema)
           tb == TypeOf(e.b, t.schema)
           a == Eval(e.a, t)
           b == Eval(e.b, t)
           out == ArithType(e.op, ta.ty, tb.ty)
           d == ArithDatums(t, e.op, a, ta.ty, b, tb.ty)
           x == Get(a, i)
           y == Get(b, i)
           value == IF x = Missing \/ y = Missing THEN Missing
                    ELSE IF out = "F64"
                    THEN DecimalOp(e.op, AsF64(ta.ty, x), AsF64(tb.ty, y))
                    ELSE IntegerOp(e.op, x, y)
<1>1. /\ ta.ty \in AnyType /\ tb.ty \in AnyType
      /\ Fits(a, t.len, ta) /\ ~ Stops(a) /\ Says(a, e.a, t)
      /\ Fits(b, t.len, tb) /\ ~ Stops(b) /\ Says(b, e.b, t)
      /\ Eval(e, t) = d
  BY PairAgrees
<1>2. t.len \in Nat  BY TableLen
<1>3. Meaning(e.a, t, i) = x /\ Meaning(e.b, t, i) = y  BY <1>1 DEF Says
<1>4. Meaning(e, t, i) = value
  <2> DEFINE v == Meanings(t, i)
  <2>1. MeaningStep(e, t, i, v) = MeaningOfPair(e, ta.ty, tb.ty, v[e.a], v[e.b])
    BY DEF MeaningStep
  <2>2. Meaning(e, t, i) = MeaningStep(e, t, i, v)  BY MeaningIs
  <2>3. x = v[e.a] /\ y = v[e.b]  BY <1>3 DEF Meaning
  <2> HIDE DEF v, ta, tb, x, y
  <2>4. MeaningOfPair(e, ta.ty, tb.ty, x, y) = value  BY DEF MeaningOfPair
  <2> QED BY <2>1, <2>2, <2>3, <2>4
<1> HIDE DEF ta, tb, a, b
<1>5. TypeOfDatum(a) = ta.ty  BY <1>1, <1>2, FitsGet
<1>6. TypeOfDatum(b) = tb.ty  BY <1>1, <1>2, FitsGet
<1>7. Get(d, i) = value
  <2> DEFINE Value(j) ==
               LET p == Get(a, j)
                   q == Get(b, j)
               IN  IF p = Missing \/ q = Missing THEN Missing
                   ELSE IF out = "F64"
                   THEN DecimalOp(e.op, AsF64(TypeOfDatum(a), p), AsF64(TypeOfDatum(b), q))
                   ELSE IntegerOp(e.op, p, q)
  <2>1. d = Panic \/ d = Overflow \/ d = Col(t, out, Value)  BY DEF ArithDatums
  <2>2. d # Panic /\ d # Overflow  BY <1>1 DEF Stops, Panic, Overflow
  <2>3. out # "DictUtf8"  BY DEF ArithType
  <2>4. Col(t, out, Value).d = "col" /\ Col(t, out, Value).col.ty = out
        /\ Col(t, out, Value).col.cells[i] = Value(i)
    BY DEF Col, NewColumn, RowsOf
  <2> HIDE DEF d, out, Value
  <2>5. Get(d, i) = Value(i)  BY <2>1, <2>2, <2>3, <2>4, GetMade
  <2> QED BY <1>5, <1>6, <2>5 DEF Value
<1> QED BY <1>1, <1>4, <1>7

\* A true conjunct or a true disjunct decides: the executor's rule for `and`
\* and `or`, and what they mean.
LEMMA KleeneMeans ==
    ASSUME NEW values, values \subseteq {0, 1, Missing}
    PROVE  /\ Kleene(values, 0) = IF 0 \in values THEN 0
                                  ELSE IF Missing \in values THEN Missing ELSE 1
           /\ Kleene(values, 1) = IF 1 \in values THEN 1
                                  ELSE IF Missing \in values THEN Missing ELSE 0
BY DEF Kleene

\* What `and` and `or` mean of what their arguments mean.
Joint(e, values) ==
    IF e.x = "and"
    THEN IF 0 \in values THEN 0 ELSE IF Missing \in values THEN Missing ELSE 1
    ELSE IF 1 \in values THEN 1 ELSE IF Missing \in values THEN Missing ELSE 0

MeantOfArgs(e, t, i) == {Meaning(e.args[k], t, i) : k \in DOMAIN e.args}

\* What a conjunction or disjunction means, of what its arguments mean.
LEMMA LogicMeans ==
    ASSUME NEW t, NEW e \in Exprs, e.x \in {"and", "or"}, NEW i
    PROVE  Meaning(e, t, i) = Joint(e, MeantOfArgs(e, t, i))
<1> DEFINE v == Meanings(t, i)
           A == {v[e.args[k]] : k \in DOMAIN e.args}
<1>1. Meaning(e, t, i) = MeaningStep(e, t, i, v)  BY MeaningIs
<1>2. MeantOfArgs(e, t, i) = A  BY DEF Meaning, MeantOfArgs
<1>3. MeaningStep(e, t, i, v) = Joint(e, A)
  <2>1. CASE e.x = "and"  BY <2>1 DEF MeaningStep, Joint
  <2>2. CASE e.x = "or"  BY <2>2 DEF MeaningStep, Joint
  <2> QED BY <2>1, <2>2
<1> QED BY <1>1, <1>2, <1>3

\* A conjunction or disjunction of what holds its meaning holds its own.
LEMMA LogicAgrees ==
    ASSUME NEW t, GoodTable(t), NEW e \in Exprs, TypeOf(e, t.schema).ok,
           e.x \in {"and", "or"}, \A a \in Inner(e) : TypeOf(a, t.schema).ok => Agrees(a, t)
    PROVE  Agrees(e, t)
<1> SUFFICES ASSUME ~ Stops(Eval(e, t)), NEW i \in 0 .. t.len - 1
             PROVE  Get(Eval(e, t), i) = Meaning(e, t, i)
  BY DEF Agrees, Says
<1> DEFINE T == TypesIn(t.schema)
           D == DatumsIn(t)
           m == Len(e.args)
           datums == [k \in DOMAIN e.args |-> D[e.args[k]]]
           ts == [k \in DOMAIN e.args |-> T[e.args[k]]]
           deciding == OfTruth(e.x = "or")
           d == EvalLogic(t, datums, deciding)
           A == {Get(datums[k], i) : k \in 1 .. m}
<1>1. Parts(t, e, T, D) /\ TypeStep(e, t.schema, T).ok /\ t.len \in Nat  BY Inside
<1>2. /\ m \in Nat /\ DOMAIN e.args = 1 .. m
      /\ \A k \in 1 .. m : /\ ts[k].ty = "Bool" /\ ts[k].nullable \in BOOLEAN
                           /\ Fits(datums[k], t.len, ts[k])
  BY <1>1, LogicTypes
<1>3. \A k \in 1 .. m : e.args[k] \in Inner(e) /\ T[e.args[k]].ok
  BY <1>1, LogicTypes
<1>4. Eval(e, t) = d
  <2>1. EvalStep(e, t, D) = d  BY DEF EvalStep
  <2> QED BY <2>1, Inside
<1>5. deciding \in {0, 1}  BY TruthIsBool
<1>6. DOMAIN datums = 1 .. m  BY <1>2
<1>7. Decides(d, datums, m, deciding, t.len)
  <2> HIDE DEF datums, ts, deciding, m
  <2>1. Stops(d) \/ Decides(d, datums, m, deciding, t.len)
    BY <1>1, <1>2, <1>5, <1>6, LogicFits
  <2> HIDE DEF d
  <2> QED BY <1>4, <2>1
<1>8. Get(d, i) = Kleene(A, deciding)
  <2> HIDE DEF d, datums, deciding, m
  <2>1. d.d = "col" /\ d.col.ty = "Bool"  BY <1>7 DEF Decides
  <2>2. Get(d, i) = d.col.cells[i]  BY <2>1, GetMade
  <2> QED BY <1>7, <2>2 DEF Decides
<1>9. \A k \in 1 .. m : ~ Stops(datums[k])
  <2> HIDE DEF d, datums, deciding, m
  <2> QED BY <1>7 DEF Decides
<1>10. \A k \in 1 .. m : Get(datums[k], i) = Meaning(e.args[k], t, i)
  <2> TAKE k \in 1 .. m
  <2>1. datums[k] = Eval(e.args[k], t)  BY <1>2 DEF Eval
  <2>2. Agrees(e.args[k], t)  BY <1>3 DEF TypeOf
  <2> QED BY <1>9, <2>1, <2>2 DEF Agrees, Says
<1>11. A \subseteq {0, 1, Missing}
  <2> SUFFICES ASSUME NEW k \in 1 .. m PROVE Get(datums[k], i) \in {0, 1, Missing}
    OBVIOUS
  <2> DEFINE x == datums[k]
             tk == ts[k]
  <2>1. tk.ty = "Bool" /\ Fits(x, t.len, tk) /\ ~ Stops(x)  BY <1>2, <1>9
  <2> HIDE DEF x, tk
  <2>2. Get(x, i) \in ValuesOfType(tk.ty) \cup {Missing}
    BY <1>1, <2>1, BoolValues, FitsGet
  <2> QED BY <2>1, <2>2, BoolValues DEF x
<1>12. MeantOfArgs(e, t, i) = A
  <2> HIDE DEF datums, m
  <2> QED BY <1>2, <1>10 DEF MeantOfArgs
<1>13. Meaning(e, t, i) = Joint(e, A)
  <2>1. Meaning(e, t, i) = Joint(e, MeantOfArgs(e, t, i))  BY LogicMeans
  <2> HIDE DEF A
  <2> QED BY <1>12, <2>1
<1>14. Kleene(A, deciding) = Joint(e, A)
  <2> HIDE DEF A
  <2>1. CASE e.x = "and"
    <3>1. deciding = 0  BY <2>1 DEF OfTruth
    <3> QED BY <1>11, <2>1, <3>1, KleeneMeans DEF Joint
  <2>2. CASE e.x = "or"
    <3>1. deciding = 1  BY <2>2 DEF OfTruth
    <3> QED BY <1>11, <2>2, <3>1, KleeneMeans DEF Joint
  <2> QED BY <2>1, <2>2
<1> QED BY <1>4, <1>8, <1>13, <1>14

\* What an expression of one operand means.
ValueFrom(e, x) ==
    CASE e.x = "not" -> 1 - x [] e.x = "date_trunc" -> Truncated(e.unit, x)
      [] e.x = "lat" -> x[1] [] e.x = "lon" -> x[2]

OneOperand == {"not", "date_trunc", "lat", "lon"}

\* What an expression of one operand means, of what that means.
LEMMA EachMeans ==
    ASSUME NEW t, NEW e \in Exprs, e.x \in OneOperand, NEW i
    PROVE  Meaning(e, t, i) = IF Meaning(e.a, t, i) = Missing THEN Missing
                              ELSE ValueFrom(e, Meaning(e.a, t, i))
<1> DEFINE v == Meanings(t, i)
<1>1. Meaning(e, t, i) = MeaningStep(e, t, i, v)  BY MeaningIs
<1>2. Meaning(e.a, t, i) = v[e.a]  BY DEF Meaning
<1> HIDE DEF v
<1>3. MeaningStep(e, t, i, v) = IF v[e.a] = Missing THEN Missing ELSE ValueFrom(e, v[e.a])
  BY DEF MeaningStep, ValueFrom, OneOperand
<1> QED BY <1>1, <1>2, <1>3

\* Negating, truncating or taking a coordinate of what holds its meaning does.
LEMMA EachAgrees ==
    ASSUME NEW t, GoodTable(t), NEW e \in Exprs, TypeOf(e, t.schema).ok,
           e.x \in OneOperand, Agrees(e.a, t)
    PROVE  Agrees(e, t)
<1> SUFFICES ASSUME ~ Stops(Eval(e, t)), NEW i \in 0 .. t.len - 1
             PROVE  Get(Eval(e, t), i) = Meaning(e, t, i)
  BY DEF Agrees, Says
<1> DEFINE T == TypesIn(t.schema)
           D == DatumsIn(t)
           d == D[e.a]
           z == EvalStep(e, t, D)
           value == IF Get(d, i) = Missing THEN Missing ELSE ValueFrom(e, Get(d, i))
<1>1. Parts(t, e, T, D) /\ TypeStep(e, t.schema, T).ok /\ t.len \in Nat /\ Eval(e, t) = z
  BY Inside
<1>2. /\ Fits(d, t.len, T[e.a]) /\ T[e.a].ty \in AnyType
      /\ T[e.a].ty = CASE e.x = "not" -> "Bool" [] e.x = "date_trunc" -> "Timestamp"
                   [] OTHER -> "Geo"
  BY <1>1, OperandOf DEF OneOperand
<1>3. Eval(e.a, t) = d  BY DEF Eval
<1> HIDE DEF T, D, d
<1>4. ~ Stops(d)
  <2>1. Stops(d) => z = d  BY <1>3 DEF EvalStep, EvalEach, OneOperand, d
  <2> HIDE DEF z
  <2> QED BY <1>1, <2>1
<1>5. TypeOfDatum(d) = T[e.a].ty  BY <1>1, <1>2, <1>4, FitsGet
<1>6. Get(d, i) = Meaning(e.a, t, i)  BY <1>3, <1>4 DEF Agrees, Says
<1>7. Meaning(e, t, i) = value  BY <1>6, EachMeans
<1>8. z.d = "col" /\ z.col.ty # "DictUtf8" /\ z.col.cells[i] = value
  <2>1. CASE e.x = "not"
    <3>1. z = Col(t, "Bool", LAMBDA j : IF Get(d, j) = Missing THEN Missing
                                        ELSE 1 - Get(d, j))
      BY <1>2, <1>4, <1>5, <2>1 DEF EvalStep, EvalEach, d
    <3> HIDE DEF z
    <3> QED BY <2>1, <3>1 DEF Col, NewColumn, RowsOf, ValueFrom
  <2>2. CASE e.x = "date_trunc"
    <3>1. z = Col(t, "Timestamp", LAMBDA j : IF Get(d, j) = Missing THEN Missing
                                             ELSE Truncated(e.unit, Get(d, j)))
      BY <1>2, <1>4, <1>5, <2>2 DEF EvalStep, EvalEach, d
    <3> HIDE DEF z
    <3> QED BY <2>2, <3>1 DEF Col, NewColumn, RowsOf, ValueFrom
  <2>3. CASE e.x = "lat"
    <3>1. z = Col(t, "F64", LAMBDA j : IF Get(d, j) = Missing THEN Missing
                                       ELSE Get(d, j)[1])
      BY <1>2, <1>4, <1>5, <2>3 DEF EvalStep, EvalEach, d
    <3> HIDE DEF z
    <3> QED BY <2>3, <3>1 DEF Col, NewColumn, RowsOf, ValueFrom
  <2>4. CASE e.x = "lon"
    <3>1. z = Col(t, "F64", LAMBDA j : IF Get(d, j) = Missing THEN Missing
                                       ELSE Get(d, j)[2])
      BY <1>2, <1>4, <1>5, <2>4 DEF EvalStep, EvalEach, d
    <3> HIDE DEF z
    <3> QED BY <2>4, <3>1 DEF Col, NewColumn, RowsOf, ValueFrom
  <2> QED BY <2>1, <2>2, <2>3, <2>4 DEF OneOperand
<1> HIDE DEF z, value
<1> QED BY <1>1, <1>7, <1>8, GetMade

\* Asking whether what holds its meaning is missing does.
LEMMA NullAgrees ==
    ASSUME NEW t, GoodTable(t), NEW e \in Exprs, TypeOf(e, t.schema).ok,
           e.x = "is_null", Agrees(e.a, t)
    PROVE  Agrees(e, t)
<1> SUFFICES ASSUME ~ Stops(Eval(e, t)), NEW i \in 0 .. t.len - 1
             PROVE  Get(Eval(e, t), i) = Meaning(e, t, i)
  BY DEF Agrees, Says
<1> DEFINE d == Eval(e.a, t)
           z == EvalIsNull(t, d)
           ta == TypeOf(e.a, t.schema)
<1>1. Fits(d, t.len, ta) /\ Eval(e, t) = z /\ t.len \in Nat
  <2> DEFINE D == DatumsIn(t)
             T == TypesIn(t.schema)
  <2>1. Parts(t, e, T, D) /\ TypeStep(e, t.schema, T).ok /\ t.len \in Nat
        /\ Eval(e, t) = EvalStep(e, t, D)
    BY Inside
  <2>2. Fits(D[e.a], t.len, T[e.a])  BY <2>1, OperandOf
  <2>3. EvalStep(e, t, D) = EvalIsNull(t, D[e.a])  BY DEF EvalStep
  <2> QED BY <2>1, <2>2, <2>3 DEF Eval, TypeOf
<1>2. Meaning(e, t, i) = OfTruth(Meaning(e.a, t, i) = Missing)
  <2> DEFINE v == Meanings(t, i)
  <2>1. Meaning(e, t, i) = MeaningStep(e, t, i, v)  BY MeaningIs
  <2>2. Meaning(e.a, t, i) = v[e.a]  BY DEF Meaning
  <2> HIDE DEF v
  <2>3. MeaningStep(e, t, i, v) = OfTruth(v[e.a] = Missing)  BY DEF MeaningStep
  <2> QED BY <2>1, <2>2, <2>3
<1> HIDE DEF d, ta
<1>3. ~ Stops(d)
  <2>1. Stops(d) => z = d  BY DEF EvalIsNull, Stops
  <2> HIDE DEF z
  <2> QED BY <1>1, <2>1
<1>4. Get(d, i) = Meaning(e.a, t, i)  BY <1>3 DEF Agrees, Says, d
<1>5. CASE d.d = "scalar"
  <2> DEFINE lit == [ty |-> "Bool", v |-> OfTruth(d.lit.ty = "Null")]
  <2>1. z = Scalar(lit)  BY <1>3, <1>5 DEF EvalIsNull
  <2>2. Get(Scalar(lit), i) = OfTruth(d.lit.ty = "Null")  BY DEF Get, Scalar
  <2>3. IsLiteral(d.lit)  BY <1>1, <1>5 DEF Fits, Overflow
  <2>4. Get(d, i) = IF d.lit.ty = "Null" THEN Missing ELSE d.lit.v  BY <1>5 DEF Get
  <2>5. d.lit.ty # "Null" => d.lit.v # Missing
    BY <2>3, TypesDiffer, WordAssumption DEF IsLiteral
  <2>6. d.lit.ty = "Null" <=> Get(d, i) = Missing  BY <2>4, <2>5
  <2>7. OfTruth(d.lit.ty = "Null") = OfTruth(Get(d, i) = Missing)
    BY <2>6 DEF OfTruth
  <2> HIDE DEF z, lit
  <2> QED BY <1>1, <1>2, <1>4, <2>1, <2>2, <2>7
<1>6. CASE d.d # "scalar"
  <2>1. z = Col(t, "Bool", LAMBDA j : OfTruth(d.col.cells[j] = Missing))
    BY <1>3, <1>6 DEF EvalIsNull
  <2>2. z.d = "col" /\ z.col.ty # "DictUtf8"
        /\ z.col.cells[i] = OfTruth(d.col.cells[i] = Missing)
    <3> HIDE DEF z
    <3> QED BY <2>1 DEF Col, NewColumn, RowsOf
  <2>3. d.col.cells[i] = Missing <=> Get(d, i) = Missing
    <3>1. IsColumnOf(d.col, t.len)
      <4>1. d # Overflow  BY <1>3 DEF Stops, Overflow
      <4>2. d # Scalar(d.lit)  BY <1>6 DEF Scalar
      <4> QED BY <1>1, <4>1, <4>2 DEF Fits
    <3> DEFINE dict == d.col.dictionary
               c == d.col.cells[i]
    <3>2. dict \in Seq(Int) /\ (d.col.ty = "DictUtf8" => c \in 0 .. Len(dict) - 1 \/ c = Missing)
      BY <1>1, <3>1 DEF IsColumnOf, CellsOf
    <3>3. Get(d, i) = IF d.col.ty = "DictUtf8" /\ c # Missing THEN dict[c + 1] ELSE c
      BY <1>6 DEF Get
    <3> HIDE DEF dict, c
    <3>4. ASSUME d.col.ty = "DictUtf8", c # Missing PROVE dict[c + 1] # Missing
      <4>1. c + 1 \in 1 .. Len(dict)  BY <3>2, <3>4
      <4>2. dict[c + 1] \in Int  BY <3>2, <4>1
      <4> QED BY <4>2, WordAssumption
    <3> QED BY <3>3, <3>4 DEF c
  <2>4. OfTruth(d.col.cells[i] = Missing) = OfTruth(Get(d, i) = Missing)
    BY <2>3 DEF OfTruth
  <2> HIDE DEF z
  <2>5. Get(z, i) = z.col.cells[i]  BY <2>2, GetMade
  <2> QED BY <1>1, <1>2, <1>4, <2>2, <2>4, <2>5
<1> QED BY <1>5, <1>6

\* What a lookup among literals means.
LEMMA InMeans ==
    ASSUME NEW t, NEW e \in Exprs, e.x = "in", NEW i
    PROVE  Meaning(e, t, i) =
              IF Meaning(e.a, t, i) = Missing THEN Missing
              ELSE OfTruth(\E k \in DOMAIN e.values :
                      Comparand(TypeOf(e.a, t.schema).ty, Meaning(e.a, t, i))
                         = Comparand(e.values[k].ty, e.values[k].v))
<1> DEFINE v == Meanings(t, i)
           x == v[e.a]
<1>1. Meaning(e, t, i) = MeaningStep(e, t, i, v)  BY MeaningIs
<1>2. Meaning(e.a, t, i) = x  BY DEF Meaning
<1>3. MeaningStep(e, t, i, v) =
         IF x = Missing THEN Missing
         ELSE OfTruth(\E k \in DOMAIN e.values :
                 Comparand(TypeOf(e.a, t.schema).ty, x)
                    = Comparand(e.values[k].ty, e.values[k].v))
  <2> HIDE DEF v
  <2> QED BY DEF MeaningStep
<1> HIDE DEF x, v
<1> QED BY <1>1, <1>2, <1>3

\* A lookup of what holds its meaning holds its own, by dictionary entries or
\* by equalities.
LEMMA InAgrees ==
    ASSUME NEW t, GoodTable(t), NEW e \in Exprs, TypeOf(e, t.schema).ok,
           e.x = "in", Agrees(e.a, t)
    PROVE  Agrees(e, t)
<1> SUFFICES ASSUME ~ Stops(Eval(e, t)), NEW i \in 0 .. t.len - 1
             PROVE  Get(Eval(e, t), i) = Meaning(e, t, i)
  BY DEF Agrees, Says
<1> DEFINE d == Eval(e.a, t)
           z == EvalIn(t, e, d)
           ta == TypeOf(e.a, t.schema)
           x == Get(d, i)
           text == d.d = "col" /\ d.col.ty = "DictUtf8"
           listed(k) == IF text THEN x = e.values[k].v
                        ELSE OpHolds("eq", OrderAt(d, ta.ty, Scalar(e.values[k]),
                                                   e.values[k].ty, i))
           means(k) == Comparand(ta.ty, x) = Comparand(e.values[k].ty, e.values[k].v)
<1>1. /\ ta = Typed(e.a, t.schema) /\ ta.ok /\ ta.ty \in AnyType /\ ta.nullable \in BOOLEAN
      /\ Fits(d, t.len, ta) /\ e.values # << >>
      /\ \A k \in DOMAIN e.values : Comparable(ta.ty, e.values[k].ty)
      /\ Eval(e, t) = z /\ t.len \in Nat
  <2> DEFINE D == DatumsIn(t)
             T == TypesIn(t.schema)
  <2>1. Parts(t, e, T, D) /\ TypeStep(e, t.schema, T).ok /\ t.len \in Nat
        /\ Eval(e, t) = EvalStep(e, t, D)
    BY Inside
  <2>2. /\ Fits(D[e.a], t.len, T[e.a]) /\ T[e.a].ok
        /\ T[e.a] = Typed(e.a, t.schema)
        /\ T[e.a].ty \in AnyType /\ T[e.a].nullable \in BOOLEAN
        /\ e.values # << >>
        /\ \A k \in DOMAIN e.values : Comparable(T[e.a].ty, e.values[k].ty)
    BY <2>1, OperandOf
  <2>3. EvalStep(e, t, D) = EvalIn(t, e, D[e.a])  BY DEF EvalStep
  <2> QED BY <2>1, <2>2, <2>3 DEF Eval, TypeOf
<1>2. Meaning(e, t, i) =
         IF Meaning(e.a, t, i) = Missing THEN Missing
         ELSE OfTruth(\E k \in DOMAIN e.values :
                 Comparand(ta.ty, Meaning(e.a, t, i))
                    = Comparand(e.values[k].ty, e.values[k].v))
  BY InMeans
<1> HIDE DEF d, ta
<1>3. ~ Stops(d)
  <2>1. Stops(d) => z = d  BY DEF EvalIn, EvalListed
  <2> HIDE DEF z
  <2> QED BY <1>1, <2>1
<1>4. x = Meaning(e.a, t, i)  BY <1>3 DEF Agrees, Says, d
<1>5. z.d = "col" /\ z.col.ty = "Bool"
      /\ z.col.cells[i] = IF x = Missing THEN Missing
                          ELSE OfTruth(\E k \in DOMAIN e.values : listed(k))
  <2>1. SaysListed(z, e, d, ta, t.len)  BY <1>1, <1>3, InFits
  <2>2. InList(e, d, ta, i) <=> \E k \in DOMAIN e.values : listed(k)  BY DEF InList
  <2>3. OfTruth(InList(e, d, ta, i)) = OfTruth(\E k \in DOMAIN e.values : listed(k))
    <3> HIDE DEF listed
    <3> QED BY <2>2 DEF OfTruth
  <2> HIDE DEF z, listed
  <2> QED BY <2>1, <2>3 DEF SaysListed
<1>6. Get(z, i) = z.col.cells[i]
  <2> HIDE DEF z
  <2> QED BY <1>5, GetMade
<1>7. ASSUME x # Missing, NEW k \in DOMAIN e.values
      PROVE  listed(k) <=> means(k)
  <2> DEFINE lit == e.values[k]
             b == Scalar(lit)
             tb == ExprType(lit.ty, FALSE)
  <2>1. IsLiteral(lit) /\ lit.ty # "Null" /\ lit.ty \in SortableTypes
    <3>1. IsLiteral(lit)  BY LiteralAssumption
    <3>2. Comparable(ta.ty, lit.ty)  BY <1>1
    <3> HIDE DEF lit
    <3>3. lit.ty # "Null"  BY <3>2 DEF Comparable, IsNumeric
    <3> QED BY <3>1, <3>3 DEF IsLiteral
  <2>2. Fits(b, t.len, tb) /\ ~ Stops(b) /\ tb.ty = lit.ty /\ tb.ty \in AnyType
    <3> HIDE DEF lit
    <3>1. Fits(Scalar(lit), t.len, ExprType(lit.ty, FALSE))  BY <2>1, LiteralFits
    <3> QED BY <2>1, <3>1, RefusedType DEF Stops, Scalar, AnyType
  <2>3. Get(b, i) = lit.v
    <3> HIDE DEF lit
    <3> QED BY <2>1 DEF Get, Scalar
  <2>4. Get(b, i) # Missing
    <3> HIDE DEF lit
    <3> QED BY <2>1, <2>3, TypesDiffer, WordAssumption DEF IsLiteral
  <2>5. Comparable(ta.ty, tb.ty)  BY <1>1, <2>2
  <2> HIDE DEF tb, b, x
  <2>6. Exact(d, ta, b, tb, i)  BY <1>1, <1>3, <1>7, <2>2, <2>4, <2>5, OrderAtExact DEF x
  <2> DEFINE u == Comparand(ta.ty, x)
             w == Comparand(tb.ty, Get(b, i))
  <2>7. u \in Int /\ w \in Int /\ OrderAt(d, ta.ty, b, tb.ty, i) = OrderOf(u, w)
    BY <2>6 DEF Exact, x
  <2>8. means(k) <=> u = w  BY <2>2, <2>3
  <2>9. CASE ~ text
    <3>1. listed(k) <=> OpHolds("eq", OrderAt(d, ta.ty, b, tb.ty, i))
      BY <2>2, <2>9 DEF b
    <3> HIDE DEF listed, means, u, w
    <3>2. "eq" \in Operators  BY DEF Operators
    <3>3. OpHolds("eq", OrderOf(u, w)) <=> Holds("eq", u, w)  BY <2>7, <3>2, OrderHolds
    <3>4. Holds("eq", u, w) <=> u = w  BY DEF Holds
    <3> QED BY <2>7, <2>8, <3>1, <3>3, <3>4
  <2>10. CASE text
    <3>1. ta.ty = "DictUtf8"
      <4>1. TypeOfDatum(d) = ta.ty  BY <1>1, <1>3, FitsGet
      <4> QED BY <2>10, <4>1 DEF TypeOfDatum
    <3>2. lit.ty = "DictUtf8"  BY <1>1, <3>1 DEF Comparable, IsNumeric
    <3> QED BY <2>10, <3>1, <3>2 DEF Comparand
  <2> QED BY <2>9, <2>10
<1> HIDE DEF z, x, listed, means
<1>8. CASE x = Missing  BY <1>1, <1>2, <1>4, <1>5, <1>6, <1>8
<1>9. CASE x # Missing
  <2>1. (\E k \in DOMAIN e.values : listed(k)) <=> \E k \in DOMAIN e.values : means(k)
    BY <1>7, <1>9
  <2>2. OfTruth(\E k \in DOMAIN e.values : listed(k))
           = OfTruth(\E k \in DOMAIN e.values : means(k))
    BY <2>1 DEF OfTruth
  <2>3. Meaning(e, t, i) = OfTruth(\E k \in DOMAIN e.values : means(k))
    BY <1>2, <1>4, <1>9 DEF means
  <2> QED BY <1>1, <1>5, <1>6, <1>9, <2>2, <2>3
<1> QED BY <1>8, <1>9

\* What an expression that has a type is evaluated to says, row by row, what
\* the expression means, unless an integer did not fit.
LEMMA EvalMeans ==
    ASSUME NEW t, GoodTable(t), NEW e \in Exprs, TypeOf(e, t.schema).ok
    PROVE  Agrees(e, t)
<1> DEFINE S == {x \in Exprs : TypeOf(x, t.schema).ok => Agrees(x, t)}
<1>1. ASSUME NEW x \in Exprs, \A a \in Inner(x) : a \in S PROVE x \in S
  <2> SUFFICES ASSUME TypeOf(x, t.schema).ok PROVE Agrees(x, t)  OBVIOUS
  <2>1. \A a \in Inner(x) : TypeOf(a, t.schema).ok => Agrees(a, t)  BY <1>1
  <2> HIDE DEF S
  <2>2. /\ Parts(t, x, TypesIn(t.schema), DatumsIn(t))
        /\ TypeStep(x, t.schema, TypesIn(t.schema)).ok
    BY Inside
  <2>3. x.x \in ExprKinds  BY ExprAssumption
  <2>4. CASE x.x = "column"  BY <2>4, ColumnAgrees
  <2>5. CASE x.x = "literal"  BY <2>5, LiteralAgrees
  <2>6. CASE x.x \in {"compare", "arith"}
    <3>1. TypeOf(x.a, t.schema).ok /\ TypeOf(x.b, t.schema).ok
      BY <2>2, <2>6, PairTypes DEF TypeOf
    <3>2. x.a \in Inner(x) /\ x.b \in Inner(x)  BY <2>6 DEF Inner
    <3>3. Agrees(x.a, t) /\ Agrees(x.b, t)  BY <2>1, <3>1, <3>2
    <3> QED BY <2>6, <3>3, CompareAgrees, ArithAgrees
  <2>7. CASE x.x \in {"and", "or"}  BY <2>1, <2>7, LogicAgrees
  <2>8. CASE x.x \in {"not", "is_null", "in", "date_trunc", "lat", "lon"}
    <3>1. x.a \in Inner(x) /\ TypeOf(x.a, t.schema).ok
      BY <2>2, <2>8, OperandOf DEF TypeOf
    <3>2. Agrees(x.a, t)  BY <2>1, <3>1
    <3>3. CASE x.x \in OneOperand  BY <3>2, <3>3, EachAgrees
    <3>4. CASE x.x = "is_null"  BY <3>2, <3>4, NullAgrees
    <3>5. CASE x.x = "in"  BY <3>2, <3>5, InAgrees
    <3> QED BY <2>8, <3>3, <3>4, <3>5 DEF OneOperand
  <2> QED BY <2>3, <2>4, <2>5, <2>6, <2>7, <2>8 DEF ExprKinds
<1>2. Exprs \subseteq S
  <2> HIDE DEF S
  <2> QED BY <1>1, ExprInduction
<1> QED BY <1>2

----------------------------------------------------------------------------
(* What filters select.                                                    *)

\* Which expressions are covered is one step from which of their parts are.
LEMMA CoversIs ==
    ASSUME NEW t, NEW e \in Exprs
    PROVE  FastCovers(t, e) = CoversStep(e, t, CoveredIn(t))
<1> DEFINE at(x) == CoversStep(x, t, CoveredIn(t))
           C == CoveredIn(t)
<1>1. C = [x \in Exprs |-> at(x)]  BY CoversAre
<1> HIDE DEF at, C
<1>2. C[e] = at(e)  BY <1>1
<1> QED BY <1>2 DEF FastCovers, C, at

\* A column's value is missing where its cell is.
LEMMA MissingCell ==
    ASSUME NEW n \in Nat, NEW col, IsColumnOf(col, n), NEW i \in 0 .. n - 1,
           NEW d, d = [d |-> "col", col |-> col]
    PROVE  Get(d, i) # Missing <=> IsPresent(col, i)
<1> DEFINE dict == col.dictionary
           c == col.cells[i]
<1>1. dict \in Seq(Int) /\ (col.ty = "DictUtf8" => c \in 0 .. Len(dict) - 1 \/ c = Missing)
  BY DEF IsColumnOf, CellsOf
<1>2. Get(d, i) = IF col.ty = "DictUtf8" /\ c # Missing THEN dict[c + 1] ELSE c
  BY DEF Get
<1>3. IsPresent(col, i) <=> c # Missing  BY DEF IsPresent
<1> HIDE DEF dict, c
<1>4. ASSUME col.ty = "DictUtf8", c # Missing PROVE dict[c + 1] # Missing
  <2>1. c + 1 \in 1 .. Len(dict)  BY <1>1, <1>4
  <2>2. dict[c + 1] \in Int  BY <1>1, <2>1
  <2> QED BY <2>2, WordAssumption
<1> QED BY <1>2, <1>3, <1>4

\* A column that a table has, as an expression.
LEMMA ColumnOperand ==
    ASSUME NEW t, GoodTable(t), NEW p \in Exprs, IsColumn(t, p)
    PROVE  LET col == ColumnOf(t, p.name)
               d == Eval(p, t)
               ty == TypeOf(p, t.schema)
           IN  /\ d = [d |-> "col", col |-> col] /\ IsColumnOf(col, t.len)
               /\ ty.ok /\ ty.ty = col.ty /\ ty.ty \in AnyType /\ ty.nullable \in BOOLEAN
               /\ Fits(d, t.len, ty) /\ ~ Stops(d)
               /\ \A i \in 0 .. t.len - 1 :
                     /\ Meaning(p, t, i) = Get(d, i)
                     /\ Meaning(p, t, i) # Missing <=> IsPresent(col, i)
<1> DEFINE col == ColumnOf(t, p.name)
           d == [d |-> "col", col |-> col]
           f == Field(t.schema, p.name)
           ty == ExprType(f.ty, f.nullable)
<1>1. p.x = "column" /\ p.name \in FieldNames(t.schema)  BY DEF IsColumn, HasColumn
<1>2. /\ IsColumnOf(col, t.len) /\ col.ty = f.ty /\ f.ty \in AnyType /\ f.nullable \in BOOLEAN
      /\ Fits(d, t.len, ty)
  BY <1>1, ColumnFits
<1>3. ty.ok /\ ty.ty = f.ty /\ ty.nullable = f.nullable  BY RefusedType
<1>4. TypeOf(p, t.schema) = ty
  <2> DEFINE at(x) == TypeStep(x, t.schema, TypesIn(t.schema))
             T == TypesIn(t.schema)
  <2>1. T = [x \in Exprs |-> at(x)]  BY TypesAre
  <2> HIDE DEF at, T
  <2>2. T[p] = at(p)  BY <2>1
  <2>3. at(p) = ty  BY <1>1 DEF at, TypeStep
  <2> HIDE DEF ty
  <2> QED BY <2>2, <2>3 DEF TypeOf, T
<1>5. Eval(p, t) = d
  <2>1. TypeOf(p, t.schema).ok  BY <1>3, <1>4
  <2>2. Eval(p, t) = EvalStep(p, t, DatumsIn(t))  BY <2>1, Inside
  <2> QED BY <1>1, <2>2 DEF EvalStep, HasColumn
<1>6. \A i : Meaning(p, t, i) = Get(d, i)
  <2> TAKE i
  <2>1. MeaningStep(p, t, i, Meanings(t, i)) = Get(d, i)  BY <1>1 DEF MeaningStep
  <2> QED BY <2>1, MeaningIs
<1>7. ~ Stops(d)  BY DEF Stops
<1>8. t.len \in Nat  BY TableLen
<1> HIDE DEF ty, col
<1>9. \A i \in 0 .. t.len - 1 : Get(d, i) # Missing <=> IsPresent(col, i)
  BY <1>2, <1>8, MissingCell
<1> HIDE DEF d, f
<1>10. \A i \in 0 .. t.len - 1 : /\ Meaning(p, t, i) = Get(d, i)
                                 /\ Meaning(p, t, i) # Missing <=> IsPresent(col, i)
  BY <1>6, <1>9
<1> QED BY <1>2, <1>3, <1>4, <1>5, <1>7, <1>10 DEF col, d

\* A literal that is not null, as an expression.
LEMMA LiteralOperand ==
    ASSUME NEW t, GoodTable(t), NEW p \in Exprs, p.x = "literal",
           p.lit.ty \in SortableTypes, TypeOf(p, t.schema).ok
    PROVE  LET d == Eval(p, t)
               ty == TypeOf(p, t.schema)
           IN  /\ d = Scalar(p.lit)
               /\ ty.ok /\ ty.ty = p.lit.ty /\ ty.ty \in AnyType /\ ty.nullable \in BOOLEAN
               /\ Fits(d, t.len, ty) /\ ~ Stops(d)
               /\ \A i \in 0 .. t.len - 1 :
                     /\ Meaning(p, t, i) = Get(d, i)
                     /\ Get(d, i) = p.lit.v /\ Meaning(p, t, i) # Missing
<1> DEFINE d == Scalar(p.lit)
           ty == ExprType(p.lit.ty, FALSE)
<1>0. p.lit.ty # "Null"  BY TypesDiffer
<1> DEFINE T == TypesIn(t.schema)
<1>13. TypeOf(p, t.schema) = TypeStep(p, t.schema, T) /\ TypeStep(p, t.schema, T).ok
  BY Inside
<1>14. /\ IsLiteral(p.lit)
       /\ TypeStep(p, t.schema, T) = IF p.lit.ty = "Null" THEN ExprType("None", TRUE)
                                     ELSE ExprType(p.lit.ty, FALSE)
  <2> DEFINE schema == t.schema
  <2> HIDE DEF T, schema
  <2>1. TypeStep(p, schema, T).ok  BY <1>13 DEF schema
  <2>2. /\ IsLiteral(p.lit)
        /\ TypeStep(p, schema, T) = IF p.lit.ty = "Null" THEN ExprType("None", TRUE)
                                    ELSE ExprType(p.lit.ty, FALSE)
    BY <2>1, LiteralTyped
  <2> QED BY <2>2 DEF schema
<1>1. IsLiteral(p.lit)  BY <1>14
<1>2. ty.ok /\ ty.ty = p.lit.ty /\ ty.nullable = FALSE  BY RefusedType
<1>3. TypeOf(p, t.schema) = ty  BY <1>0, <1>13, <1>14
<1>4. Eval(p, t) = d
  <2>1. TypeOf(p, t.schema).ok  BY <1>2, <1>3
  <2>2. Eval(p, t) = EvalStep(p, t, DatumsIn(t))  BY <2>1, Inside
  <2> QED BY <2>2 DEF EvalStep
<1>5. Fits(d, t.len, ty)  BY <1>0, <1>1, LiteralFits
<1>6. ~ Stops(d)  BY DEF Stops, Scalar
<1>7. \A i : Get(d, i) = p.lit.v  BY <1>0 DEF Get, Scalar
<1>8. p.lit.v # Missing  BY <1>0, <1>1, TypesDiffer, WordAssumption DEF IsLiteral
<1>9. \A i : Meaning(p, t, i) = p.lit.v
  <2> TAKE i
  <2>1. MeaningStep(p, t, i, Meanings(t, i)) = p.lit.v  BY <1>0 DEF MeaningStep
  <2> QED BY <2>1, MeaningIs
<1> HIDE DEF d, ty
<1> QED BY <1>2, <1>3, <1>4, <1>5, <1>6, <1>7, <1>8, <1>9 DEF AnyType, d

\* A column and what it is directly compared with: both have values, and the
\* order that is found directly is the one that is found in general.
Direct(t, f, i) ==
    LET ta == TypeOf(f.a, t.schema)
        tb == TypeOf(f.b, t.schema)
        a == Eval(f.a, t)
        b == Eval(f.b, t)
    IN  /\ BothPresent(t, f, i) <=> Get(a, i) # Missing /\ Get(b, i) # Missing
        /\ BothPresent(t, f, i) =>
              FastOrder(t, f, i) = OrderAt(a, ta.ty, b, tb.ty, i)

Operands(t, p, q) ==
    LET ta == TypeOf(p, t.schema)
        tb == TypeOf(q, t.schema)
    IN  /\ ta.ty \in AnyType /\ tb.ty \in AnyType /\ Comparable(ta.ty, tb.ty)
        /\ Fits(Eval(p, t), t.len, ta) /\ ~ Stops(Eval(p, t))
        /\ Fits(Eval(q, t), t.len, tb) /\ ~ Stops(Eval(q, t))
        /\ \A i \in 0 .. t.len - 1 : /\ Meaning(p, t, i) = Get(Eval(p, t), i)
                                     /\ Meaning(q, t, i) = Get(Eval(q, t), i)

\* What is compared directly is compared as it would be in general.
LEMMA DirectOrder ==
    ASSUME NEW t, GoodTable(t), NEW f, f.a \in Exprs, f.b \in Exprs, FastComparison(t, f),
           TypeOf(f.a, t.schema).ok, TypeOf(f.b, t.schema).ok
    PROVE  /\ Operands(t, f.a, f.b)
           /\ \A i \in 0 .. t.len - 1 : Direct(t, f, i)
<1> DEFINE p == f.a
           q == f.b
           ta == TypeOf(p, t.schema)
           tb == TypeOf(q, t.schema)
           a == Eval(p, t)
           b == Eval(q, t)
           col == ColumnOf(t, p.name)
           other == ColumnOf(t, q.name)
<1>0. p \in Exprs /\ q \in Exprs /\ IsColumn(t, p)  BY DEF FastComparison
<1>1. /\ a = [d |-> "col", col |-> col] /\ IsColumnOf(col, t.len)
      /\ ta.ok /\ ta.ty = col.ty /\ ta.ty \in AnyType
      /\ Fits(a, t.len, ta) /\ ~ Stops(a)
      /\ \A i \in 0 .. t.len - 1 :
            /\ Meaning(p, t, i) = Get(a, i)
            /\ Meaning(p, t, i) # Missing <=> IsPresent(col, i)
  <2> HIDE DEF p
  <2> QED BY <1>0, ColumnOperand
<1>2. CASE q.x = "literal" /\ q.lit.ty = col.ty /\ col.ty \in LiteralTypes
  <2>1. q.lit.ty \in SortableTypes  BY <1>2 DEF LiteralTypes, SortableTypes
  <2>2. /\ b = Scalar(q.lit)
        /\ tb.ok /\ tb.ty = q.lit.ty /\ tb.ty \in AnyType
        /\ Fits(b, t.len, tb) /\ ~ Stops(b)
        /\ \A i \in 0 .. t.len - 1 :
              /\ Meaning(q, t, i) = Get(b, i)
              /\ Get(b, i) = q.lit.v /\ Meaning(q, t, i) # Missing
    <3>1. TypeOf(q, t.schema).ok  OBVIOUS
    <3> HIDE DEF q
    <3> QED BY <1>0, <1>2, <2>1, <3>1, LiteralOperand
  <2>3. Comparable(ta.ty, tb.ty)
    BY <1>1, <1>2, <2>2 DEF Comparable, IsNumeric, LiteralTypes
  <2>4. Operands(t, p, q)  BY <1>1, <2>2, <2>3 DEF Operands
  <2>5. ASSUME NEW i \in 0 .. t.len - 1 PROVE Direct(t, f, i)
    <3>1. BothPresent(t, f, i) <=> Get(a, i) # Missing /\ Get(b, i) # Missing
      BY <1>1, <1>2, <2>2 DEF BothPresent
    <3>2. ASSUME BothPresent(t, f, i)
          PROVE  FastOrder(t, f, i) = OrderAt(a, ta.ty, b, tb.ty, i)
      <4>1. Get(a, i) # Missing /\ Get(b, i) # Missing  BY <3>1, <3>2
      <4>2. a.d = "col" /\ a.col = col /\ b.d = "scalar" /\ Get(b, i) = q.lit.v
            /\ TypeOfDatum(a) = col.ty /\ TypeOfDatum(b) = col.ty
            /\ ta.ty = col.ty /\ tb.ty = col.ty
        BY <1>1, <1>2, <2>2 DEF Scalar, TypeOfDatum
      <4>3. col.ty # "DictUtf8" => Get(a, i) = col.cells[i]  BY <4>2 DEF Get
      <4>4. FastOrder(t, f, i) =
               CASE col.ty = "DictUtf8" -> CodeToText(col.dictionary, col.cells[i], q.lit.v)
                 [] col.ty = "F64" -> OrderOf(Signed(col.cells[i]), Signed(q.lit.v))
                 [] OTHER -> OrderOf(col.cells[i], q.lit.v)
        BY <1>2 DEF FastOrder
      <4> HIDE DEF a, b, ta, tb, p, q, col
      <4>5. CASE col.ty = "DictUtf8"  BY <4>1, <4>2, <4>4, <4>5 DEF OrderAt
      <4>6. CASE col.ty = "F64"  BY <4>1, <4>2, <4>3, <4>4, <4>6 DEF OrderAt, CompareNumbers
      <4>7. CASE col.ty \notin {"DictUtf8", "F64"}
        BY <4>1, <4>2, <4>3, <4>4, <4>7 DEF OrderAt
      <4> QED BY <4>5, <4>6, <4>7
    <3> QED BY <3>1, <3>2 DEF Direct
  <2> QED BY <2>4, <2>5
<1>3. CASE IsColumn(t, q) /\ other.ty = col.ty /\ col.ty \in ColumnTypes
  <2>2. /\ b = [d |-> "col", col |-> other] /\ IsColumnOf(other, t.len)
        /\ tb.ok /\ tb.ty = other.ty /\ tb.ty \in AnyType
        /\ Fits(b, t.len, tb) /\ ~ Stops(b)
        /\ \A i \in 0 .. t.len - 1 :
              /\ Meaning(q, t, i) = Get(b, i)
              /\ Meaning(q, t, i) # Missing <=> IsPresent(other, i)
    <3> HIDE DEF q
    <3> QED BY <1>0, <1>3, ColumnOperand
  <2>3. Comparable(ta.ty, tb.ty)
    BY <1>1, <1>3, <2>2 DEF Comparable, IsNumeric, ColumnTypes
  <2>4. Operands(t, p, q)  BY <1>1, <2>2, <2>3 DEF Operands
  <2>5. ASSUME NEW i \in 0 .. t.len - 1 PROVE Direct(t, f, i)
    <3>0. q.x = "column"  BY <1>3 DEF IsColumn
    <3>1. BothPresent(t, f, i) <=> Get(a, i) # Missing /\ Get(b, i) # Missing
      BY <1>1, <2>2, <3>0 DEF BothPresent
    <3>2. ASSUME BothPresent(t, f, i)
          PROVE  FastOrder(t, f, i) = OrderAt(a, ta.ty, b, tb.ty, i)
      <4>1. Get(a, i) # Missing /\ Get(b, i) # Missing  BY <3>1, <3>2
      <4>2. a.d = "col" /\ a.col = col /\ b.d = "col" /\ b.col = other
            /\ TypeOfDatum(a) = col.ty /\ TypeOfDatum(b) = col.ty
            /\ ta.ty = col.ty /\ tb.ty = col.ty /\ other.ty = col.ty
            /\ col.ty # "DictUtf8"
        BY <1>1, <1>3, <2>2 DEF TypeOfDatum, ColumnTypes
      <4>3. Get(a, i) = col.cells[i] /\ Get(b, i) = other.cells[i]  BY <4>2 DEF Get
      <4>4. FastOrder(t, f, i) =
               IF col.ty = "F64" THEN OrderOf(Signed(col.cells[i]), Signed(other.cells[i]))
               ELSE OrderOf(col.cells[i], other.cells[i])
        BY <3>0, <4>2 DEF FastOrder
      <4> HIDE DEF a, b, ta, tb, p, q, col, other
      <4>6. CASE col.ty = "F64"  BY <4>1, <4>2, <4>3, <4>4, <4>6 DEF OrderAt, CompareNumbers
      <4>7. CASE col.ty # "F64"  BY <4>1, <4>2, <4>3, <4>4, <4>7 DEF OrderAt
      <4> QED BY <4>6, <4>7
    <3> QED BY <3>1, <3>2 DEF Direct
  <2> QED BY <2>4, <2>5
<1> QED BY <1>2, <1>3 DEF FastComparison

\* A row is kept by a comparison exactly if the comparison is true there.
LEMMA DirectMeans ==
    ASSUME NEW t, GoodTable(t), NEW e \in Exprs, e.x = "compare",
           NEW f, f = ColumnFirst(e), FastComparison(t, f), NEW i \in 0 .. t.len - 1,
           TypeOf(e.a, t.schema).ok, TypeOf(e.b, t.schema).ok
    PROVE  BothPresent(t, f, i) /\ OpHolds(f.op, FastOrder(t, f, i))
              <=> Meaning(e, t, i) = 1
<1> DEFINE p == f.a
           q == f.b
           ta == TypeOf(p, t.schema)
           tb == TypeOf(q, t.schema)
           a == Eval(p, t)
           b == Eval(q, t)
           x == Meaning(p, t, i)
           y == Meaning(q, t, i)
           u == Comparand(ta.ty, x)
           w == Comparand(tb.ty, y)
           there == x # Missing /\ y # Missing
<1>1. e.a \in Exprs /\ e.b \in Exprs /\ e.op \in Operators
  BY ExprAssumption DEF Inner, Operators
<1>2. \/ f = e
      \/ p = e.b /\ q = e.a /\ f.op = Flipped(e.op)
  BY DEF ColumnFirst
<1>3. p \in Exprs /\ q \in Exprs  BY <1>1, <1>2
<1>12. TypeOf(p, t.schema).ok /\ TypeOf(q, t.schema).ok  BY <1>2
<1>4. Operands(t, p, q) /\ Direct(t, f, i)  BY <1>3, <1>12, DirectOrder
<1>5. /\ ta.ty \in AnyType /\ tb.ty \in AnyType /\ Comparable(ta.ty, tb.ty)
      /\ Fits(a, t.len, ta) /\ ~ Stops(a) /\ Fits(b, t.len, tb) /\ ~ Stops(b)
      /\ x = Get(a, i) /\ y = Get(b, i)
  BY <1>4 DEF Operands
<1>6. (BothPresent(t, f, i) <=> there)
      /\ (there => FastOrder(t, f, i) = OrderAt(a, ta.ty, b, tb.ty, i))
  BY <1>4, <1>5 DEF Direct
<1>7. t.len \in Nat  BY TableLen
<1>8. ASSUME there
      PROVE  u \in Int /\ w \in Int /\ FastOrder(t, f, i) = OrderOf(u, w)
  <2> HIDE DEF a, b, ta, tb, x, y
  <2>1. Exact(a, ta, b, tb, i)  BY <1>5, <1>7, <1>8, OrderAtExact
  <2> QED BY <1>5, <1>6, <1>8, <2>1 DEF Exact
<1>9. Meaning(e, t, i) = 1 <=> there /\ Holds(f.op, u, w)
  <2> DEFINE x1 == Meaning(e.a, t, i)
             y1 == Meaning(e.b, t, i)
             u1 == Comparand(TypeOf(e.a, t.schema).ty, x1)
             w1 == Comparand(TypeOf(e.b, t.schema).ty, y1)
  <2>1. Meaning(e, t, i) = IF x1 = Missing \/ y1 = Missing THEN Missing
                           ELSE OfTruth(Holds(e.op, u1, w1))
    BY ComparisonMeans
  <2>2. OfTruth(Holds(e.op, u1, w1)) = 1 <=> Holds(e.op, u1, w1)
    <3> DEFINE h == Holds(e.op, u1, w1)
    <3> HIDE DEF h
    <3> QED BY DEF OfTruth
  <2>3. Missing # 1  BY WordAssumption
  <2>4. Meaning(e, t, i) = 1 <=> x1 # Missing /\ y1 # Missing /\ Holds(e.op, u1, w1)
    <3> HIDE DEF x1, y1, u1, w1
    <3> QED BY <2>1, <2>2, <2>3
  <2>5. CASE f = e  BY <2>4, <2>5
  <2>6. CASE p = e.b /\ q = e.a /\ f.op = Flipped(e.op)
    <3>1. x1 = y /\ y1 = x /\ u1 = w /\ w1 = u  BY <2>6
    <3>2. ASSUME there PROVE Holds(f.op, u, w) <=> Holds(e.op, u1, w1)
      <4>0. u \in Int /\ w \in Int  BY <1>8, <3>2
      <4> HIDE DEF u, w, u1, w1
      <4>1. Holds(Flipped(e.op), u, w) <=> Holds(e.op, w, u)  BY <1>1, <4>0, OrderHolds
      <4> QED BY <2>6, <3>1, <4>1
    <3> HIDE DEF x, y, u, w, x1, y1, u1, w1
    <3> QED BY <2>4, <3>1, <3>2
  <2> QED BY <1>2, <2>5, <2>6
<1>10. f.op \in Operators
  <2>1. 0 \in Int  OBVIOUS
  <2>2. Flipped(e.op) \in Operators  BY <1>1, <2>1, OrderHolds
  <2> QED BY <1>1, <1>2, <2>2
<1> HIDE DEF p, q, ta, tb, a, b, u, w, there
<1>11. there => (OpHolds(f.op, FastOrder(t, f, i)) <=> Holds(f.op, u, w))
  BY <1>8, <1>10, OrderHolds
<1> QED BY <1>6, <1>9, <1>11

\* What `is_null` means, and that a filter it covers is true or false.
LEMMA NullMeans ==
    ASSUME NEW t, NEW e \in Exprs, e.x = "is_null", NEW i
    PROVE  /\ Meaning(e, t, i) \in {0, 1}
           /\ Meaning(e, t, i) = 1 <=> Meaning(e.a, t, i) = Missing
<1> DEFINE v == Meanings(t, i)
<1>1. Meaning(e, t, i) = MeaningStep(e, t, i, v)  BY MeaningIs
<1>2. Meaning(e.a, t, i) = v[e.a]  BY DEF Meaning
<1> HIDE DEF v
<1>3. MeaningStep(e, t, i, v) = OfTruth(v[e.a] = Missing)  BY DEF MeaningStep
<1> DEFINE m == Meaning(e.a, t, i)
           h == m = Missing
<1>4. Meaning(e, t, i) = OfTruth(h)  BY <1>1, <1>2, <1>3
<1> HIDE DEF h
<1>5. OfTruth(h) \in {0, 1} /\ (OfTruth(h) = 1 <=> h)  BY DEF OfTruth
<1> QED BY <1>4, <1>5 DEF h

\* What is covered is true, false or missing in every row.
LEMMA CoveredTruth ==
    ASSUME NEW t, NEW e \in Exprs, FastCovers(t, e), NEW i
    PROVE  Meaning(e, t, i) \in {0, 1, Missing}
<1>1. CoversStep(e, t, CoveredIn(t))  BY CoversIs
<1>2. e.x \in {"and", "is_null", "not", "compare"}  BY <1>1 DEF CoversStep
<1>3. CASE e.x = "and"
  <2>1. Meaning(e, t, i) = Joint(e, MeantOfArgs(e, t, i))  BY <1>3, LogicMeans
  <2> QED BY <1>3, <2>1 DEF Joint
<1>4. CASE e.x = "is_null"  BY <1>4, NullMeans
<1>5. CASE e.x = "not"
  <2>1. e.a \in Exprs  BY <1>5, ExprAssumption DEF Inner
  <2>2. e.a.x = "is_null"  BY <1>1, <1>5 DEF CoversStep
  <2>3. Meaning(e.a, t, i) \in {0, 1}  BY <2>1, <2>2, NullMeans
  <2>4. Meaning(e, t, i) = IF Meaning(e.a, t, i) = Missing THEN Missing
                           ELSE ValueFrom(e, Meaning(e.a, t, i))
    BY <1>5, EachMeans DEF OneOperand
  <2>5. ValueFrom(e, Meaning(e.a, t, i)) = 1 - Meaning(e.a, t, i)  BY <1>5 DEF ValueFrom
  <2> QED BY <2>3, <2>4, <2>5
<1>6. CASE e.x = "compare"
  <2> DEFINE x == Meaning(e.a, t, i)
             y == Meaning(e.b, t, i)
             h == Holds(e.op, Comparand(TypeOf(e.a, t.schema).ty, x),
                        Comparand(TypeOf(e.b, t.schema).ty, y))
  <2>1. Meaning(e, t, i) = IF x = Missing \/ y = Missing THEN Missing ELSE OfTruth(h)
    BY <1>6, ComparisonMeans
  <2> HIDE DEF h, x, y
  <2>2. OfTruth(h) \in {0, 1}  BY DEF OfTruth
  <2> QED BY <2>1, <2>2
<1> QED BY <1>2, <1>3, <1>4, <1>5, <1>6

\* Where e is found directly, and that the rows found are those where it is true.
True(rows, e, t) == {i \in rows : Meaning(e, t, i) = 1}

Finds(t, e, r, s) ==
    /\ s.ok <=> FastCovers(t, e)
    /\ s.ok => s.rows = True(r, e, t)

Found(t, e) ==
    TypeOf(e, t.schema).ok =>
        \A r \in SUBSET RowsOf(t) : Finds(t, e, r, Selects(t)[<<e, r>>])

\* What a comparison that has a type compares has types.
LEMMA ComparedTyped ==
    ASSUME NEW t, GoodTable(t), NEW e \in Exprs, e.x = "compare", TypeOf(e, t.schema).ok
    PROVE  TypeOf(e.a, t.schema).ok /\ TypeOf(e.b, t.schema).ok
<1> DEFINE T == TypesIn(t.schema)
           D == DatumsIn(t)
           ta == T[e.a]
           tb == T[e.b]
<1>1. Parts(t, e, T, D) /\ TypeStep(e, t.schema, T).ok  BY Inside
<1> HIDE DEF T, D
<1>2. ta.ok /\ tb.ok  BY <1>1, PairTypes
<1> QED BY <1>2 DEF TypeOf, T

\* The rows of a comparison that is covered are those where it is true.
LEMMA CompareFound ==
    ASSUME NEW t, GoodTable(t), NEW e \in Exprs, e.x = "compare"
    PROVE  Found(t, e)
<1> SUFFICES ASSUME TypeOf(e, t.schema).ok, NEW r \in SUBSET RowsOf(t)
             PROVE  Finds(t, e, r, Selects(t)[<<e, r>>])
  BY DEF Found
<1> DEFINE f == ColumnFirst(e)
           c == FastComparison(t, f)
           s == Selects(t)[<<e, r>>]
           A == {i \in r : BothPresent(t, f, i) /\ OpHolds(f.op, FastOrder(t, f, i))}
<1>1. FastCovers(t, e) <=> c
  <2>1. CoversStep(e, t, CoveredIn(t)) <=> c  BY DEF CoversStep
  <2> QED BY <2>1, CoversIs
<1>2. s = SelectStep(e, r, t, Selects(t))  BY SelectsStep
<1>3. c => SelectStep(e, r, t, Selects(t)) = [ok |-> TRUE, rows |-> A]
  BY DEF SelectStep, Kept
<1>4. ~ c => SelectStep(e, r, t, Selects(t)) = Uncovered
  BY DEF SelectStep
<1>8. TypeOf(e.a, t.schema).ok /\ TypeOf(e.b, t.schema).ok  BY ComparedTyped
<1>5. ASSUME c PROVE A = True(r, e, t)
  <2>1. \A i \in r : BothPresent(t, f, i) /\ OpHolds(f.op, FastOrder(t, f, i))
                        <=> Meaning(e, t, i) = 1
    <3> TAKE i \in r
    <3>1. i \in 0 .. t.len - 1  BY DEF RowsOf
    <3> DEFINE g == f
    <3>2. g = ColumnFirst(e) /\ FastComparison(t, g)  BY <1>5
    <3> HIDE DEF g
    <3>3. BothPresent(t, g, i) /\ OpHolds(g.op, FastOrder(t, g, i))
            <=> Meaning(e, t, i) = 1
      BY <1>8, <3>1, <3>2, DirectMeans
    <3> QED BY <3>3 DEF g
  <2> QED BY <2>1 DEF True
<1> HIDE DEF A, f, c, s
<1>6. CASE c
  <2>1. s = [ok |-> TRUE, rows |-> A]  BY <1>2, <1>3, <1>6
  <2> QED BY <1>1, <1>5, <1>6, <2>1 DEF Finds, s
<1>7. CASE ~ c
  <2>1. s = Uncovered  BY <1>2, <1>4, <1>7
  <2> QED BY <1>1, <1>7, <2>1 DEF Finds, Uncovered, s
<1> QED BY <1>6, <1>7

\* The rows where a column is missing are found directly.
LEMMA NullFound ==
    ASSUME NEW t, GoodTable(t), NEW e \in Exprs, e.x = "is_null"
    PROVE  Found(t, e)
<1> SUFFICES ASSUME TypeOf(e, t.schema).ok, NEW r \in SUBSET RowsOf(t)
             PROVE  Finds(t, e, r, Selects(t)[<<e, r>>])
  BY DEF Found
<1> DEFINE c == IsColumn(t, e.a)
           s == Selects(t)[<<e, r>>]
           A == {i \in r : ~ IsPresent(ColumnOf(t, e.a.name), i)}
<1>1. FastCovers(t, e) <=> c
  <2>1. CoversStep(e, t, CoveredIn(t)) <=> c  BY DEF CoversStep
  <2> QED BY <2>1, CoversIs
<1>2. s = SelectStep(e, r, t, Selects(t))  BY SelectsStep
<1>3. c => SelectStep(e, r, t, Selects(t)) = [ok |-> TRUE, rows |-> A]
  BY DEF SelectStep, Kept
<1>4. ~ c => SelectStep(e, r, t, Selects(t)) = Uncovered
  BY DEF SelectStep
<1>5. ASSUME c PROVE A = True(r, e, t)
  <2> DEFINE p == e.a
  <2>1. p \in Exprs /\ IsColumn(t, p)  BY <1>5, ExprAssumption DEF Inner
  <2> HIDE DEF p
  <2>2. \A i \in 0 .. t.len - 1 :
           Meaning(p, t, i) # Missing <=> IsPresent(ColumnOf(t, p.name), i)
    BY <2>1, ColumnOperand
  <2>3. \A i : Meaning(e, t, i) = 1 <=> Meaning(p, t, i) = Missing
    BY NullMeans DEF p
  <2>4. \A i \in r : ~ IsPresent(ColumnOf(t, p.name), i) <=> Meaning(e, t, i) = 1
    BY <2>2, <2>3 DEF RowsOf
  <2> QED BY <2>4 DEF True, p
<1> HIDE DEF A, c, s
<1>6. CASE c
  <2>1. s = [ok |-> TRUE, rows |-> A]  BY <1>2, <1>3, <1>6
  <2> QED BY <1>1, <1>5, <1>6, <2>1 DEF Finds, s
<1>7. CASE ~ c
  <2>1. s = Uncovered  BY <1>2, <1>4, <1>7
  <2> QED BY <1>1, <1>7, <2>1 DEF Finds, Uncovered, s
<1> QED BY <1>6, <1>7

\* The rows where a column is present are found directly.
LEMMA NotNullFound ==
    ASSUME NEW t, GoodTable(t), NEW e \in Exprs, e.x = "not"
    PROVE  Found(t, e)
<1> SUFFICES ASSUME TypeOf(e, t.schema).ok, NEW r \in SUBSET RowsOf(t)
             PROVE  Finds(t, e, r, Selects(t)[<<e, r>>])
  BY DEF Found
<1> DEFINE c == e.a.x = "is_null" /\ IsColumn(t, e.a.a)
           s == Selects(t)[<<e, r>>]
           A == {i \in r : IsPresent(ColumnOf(t, e.a.a.name), i)}
<1>1. FastCovers(t, e) <=> c
  <2>1. CoversStep(e, t, CoveredIn(t)) <=> c  BY DEF CoversStep
  <2> QED BY <2>1, CoversIs
<1>2. s = SelectStep(e, r, t, Selects(t))  BY SelectsStep
<1>3. c => SelectStep(e, r, t, Selects(t)) = [ok |-> TRUE, rows |-> A]
  BY DEF SelectStep, Kept
<1>4. ~ c => SelectStep(e, r, t, Selects(t)) = Uncovered
  BY DEF SelectStep
<1>5. ASSUME c PROVE A = True(r, e, t)
  <2> DEFINE n == e.a
             p == n.a
  <2>1. n \in Exprs  BY ExprAssumption DEF Inner
  <2>2. n.x = "is_null"  BY <1>5
  <2> HIDE DEF n
  <2>3. p \in Exprs  BY <2>1, <2>2, ExprAssumption DEF Inner
  <2>4. IsColumn(t, p)  BY <1>5 DEF n
  <2> HIDE DEF p
  <2>5. \A i \in 0 .. t.len - 1 :
           Meaning(p, t, i) # Missing <=> IsPresent(ColumnOf(t, p.name), i)
    BY <2>3, <2>4, ColumnOperand
  <2>6. \A i : Meaning(n, t, i) \in {0, 1}
               /\ (Meaning(n, t, i) = 1 <=> Meaning(p, t, i) = Missing)
    BY <2>1, <2>2, NullMeans DEF p
  <2>7. \A i : Meaning(e, t, i) = 1 - Meaning(n, t, i)
    <3> TAKE i
    <3>1. Meaning(e, t, i) = IF Meaning(n, t, i) = Missing THEN Missing
                             ELSE ValueFrom(e, Meaning(n, t, i))
      BY EachMeans DEF OneOperand, n
    <3>2. ValueFrom(e, Meaning(n, t, i)) = 1 - Meaning(n, t, i)  BY DEF ValueFrom
    <3>3. Missing \notin {0, 1}  BY WordAssumption
    <3> QED BY <2>6, <3>1, <3>2, <3>3
  <2>8. \A i \in r : IsPresent(ColumnOf(t, p.name), i) <=> Meaning(e, t, i) = 1
    <3> TAKE i \in r
    <3>1. Meaning(p, t, i) # Missing <=> IsPresent(ColumnOf(t, p.name), i)
      BY <2>5 DEF RowsOf
    <3>2. Meaning(n, t, i) \in {0, 1}
          /\ (Meaning(n, t, i) = 1 <=> Meaning(p, t, i) = Missing)
          /\ Meaning(e, t, i) = 1 - Meaning(n, t, i)
      BY <2>6, <2>7
    <3> QED BY <3>1, <3>2
  <2> QED BY <2>8 DEF True, p, n
<1> HIDE DEF A, c, s
<1>6. CASE c
  <2>1. s = [ok |-> TRUE, rows |-> A]  BY <1>2, <1>3, <1>6
  <2> QED BY <1>1, <1>5, <1>6, <2>1 DEF Finds, s
<1>7. CASE ~ c
  <2>1. s = Uncovered  BY <1>2, <1>4, <1>7
  <2> QED BY <1>1, <1>7, <2>1 DEF Finds, Uncovered, s
<1> QED BY <1>6, <1>7

\* What a conjunction that has a type is made of has types.
LEMMA ArgsTyped ==
    ASSUME NEW t, GoodTable(t), NEW e \in Exprs, e.x = "and", TypeOf(e, t.schema).ok
    PROVE  \A k \in 1 .. Len(e.args) : TypeOf(e.args[k], t.schema).ok
<1> DEFINE T == TypesIn(t.schema)
           D == DatumsIn(t)
<1>1. Parts(t, e, T, D) /\ TypeStep(e, t.schema, T).ok  BY Inside
<1> HIDE DEF T, D
<1>2. \A k \in 1 .. Len(e.args) : T[e.args[k]].ok
  <2>1. e.x \in {"and", "or"}  OBVIOUS
  <2> QED BY <1>1, <2>1, LogicTypes
<1> QED BY <1>2 DEF TypeOf, T

\* The rows of a conjunction are what its conjuncts leave one after the other.
LEMMA AndFound ==
    ASSUME NEW t, GoodTable(t), NEW e \in Exprs, e.x = "and",
           \A a \in Inner(e) : Found(t, a)
    PROVE  Found(t, e)
<1> SUFFICES ASSUME TypeOf(e, t.schema).ok, NEW r \in SUBSET RowsOf(t)
             PROVE  Finds(t, e, r, Selects(t)[<<e, r>>])
  BY DEF Found
<1> DEFINE R == RowsOf(t)
           N == Len(e.args)
           c == \A k \in DOMAIN e.args : FastCovers(t, e.args[k])
           F == Selects(t)
           s == F[<<e, r>>]
           h == Narrowed(e.args, R, r, F)
           z == SelectAll(t, e, r, F)
           left(k) == {i \in r : \A j \in 1 .. k : Meaning(e.args[j], t, i) = 1}
<1>0. /\ N \in Nat /\ DOMAIN e.args = 1 .. N
      /\ \A k \in 1 .. N : e.args[k] \in Inner(e) /\ e.args[k] \in Exprs
  BY ArgsInner
<1>1. FastCovers(t, e) <=> c
  <2>1. CoversStep(e, t, CoveredIn(t)) <=> c  BY DEF CoversStep, FastCovers
  <2> QED BY <2>1, CoversIs
<1>2. s = SelectStep(e, r, t, F)  BY SelectsStep
<1>3. SelectStep(e, r, t, F) = IF c THEN z ELSE Uncovered  BY DEF SelectStep
<1>4. Answers(e.args, R, F)
  <2>1. AnswersFor(e, R, F)  BY SelectsResults
  <2> QED BY <2>1, ArgsAnswer
<1>5. /\ h[0] = [ok |-> TRUE, rows |-> r]
      /\ \A k \in 1 .. N :
            h[k] = IF h[k - 1].ok THEN F[<<e.args[k], h[k - 1].rows>>] ELSE Uncovered
  <2>1. NarrowsBy(h, e.args, r, F)  BY <1>0, <1>4, NarrowedIs
  <2> HIDE DEF h
  <2> QED BY <2>1 DEF NarrowsBy
<1>6. z = h[N]  BY <1>0, <1>4, SelectAllIs
<1>12. \A k \in 1 .. N : TypeOf(e.args[k], t.schema).ok  BY ArgsTyped
<1>7. \A k \in 1 .. N : \A q \in SUBSET R : Finds(t, e.args[k], q, F[<<e.args[k], q>>])
  BY <1>0, <1>12 DEF Found
<1> HIDE DEF h, z, F, R, s
<1>8. ASSUME c PROVE h[N].ok /\ h[N].rows = left(N)
  <2> DEFINE Stays(k) == h[k].ok /\ h[k].rows = left(k)
             K == {k \in Nat : k <= N => Stays(k)}
  <2>1. 0 \in K  BY <1>5
  <2>4. ASSUME NEW k \in Nat, k \in K, k + 1 <= N PROVE Stays(k + 1)
    <3> DEFINE m == k + 1
               q == left(k)
    <3>1. m \in 1 .. N /\ m - 1 = k /\ k <= N  BY <1>0, <2>4
    <3>2. h[k].ok /\ h[k].rows = q  BY <2>4, <3>1
    <3>3. q \in SUBSET R  BY DEF R
    <3> HIDE DEF q
    <3>4. h[m] = F[<<e.args[m], q>>]  BY <1>5, <3>1, <3>2
    <3>5. Finds(t, e.args[m], q, h[m])  BY <1>7, <3>1, <3>3, <3>4
    <3>6. FastCovers(t, e.args[m])  BY <1>0, <1>8, <3>1
    <3>7. h[m].ok /\ h[m].rows = True(q, e.args[m], t)  BY <3>5, <3>6 DEF Finds
    <3>8. True(q, e.args[m], t) = left(m)
      <4>1. 1 .. m = (1 .. k) \cup {m}  BY <3>1
      <4> QED BY <4>1 DEF True, q
    <3> QED BY <3>7, <3>8
  <2> HIDE DEF Stays
  <2>2. \A k \in Nat : k \in K => k + 1 \in K
    <3> TAKE k \in Nat
    <3>1. k + 1 \in Nat  OBVIOUS
    <3> QED BY <2>4, <3>1
  <2> HIDE DEF K
  <2>3. N \in K  BY <1>0, <2>1, <2>2, SetInduction
  <2>5. Stays(N)  BY <1>0, <2>3 DEF K
  <2> QED BY <2>5 DEF Stays
<1>9. ASSUME c PROVE left(N) = True(r, e, t)
  <2>1. ASSUME NEW i
        PROVE  Meaning(e, t, i) = 1 <=> \A j \in 1 .. N : Meaning(e.args[j], t, i) = 1
    <3> DEFINE V == MeantOfArgs(e, t, i)
    <3>1. Meaning(e, t, i) = Joint(e, V)  BY LogicMeans
    <3>2. \A j \in 1 .. N : Meaning(e.args[j], t, i) \in {0, 1, Missing}
      BY <1>0, <1>9, CoveredTruth
    <3>3. V = {Meaning(e.args[j], t, i) : j \in 1 .. N}  BY <1>0 DEF MeantOfArgs
    <3>4. Missing \notin {0, 1}  BY WordAssumption
    <3>5. Joint(e, V) = IF 0 \in V THEN 0 ELSE IF Missing \in V THEN Missing ELSE 1
      BY DEF Joint
    <3>6. (0 \in V \/ Missing \in V) <=> ~ \A j \in 1 .. N : Meaning(e.args[j], t, i) = 1
      <4> HIDE DEF V
      <4> QED BY <3>2, <3>3, <3>4
    <3> HIDE DEF V
    <3> QED BY <3>1, <3>4, <3>5, <3>6
  <2> QED BY <2>1 DEF True
<1> HIDE DEF c, left
<1>10. CASE c
  <2>1. s = h[N]  BY <1>2, <1>3, <1>6, <1>10
  <2>2. s.ok /\ s.rows = True(r, e, t)  BY <1>8, <1>9, <1>10, <2>1
  <2> QED BY <1>1, <1>10, <2>2 DEF Finds, s, F
<1>11. CASE ~ c
  <2>1. s = Uncovered  BY <1>2, <1>3, <1>11
  <2> QED BY <1>1, <1>11, <2>1 DEF Finds, Uncovered, s, F
<1> QED BY <1>10, <1>11

\* Every filter that is covered is found directly, and no other, and its rows
\* are those where it is true.
LEMMA SelectsMean ==
    ASSUME NEW t, GoodTable(t), NEW e \in Exprs
    PROVE  Found(t, e)
<1> DEFINE S == {x \in Exprs : Found(t, x)}
<1>1. ASSUME NEW x \in Exprs, \A a \in Inner(x) : a \in S PROVE x \in S
  <2>1. \A a \in Inner(x) : Found(t, a)  BY <1>1
  <2>2. CASE x.x = "and"  BY <2>1, <2>2, AndFound
  <2>3. CASE x.x = "compare"  BY <2>3, CompareFound
  <2>4. CASE x.x = "is_null"  BY <2>4, NullFound
  <2>5. CASE x.x = "not"  BY <2>5, NotNullFound
  <2>6. CASE x.x \notin {"and", "compare", "is_null", "not"}
    <3>1. ASSUME NEW r \in SUBSET RowsOf(t)
          PROVE  Finds(t, x, r, Selects(t)[<<x, r>>])
      <4>1. Selects(t)[<<x, r>>] = SelectStep(x, r, t, Selects(t))  BY SelectsStep
      <4>2. SelectStep(x, r, t, Selects(t)) = Uncovered  BY <2>6 DEF SelectStep
      <4>3. ~ CoversStep(x, t, CoveredIn(t))  BY <2>6 DEF CoversStep
      <4>4. ~ FastCovers(t, x)  BY <4>3, CoversIs
      <4> QED BY <4>1, <4>2, <4>4 DEF Finds, Uncovered
    <3> QED BY <3>1 DEF Found
  <2> QED BY <2>2, <2>3, <2>4, <2>5, <2>6
<1>2. Exprs \subseteq S
  <2> HIDE DEF S
  <2> QED BY <1>1, ExprInduction
<1> QED BY <1>2

\* Both ways to select a filter's rows keep exactly those where its condition
\* is true, whatever the plan has computed: dictionary codes against text,
\* integers against decimals, literals on either side, missing values.
THEOREM SelectionsMean == PlanSpec => []SelectionsAreMeant
<1>1. PlanInv => SelectionsAreMeant
  <2> SUFFICES ASSUME PlanInv, NEW t \in Outputs, NEW e \in Conditions(NumSteps),
                      TypedAs(e, t.schema, "Bool").ok
               PROVE  SelectsMeant(t, e, True(RowsOf(t), e, t), FastSelection(t, e), Eval(e, t))
    BY DEF SelectionsAreMeant, True
  <2>1. GoodTable(t)  BY OutputsGood
  <2>2. NumSteps \in 0 .. MaxSteps
    BY DEF PlanInv, ShapeInv
  <2>3. e \in Exprs  BY <2>2, PlanRunAssumption
  <2>4. TypeOf(e, t.schema).ok /\ TypeOf(e, t.schema).ty = "Bool"
    <3>1. t.schema \in Seq(SchemaFields)  BY <2>1 DEF GoodTable
    <3>2. UsableAs(TypeOf(e, t.schema), "Bool").ok  BY DEF TypedAs
    <3> QED BY <2>3, <3>1, <3>2, Operand
  <2> DEFINE d == Eval(e, t)
             s == FastSelection(t, e)
             meant == True(RowsOf(t), e, t)
  <2>5. Finds(t, e, RowsOf(t), s)
    <3>1. Found(t, e) /\ TypeOf(e, t.schema).ok  BY <2>1, <2>3, <2>4, SelectsMean
    <3>2. s = Selects(t)[<<e, RowsOf(t)>>]  BY SelectsAre
    <3> HIDE DEF s
    <3> QED BY <3>1, <3>2 DEF Found
  <2>6. d.d # "panic"
    <3>1. Fits(d, t.len, TypeOf(e, t.schema))  BY <2>1, <2>3, <2>4, EvalFits
    <3> HIDE DEF d
    <3> QED BY <3>1 DEF Fits, Overflow, Scalar
  <2>7. Stops(d) \/ Selection(t, d) = meant
    <3>1. Agrees(e, t)  BY <2>1, <2>3, <2>4, EvalMeans
    <3>2. Stops(d) \/ \A i \in RowsOf(t) : Get(d, i) = Meaning(e, t, i)
      BY <3>1 DEF Agrees, Says, RowsOf
    <3> HIDE DEF d
    <3> QED BY <3>2 DEF Selection, True
  <2> HIDE DEF d, s, meant
  <2>8. (s.ok <=> FastCovers(t, e)) /\ (s.ok => s.rows = meant)
    BY <2>5 DEF Finds, meant
  <2>9. SelectsMeant(t, e, meant, s, d)  BY <2>6, <2>7, <2>8 DEF SelectsMeant
  <2> QED BY <2>9 DEF d, s, meant
<1> QED BY <1>1, PlanHolds, PTL
==============================================================================
