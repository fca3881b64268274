----------------------------- MODULE Fetch_proofs -----------------------------
(***************************************************************************)
(* Paging by row id, with rows that change, retries, crashes, restarts and *)
(* other fetches into the same directory: the invariant, that every step   *)
(* of RawFetch preserves it, and that it holds of the directory fetches    *)
(* from both sources write.  Paging SeeClickFix by number loses at most as *)
(* many requests as went meanwhile.                                        *)
(***************************************************************************)
EXTENDS ScfFetch, NaturalSets

----------------------------------------------------------------------------
(* Pages.                                                                  *)

\* The first n members of S.
FirstOf(S, n) == {r \in S : Cardinality({q \in S : q < r}) < n}

\* They have no gap, and if they are fewer than n they are all of S.
LEMMA FirstAreFirst ==
    ASSUME NEW S \in SUBSET Nat, IsFiniteSet(S), NEW n \in Nat
    PROVE  /\ \A a \in FirstOf(S, n) : \A r \in S : r <= a => r \in FirstOf(S, n)
           /\ IsFiniteSet(FirstOf(S, n))
           /\ Cardinality(FirstOf(S, n)) < n => FirstOf(S, n) = S
<1> DEFINE Below(r) == {q \in S : q < r}
           A == FirstOf(S, n)
<1>1. \A r \in S : IsFiniteSet(Below(r)) /\ Cardinality(Below(r)) \in Nat
  <2> TAKE r \in S
  <2>1. Below(r) \subseteq S  OBVIOUS
  <2> HIDE DEF Below
  <2> QED BY <2>1, FS_Subset, FS_CardinalityType
<1>2. \A r \in S : r \in A <=> Cardinality(Below(r)) < n  BY DEF FirstOf
<1>3. A \subseteq S  BY DEF FirstOf
<1>4. IsFiniteSet(A) /\ Cardinality(A) \in Nat  BY <1>3, FS_Subset, FS_CardinalityType
<1>5. ASSUME NEW a \in A, NEW r \in S, r <= a PROVE r \in A
  <2>1. a \in S  BY <1>3
  <2>2. Below(r) \subseteq Below(a)
    <3>1. r \in Nat /\ a \in Nat /\ \A q \in S : q \in Nat  BY <2>1
    <3>2. \A q \in S : q < r => q < a  BY <1>5, <3>1
    <3> QED BY <3>2
  <2> HIDE DEF Below, A
  <2>3. Cardinality(Below(r)) <= Cardinality(Below(a))
    BY <1>1, <2>1, <2>2, FS_Subset
  <2>4. Cardinality(Below(a)) < n  BY <1>2, <2>1, <1>5
  <2>5. Cardinality(Below(r)) < n  BY <1>1, <2>1, <2>3, <2>4
  <2> QED BY <1>2, <2>5
<1>6. ASSUME Cardinality(A) < n PROVE A = S
  <2>1. SUFFICES ASSUME S \ A # {} PROVE FALSE  BY <1>3
  <2>2. PICK m \in S \ A : \A x \in S \ A : m <= x
    <3> HIDE DEF A
    <3> QED BY <2>1, LeastElement
  <2>3. Below(m) \subseteq A
    <3>1. m \in Nat /\ \A q \in S : q \in Nat  OBVIOUS
    <3>2. \A q \in S : q < m => ~ (m <= q)  BY <3>1
    <3> HIDE DEF A
    <3> QED BY <2>2, <3>2
  <2> HIDE DEF Below, A
  <2>4. Cardinality(Below(m)) <= Cardinality(A)  BY <1>4, <2>3, FS_Subset
  <2>5. ~ (Cardinality(Below(m)) < n)  BY <1>2
  <2> QED BY <1>1, <1>4, <1>6, <2>4, <2>5
<1> QED BY <1>4, <1>5, <1>6

\* Max of a page.
LEMMA MaxOfPage ==
    ASSUME NEW S \in SUBSET Nat, IsFiniteSet(S), S # {}
    PROVE  Max(S) \in S /\ \A x \in S : x <= Max(S)
<1>1. PICK m \in S : \A x \in S : x <= m  BY GreatestElement
<1>2. \A x \in S : m >= x  BY <1>1
<1> QED BY <1>2 DEF Max

\* What a request for the rows after `last` is answered with: rows in scope
\* now, only later ones, none left out before the last; all of them, if the
\* page is not full.
LEMMA AnswerFacts ==
    ASSUME Rows \in SUBSET Ids, NEW last \in Nat
    PROVE  /\ Answer(last) \in SUBSET Rows /\ Answer(last) \in SUBSET Ids
           /\ IsFiniteSet(Answer(last)) /\ Cardinality(Answer(last)) \in Nat
           /\ keyset => \A r \in Answer(last) : r > last
           /\ keyset => \A a \in Answer(last) : \A r \in Rows :
                 last < r /\ r <= a => r \in Answer(last)
           /\ keyset /\ Cardinality(Answer(last)) < PageSize
                 => Answer(last) = {r \in Rows : r > last}
<1> DEFINE asked == {r \in Rows : keyset => r > last}
<1>1. Ids \in SUBSET Nat /\ IsFiniteSet(Ids) /\ PageSize \in Nat
  BY RawFetchAssumption
<1>2. asked \in SUBSET Rows /\ asked \in SUBSET Nat /\ asked \in SUBSET Ids  BY <1>1
<1>3. IsFiniteSet(asked)
  <2> HIDE DEF asked
  <2> QED BY <1>1, <1>2, FS_Subset
<1>4. Answer(last) = FirstOf(asked, PageSize)  BY DEF Answer, FirstOf
<1>5. Answer(last) \subseteq asked  BY <1>4 DEF FirstOf
<1>6. /\ \A a \in Answer(last) : \A r \in asked : r <= a => r \in Answer(last)
      /\ IsFiniteSet(Answer(last))
      /\ Cardinality(Answer(last)) < PageSize => Answer(last) = asked
  <2> HIDE DEF asked
  <2> QED BY <1>1, <1>2, <1>3, <1>4, FirstAreFirst
<1>7. Cardinality(Answer(last)) \in Nat  BY <1>6, FS_CardinalityType
<1>8. Answer(last) \in SUBSET Rows /\ Answer(last) \in SUBSET Ids
  <2> HIDE DEF asked
  <2> QED BY <1>2, <1>5
<1> QED BY <1>5, <1>6, <1>7, <1>8

\* The rows of a list of pages, and of one more.
LEMMA FetchedMore ==
    ASSUME NEW ps \in Seq(SUBSET Ids), NEW page
    PROVE  /\ Fetched(Append(ps, page)) = Fetched(ps) \cup page
           /\ Fetched(<< >>) = {}
           /\ \A r : r \in Fetched(ps) <=> \E i \in DOMAIN ps : r \in ps[i]
<1>1. \A qs : \A r : r \in Fetched(qs) <=> \E i \in DOMAIN qs : r \in qs[i]
  BY DEF Fetched, Range
<1>2. \A r : r \in Fetched(Append(ps, page)) <=> r \in Fetched(ps) \/ r \in page
  <2> TAKE r
  <2> DEFINE n == Len(ps)
             qs == Append(ps, page)
  <2>1. DOMAIN ps = 1 .. n /\ DOMAIN qs = 1 .. n + 1 /\ n \in Nat  OBVIOUS
  <2>2. \A i \in 1 .. n : qs[i] = ps[i]  OBVIOUS
  <2>3. qs[n + 1] = page  OBVIOUS
  <2>4. \A i \in 1 .. n + 1 : i \in 1 .. n \/ i = n + 1  BY <2>1
  <2>5. n + 1 \in 1 .. n + 1 /\ \A i \in 1 .. n : i \in 1 .. n + 1  BY <2>1
  <2> HIDE DEF n, qs
  <2>6. r \in Fetched(qs) <=> \E i \in 1 .. n + 1 : r \in qs[i]  BY <1>1, <2>1
  <2>7. r \in Fetched(ps) <=> \E i \in 1 .. n : r \in ps[i]  BY <1>1, <2>1
  <2>8. r \in Fetched(qs) <=> r \in Fetched(ps) \/ r \in page
    BY <2>2, <2>3, <2>4, <2>5, <2>6, <2>7
  <2> QED BY <2>8 DEF qs
<1> QED BY <1>1, <1>2

----------------------------------------------------------------------------
(* The invariant.                                                          *)

States == {"idle", "create", "metadata", "page", "finish", "stopped", "done"}

Times == 1 .. MaxChanges + 1

Dirs == [made : BOOLEAN, metadata : Times \cup {NoFile, Torn},
         pages : [1 .. MaxPages -> (SUBSET Ids) \cup {NoFile, Torn}],
         fetch_json : Record \cup {NoFile, Torn}]

Builds == [pc : {"closed", "metadata", "pages", "open"},
           record : Record \cup {NoFile, Torn}, next : Nat]

Types ==
    /\ versions \in Seq(SUBSET Ids) /\ UpdatedAt \in Times
    /\ dir \in Dirs
    /\ pc \in [Fetcher -> States]
    /\ attempt \in [Fetcher -> 1 .. MaxAttempts]
    /\ last_id \in [Fetcher -> Ids \cup {0}]
    /\ pages \in [Fetcher -> Seq(SUBSET Ids)]
    /\ \A p \in Fetcher : Len(pages[p]) <= MaxPages
    /\ started \in [Fetcher -> Nat]
    /\ present \in [Fetcher -> SUBSET Ids]
    /\ build \in Builds
    /\ \A p \in Fetcher : pc[p] \in {"page", "finish"} => started[p] \in 1 .. UpdatedAt

\* What a fetch that is under way has, of the portal's rows now.
UnderWay(p) ==
    /\ pc[p] \in {"metadata", "page"} => present[p] \subseteq Rows
    /\ pc[p] = "metadata" => pages[p] = << >> /\ last_id[p] = 0

\* While it pages: rows up to the last id only, every one of them that was in
\* scope throughout, and exactly those in scope if nothing changed.
Paging(p) ==
    pc[p] = "page" =>
        /\ \A r \in Fetched(pages[p]) : r <= last_id[p]
        /\ \A r \in present[p] : r <= last_id[p] => r \in Fetched(pages[p])
        /\ started[p] = UpdatedAt =>
              Fetched(pages[p]) = {r \in Rows : r <= last_id[p]}

\* After the last page: every row that was in scope throughout.
Complete(p) ==
    /\ pc[p] \in {"finish", "done"} => present[p] \subseteq Fetched(pages[p])
    /\ pc[p] = "finish" /\ started[p] = UpdatedAt => Fetched(pages[p]) = Rows

Disjoint(p) ==
    \A i, j \in DOMAIN pages[p] : i # j => pages[p][i] \cap pages[p][j] = {}

\* A finished fetch that saw no change is the dataset at that time.
Exact(f) ==
    f.record.start # NoFile /\ f.record.start = f.record.end =>
        /\ f.record.start \in 1 .. UpdatedAt
        /\ Fetched(f.record.pages) = versions[f.record.start]

\* What fetch.json holds, whole, and what a build works with, is the record of
\* a finished fetch.
OfFinished ==
    /\ dir.fetch_json \notin {NoFile, Torn} =>
          \E f \in finished : f.record = dir.fetch_json
    /\ build.pc # "closed" => \E f \in finished : f.record = build.record

Records == (keyset => \A f \in finished : Exact(f)) /\ OfFinished

\* Everything the invariant says of a fetch.
Sound(p) ==
    /\ UnderWay(p)
    /\ keyset => Paging(p) /\ Complete(p) /\ Disjoint(p)

Inv == Types /\ (\A p \in Fetcher : Sound(p)) /\ Records

\* What the constants are.
LEMMA Bounds ==
    /\ Ids \in SUBSET Nat /\ 0 \notin Ids /\ FirstRows \in SUBSET Ids
    /\ PageSize \in Nat /\ PageSize > 0 /\ MaxAttempts \in Nat /\ MaxAttempts > 0
    /\ MaxChanges \in Nat /\ MaxPages \in Nat
  BY RawFetchAssumption

\* The portal's rows now.
LEMMA RowsAreIds ==
    ASSUME versions \in Seq(SUBSET Ids), UpdatedAt \in Times
    PROVE  Rows \in SUBSET Ids
  BY DEF Rows, UpdatedAt, Times

\* Before anything was fetched.
LEMMA InitInv == Init => Inv
<1> SUFFICES ASSUME Init PROVE Inv  OBVIOUS
<1>1. Types
  <2>1. versions \in Seq(SUBSET Ids) /\ UpdatedAt = 1 /\ 1 \in Times
    BY Bounds DEF Init, UpdatedAt, Times
  <2>2. dir \in Dirs /\ build \in Builds
    BY Bounds DEF Init, Empty, Dirs, Closed, Builds
  <2>3. /\ pc \in [Fetcher -> States] /\ attempt \in [Fetcher -> 1 .. MaxAttempts]
        /\ last_id \in [Fetcher -> Ids \cup {0}] /\ started \in [Fetcher -> Nat]
        /\ present \in [Fetcher -> SUBSET Ids]
    BY Bounds DEF Init, States
  <2>4. pages \in [Fetcher -> Seq(SUBSET Ids)]
        /\ \A p \in Fetcher : pages[p] = << >> /\ pc[p] = "idle"
    BY DEF Init
  <2> QED BY <2>1, <2>2, <2>3, <2>4, Bounds DEF Types
<1>2. \A p \in Fetcher : pc[p] = "idle" /\ pages[p] = << >>  BY DEF Init
<1>3. \A p \in Fetcher : UnderWay(p) /\ Paging(p) /\ Complete(p) /\ Disjoint(p)
  BY <1>2 DEF UnderWay, Paging, Complete, Disjoint
<1>4. OfFinished /\ finished = {}
  BY DEF Init, OfFinished, Empty, Closed
<1> QED BY <1>1, <1>3, <1>4 DEF Inv, Sound, Records

----------------------------------------------------------------------------
(* Types are preserved.                                                    *)

\* A change of rows: later versions leave the earlier ones alone.
LEMMA ChangeTypes ==
    ASSUME Types, Change
    PROVE  /\ Types' /\ UpdatedAt' = UpdatedAt + 1
           /\ \A i \in 1 .. UpdatedAt : versions'[i] = versions[i]
           /\ \A p \in Fetcher : pc[p] \in {"metadata", "page"}
                => present'[p] = present[p] \cap Rows'
           /\ \A p \in Fetcher : pc[p] \notin {"metadata", "page"}
                => present'[p] = present[p]
<1>1. versions \in Seq(SUBSET Ids) /\ UpdatedAt \in Times /\ Rows \in SUBSET Ids
  BY RowsAreIds DEF Types
<1>2. PICK rows \in SUBSET Ids : versions' = Append(versions, rows)
  <2>1. CASE \E r \in Ids \ UNION Range(versions) :
               versions' = Append(versions, Rows \cup {r})
    <3>1. PICK r \in Ids : versions' = Append(versions, Rows \cup {r})  BY <2>1
    <3>2. Rows \cup {r} \in SUBSET Ids  BY <1>1
    <3> QED BY <3>1, <3>2
  <2>2. CASE \E r \in Rows : versions' = Append(versions, Rows \ {r})
    <3>1. PICK r \in Rows : versions' = Append(versions, Rows \ {r})  BY <2>2
    <3>2. Rows \ {r} \in SUBSET Ids  BY <1>1
    <3> QED BY <3>1, <3>2
  <2> QED BY <2>1, <2>2 DEF Change
<1>3. UpdatedAt <= MaxChanges  BY DEF Change
<1>4. /\ versions' \in Seq(SUBSET Ids)
      /\ UpdatedAt' = UpdatedAt + 1
      /\ versions'[UpdatedAt'] = rows
      /\ \A i \in 1 .. UpdatedAt : versions'[i] = versions[i]
  BY <1>1, <1>2 DEF UpdatedAt
<1>5. UpdatedAt' \in Times  BY <1>1, <1>3, <1>4, Bounds DEF Times
<1>6. Rows' = rows  BY <1>4 DEF Rows, UpdatedAt
<1>7. /\ present' = [p \in Fetcher |->
                        IF pc[p] \in {"metadata", "page"}
                        THEN present[p] \cap rows ELSE present[p]]
      /\ UNCHANGED <<keyset, dir, pc, attempt, last_id, pages, started, starts,
                     finished, build>>
  BY <1>4, <1>6 DEF Change, UpdatedAt
<1>8. present' \in [Fetcher -> SUBSET Ids]  BY <1>7 DEF Types
<1>9. \A p \in Fetcher : pc'[p] \in {"page", "finish"} => started'[p] \in 1 .. UpdatedAt'
  BY <1>1, <1>4, <1>7 DEF Types, Times
<1>10. Types'  BY <1>4, <1>5, <1>7, <1>8, <1>9 DEF Types
<1> QED BY <1>4, <1>6, <1>7, <1>10

\* A step that leaves the portal alone.
LEMMA PortalKept ==
    ASSUME Types, versions' = versions, started' = started, last_id' = last_id,
           present' = present
    PROVE  /\ UpdatedAt' = UpdatedAt /\ Rows' = Rows
           /\ versions' \in Seq(SUBSET Ids) /\ UpdatedAt' \in Times
           /\ started' \in [Fetcher -> Nat] /\ last_id' \in [Fetcher -> Ids \cup {0}]
           /\ present' \in [Fetcher -> SUBSET Ids]
  BY DEF Types, UpdatedAt, Rows

\* Of a fetch that a step stops, or lets try again.
LEMMA ControlTypes ==
    ASSUME Types, NEW p \in Fetcher,
           Begin(p) \/ Transient(p) \/ Fatal(p)
    PROVE  /\ Types'
           /\ UNCHANGED <<versions, keyset, dir, last_id, pages, started, present,
                          finished, build>>
           /\ \A q \in Fetcher : pc'[q] = pc[q] \/ pc'[q] \in {"create", "stopped"}
<1>1. UNCHANGED <<versions, keyset, dir, last_id, pages, started, present,
                  finished, build>>
  BY DEF Begin, Transient, Fatal
<1>2. PICK s \in {pc[p], "create", "stopped"} : pc' = [pc EXCEPT ![p] = s]
  <2>1. pc = [pc EXCEPT ![p] = pc[p]]  BY DEF Types
  <2>2. CASE Begin(p)  BY <2>2 DEF Begin
  <2>3. CASE Transient(p)  BY <2>1, <2>3 DEF Transient
  <2>4. CASE Fatal(p)  BY <2>4 DEF Fatal
  <2> QED BY <2>2, <2>3, <2>4
<1>3. attempt' \in [Fetcher -> 1 .. MaxAttempts]
  <2>1. CASE Begin(p) \/ Fatal(p)  BY <2>1 DEF Begin, Fatal, Types
  <2>2. CASE Transient(p)
    <3>1. attempt[p] \in 1 .. MaxAttempts /\ attempt \in [Fetcher -> 1 .. MaxAttempts]
      BY DEF Types
    <3>2. CASE attempt[p] < MaxAttempts
      <4>1. attempt' = [attempt EXCEPT ![p] = @ + 1]  BY <2>2, <3>2 DEF Transient
      <4>2. attempt[p] + 1 \in 1 .. MaxAttempts  BY <3>1, <3>2, Bounds
      <4> QED BY <3>1, <4>1, <4>2
    <3>3. CASE ~ (attempt[p] < MaxAttempts)
      BY <2>2, <3>1, <3>3 DEF Transient
    <3> QED BY <3>2, <3>3
  <2> QED BY <2>1, <2>2
<1>4. pc' \in [Fetcher -> States]
      /\ \A q \in Fetcher : pc'[q] = pc[q] \/ pc'[q] \in {"create", "stopped"}
  BY <1>2 DEF Types, States
<1>5. \A q \in Fetcher : pc'[q] \in {"page", "finish"} => pc[q] \in {"page", "finish"}
  BY <1>4
<1>6. Types'  BY <1>1, <1>3, <1>4, <1>5, PortalKept DEF Types
<1> QED BY <1>1, <1>4, <1>6

\* A fetch that dies: at most one file is torn.
LEMMA CrashTypes ==
    ASSUME Types, NEW p \in Fetcher, Crash(p)
    PROVE  /\ Types'
           /\ UNCHANGED <<versions, keyset, last_id, pages, started, present,
                          finished, build>>
           /\ \A q \in Fetcher : pc'[q] = pc[q] \/ pc'[q] = "stopped"
           /\ dir'.fetch_json \in {dir.fetch_json, Torn}
<1>1. /\ UNCHANGED <<versions, keyset, attempt, last_id, pages, started, present,
                     finished, build>>
      /\ pc' = [pc EXCEPT ![p] = "stopped"]
      /\ dir' = dir \/ dir' = Interrupted(p)
  BY DEF Crash
<1>2. dir \in Dirs  BY DEF Types
<1>3. Interrupted(p) \in Dirs /\ Interrupted(p).fetch_json \in {dir.fetch_json, Torn}
  <2>1. CASE pc[p] = "metadata"  BY <1>2, <2>1 DEF Interrupted, Dirs
  <2>2. CASE pc[p] = "page"
    <3>1. Interrupted(p) = [dir EXCEPT !.pages[Len(pages[p]) + 1] = Torn]
      BY <2>2 DEF Interrupted
    <3>2. dir.pages \in [1 .. MaxPages -> (SUBSET Ids) \cup {NoFile, Torn}]
      BY <1>2 DEF Dirs
    <3>3. [dir.pages EXCEPT ![Len(pages[p]) + 1] = Torn]
            \in [1 .. MaxPages -> (SUBSET Ids) \cup {NoFile, Torn}]
      BY <3>2
    <3> QED BY <1>2, <3>1, <3>3 DEF Dirs
  <2>3. CASE pc[p] = "finish"  BY <1>2, <2>3 DEF Interrupted, Dirs
  <2>4. CASE pc[p] \notin {"metadata", "page", "finish"}
    BY <1>2, <2>4 DEF Interrupted
  <2> QED BY <2>1, <2>2, <2>3, <2>4
<1>4. dir' \in Dirs /\ dir'.fetch_json \in {dir.fetch_json, Torn}
  BY <1>1, <1>2, <1>3
<1>5. pc' \in [Fetcher -> States]
      /\ \A q \in Fetcher : pc'[q] = pc[q] \/ pc'[q] = "stopped"
  BY <1>1 DEF Types, States
<1>6. \A q \in Fetcher : pc'[q] \in {"page", "finish"} => pc[q] \in {"page", "finish"}
  BY <1>5
<1>7. Types'  BY <1>1, <1>4, <1>5, <1>6, PortalKept DEF Types
<1> QED BY <1>1, <1>4, <1>5, <1>7

\* The directory is created, and paging starts anew.
LEMMA CreateDirsTypes ==
    ASSUME Types, NEW p \in Fetcher, CreateDirs(p)
    PROVE  Types'
<1>1. /\ dir' = [dir EXCEPT !.made = TRUE]
      /\ pc' = [pc EXCEPT ![p] = "metadata"]
      /\ attempt' = [attempt EXCEPT ![p] = 1]
      /\ last_id' = [last_id EXCEPT ![p] = 0]
      /\ pages' = [pages EXCEPT ![p] = << >>]
      /\ present' = [present EXCEPT ![p] = Rows]
      /\ UNCHANGED <<versions, started, build>>
  BY DEF CreateDirs
<1>2. Rows \in SUBSET Ids  BY RowsAreIds DEF Types
<1>3. UpdatedAt' = UpdatedAt  BY <1>1 DEF UpdatedAt
<1>4. dir' \in Dirs  BY <1>1 DEF Types, Dirs
<1>5. << >> \in Seq(SUBSET Ids) /\ Len(<< >>) <= MaxPages  BY Bounds
<1>6. pages' \in [Fetcher -> Seq(SUBSET Ids)] /\ \A q \in Fetcher : Len(pages'[q]) <= MaxPages
  BY <1>1, <1>5 DEF Types
<1>7. /\ pc' \in [Fetcher -> States] /\ attempt' \in [Fetcher -> 1 .. MaxAttempts]
      /\ last_id' \in [Fetcher -> Ids \cup {0}] /\ present' \in [Fetcher -> SUBSET Ids]
  BY <1>1, <1>2, Bounds DEF Types, States
<1>8. \A q \in Fetcher : pc'[q] \in {"page", "finish"} => started'[q] \in 1 .. UpdatedAt'
  BY <1>1, <1>3 DEF Types
<1> QED BY <1>1, <1>3, <1>4, <1>6, <1>7, <1>8 DEF Types

\* metadata.json is written, and the time kept.
LEMMA FetchMetadataTypes ==
    ASSUME Types, NEW p \in Fetcher, FetchMetadata(p)
    PROVE  Types'
<1>1. /\ dir' = [dir EXCEPT !.metadata = UpdatedAt]
      /\ started' = [started EXCEPT ![p] = UpdatedAt]
      /\ pc' = [pc EXCEPT ![p] = "page"]
      /\ attempt' = [attempt EXCEPT ![p] = 1]
      /\ UNCHANGED <<versions, last_id, pages, present, build>>
  BY DEF FetchMetadata
<1>2. UpdatedAt' = UpdatedAt /\ UpdatedAt \in Times  BY <1>1 DEF UpdatedAt, Types
<1>3. UpdatedAt \in Nat /\ UpdatedAt \in 1 .. UpdatedAt  BY <1>2, Bounds DEF Times
<1>4. dir' \in Dirs  BY <1>1, <1>2 DEF Types, Dirs
<1>5. /\ pc' \in [Fetcher -> States] /\ attempt' \in [Fetcher -> 1 .. MaxAttempts]
      /\ started' \in [Fetcher -> Nat]
  BY <1>1, <1>3, Bounds DEF Types, States
<1>6. \A q \in Fetcher : pc'[q] \in {"page", "finish"} => started'[q] \in 1 .. UpdatedAt'
  BY <1>1, <1>2, <1>3 DEF Types
<1> QED BY <1>1, <1>2, <1>4, <1>5, <1>6 DEF Types

\* What a page that was answered changes.
LEMMA FetchPageFacts ==
    ASSUME Types, NEW p \in Fetcher, FetchPage(p), NEW page, page = Answer(last_id[p])
    PROVE  /\ pc[p] = "page" /\ Len(pages[p]) < MaxPages
           /\ dir' = [dir EXCEPT !.pages[Len(pages[p]) + 1] = page]
           /\ pages' = [pages EXCEPT ![p] = Append(pages[p], page)]
           /\ attempt' = [attempt EXCEPT ![p] = 1]
           /\ UNCHANGED <<versions, keyset, started, present, finished, build>>
           /\ page \in SUBSET Ids /\ page \in SUBSET Rows
           /\ \/ /\ pc' = [pc EXCEPT ![p] = "finish"]
                 /\ last_id' = last_id
                 /\ keyset => page = {r \in Rows : r > last_id[p]}
              \/ pc' = [pc EXCEPT ![p] = "stopped"] /\ last_id' = last_id
              \/ /\ pc' = pc
                 /\ last_id' = [last_id EXCEPT ![p] = Max(page)]
                 /\ Max(page) \in page /\ \A r \in page : r <= Max(page)
           /\ keyset => /\ \A r \in page : r > last_id[p]
                        /\ \A a \in page : \A r \in Rows :
                              last_id[p] < r /\ r <= a => r \in page
<1>1. Rows \in SUBSET Ids /\ last_id[p] \in Nat
  <2>1. last_id[p] \in Ids \cup {0}  BY DEF Types
  <2>2. Rows \in SUBSET Ids  BY RowsAreIds DEF Types
  <2>3. \A r \in Ids : r \in Nat  BY Bounds
  <2>4. last_id[p] \in Nat  BY <2>1, <2>3
  <2> QED BY <2>2, <2>4
<1>2. PageAnswered(p, page, page # {} => Max(page) # last_id[p])
  BY DEF FetchPage
<1>3. /\ page \in SUBSET Rows /\ page \in SUBSET Ids
      /\ IsFiniteSet(page) /\ Cardinality(page) \in Nat
      /\ keyset => \A r \in page : r > last_id[p]
      /\ keyset => \A a \in page : \A r \in Rows :
            last_id[p] < r /\ r <= a => r \in page
      /\ keyset /\ Cardinality(page) < PageSize
            => page = {r \in Rows : r > last_id[p]}
  BY <1>1, AnswerFacts
<1>4. /\ pc[p] = "page" /\ Len(pages[p]) < MaxPages
      /\ dir' = [dir EXCEPT !.pages[Len(pages[p]) + 1] = page]
      /\ pages' = [pages EXCEPT ![p] = Append(pages[p], page)]
      /\ attempt' = [attempt EXCEPT ![p] = 1]
      /\ UNCHANGED <<versions, keyset, started, present, finished, build>>
  BY <1>2 DEF PageAnswered
<1>5. CASE Cardinality(page) < PageSize
  <2>1. pc' = [pc EXCEPT ![p] = "finish"] /\ last_id' = last_id
    BY <1>2, <1>5 DEF PageAnswered
  <2> QED BY <1>3, <1>4, <1>5, <2>1
<1>6. CASE ~ (Cardinality(page) < PageSize)
  <2>1. page # {}  BY <1>3, <1>6, FS_EmptySet, Bounds
  <2>2. page \in SUBSET Nat  BY <1>3, Bounds
  <2>3. Max(page) \in page /\ \A r \in page : r <= Max(page)
    BY <1>3, <2>1, <2>2, MaxOfPage
  <2>4. \/ pc' = [pc EXCEPT ![p] = "stopped"] /\ last_id' = last_id
        \/ pc' = pc /\ last_id' = [last_id EXCEPT ![p] = Max(page)]
    BY <1>2, <1>6 DEF PageAnswered
  <2> QED BY <1>3, <1>4, <2>3, <2>4
<1> QED BY <1>5, <1>6

\* A page is written and kept.
LEMMA FetchPageTypes ==
    ASSUME Types, NEW p \in Fetcher, FetchPage(p)
    PROVE  Types'
<1> DEFINE page == Answer(last_id[p])
<1> HIDE DEF page
<1>1. /\ pc[p] = "page" /\ Len(pages[p]) < MaxPages
      /\ dir' = [dir EXCEPT !.pages[Len(pages[p]) + 1] = page]
      /\ pages' = [pages EXCEPT ![p] = Append(pages[p], page)]
      /\ attempt' = [attempt EXCEPT ![p] = 1]
      /\ UNCHANGED <<versions, keyset, started, present, finished, build>>
      /\ page \in SUBSET Ids
      /\ \/ pc' = [pc EXCEPT ![p] = "finish"] /\ last_id' = last_id
         \/ pc' = [pc EXCEPT ![p] = "stopped"] /\ last_id' = last_id
         \/ /\ pc' = pc
            /\ last_id' = [last_id EXCEPT ![p] = Max(page)]
            /\ Max(page) \in page
  BY FetchPageFacts DEF page
<1>2. UpdatedAt' = UpdatedAt  BY <1>1 DEF UpdatedAt
<1>3. dir' \in Dirs
  <2>1. dir \in Dirs /\ dir.pages \in [1 .. MaxPages -> (SUBSET Ids) \cup {NoFile, Torn}]
    BY DEF Types, Dirs
  <2>2. [dir.pages EXCEPT ![Len(pages[p]) + 1] = page]
          \in [1 .. MaxPages -> (SUBSET Ids) \cup {NoFile, Torn}]
    BY <1>1, <2>1
  <2> QED BY <1>1, <2>1, <2>2 DEF Dirs
<1>4. pages' \in [Fetcher -> Seq(SUBSET Ids)] /\ \A q \in Fetcher : Len(pages'[q]) <= MaxPages
  <2>1. pages[p] \in Seq(SUBSET Ids) /\ pages \in [Fetcher -> Seq(SUBSET Ids)]
    BY DEF Types
  <2>2. /\ Append(pages[p], page) \in Seq(SUBSET Ids)
        /\ Len(Append(pages[p], page)) = Len(pages[p]) + 1 /\ Len(pages[p]) \in Nat
    BY <1>1, <2>1
  <2>3. Len(Append(pages[p], page)) <= MaxPages  BY <1>1, <2>2, Bounds
  <2> QED BY <1>1, <2>1, <2>2, <2>3 DEF Types
<1>5. /\ pc' \in [Fetcher -> States] /\ attempt' \in [Fetcher -> 1 .. MaxAttempts]
      /\ last_id' \in [Fetcher -> Ids \cup {0}]
  <2>1. /\ pc \in [Fetcher -> States] /\ attempt \in [Fetcher -> 1 .. MaxAttempts]
        /\ last_id \in [Fetcher -> Ids \cup {0}] /\ 1 \in 1 .. MaxAttempts
    BY Bounds DEF Types
  <2>2. pc' \in [Fetcher -> States]  BY <1>1, <2>1 DEF States
  <2>3. attempt' \in [Fetcher -> 1 .. MaxAttempts]  BY <1>1, <2>1
  <2>4. Max(page) \in page => Max(page) \in Ids  BY <1>1
  <2>5. last_id' \in [Fetcher -> Ids \cup {0}]  BY <1>1, <2>1, <2>4
  <2> QED BY <2>2, <2>3, <2>5
<1>6. \A q \in Fetcher : pc'[q] \in {"page", "finish"} => started'[q] \in 1 .. UpdatedAt'
  <2>1. \A q \in Fetcher : pc'[q] \in {"page", "finish"} => pc[q] \in {"page", "finish"}
    BY <1>1 DEF Types
  <2> QED BY <1>1, <1>2, <2>1 DEF Types
<1> QED BY <1>1, <1>2, <1>3, <1>4, <1>5, <1>6 DEF Types

\* The record that FinishFetch writes.
RecordOf(p) == [pages |-> pages[p], metadata |-> started[p], start |-> started[p],
                end |-> UpdatedAt]

\* fetch.json is written.
LEMMA FinishFetchTypes ==
    ASSUME Types, NEW p \in Fetcher, FinishFetch(p)
    PROVE  Types'
<1>1. /\ pc[p] = "finish"
      /\ dir' = [dir EXCEPT !.fetch_json = RecordOf(p)]
      /\ pc' = [pc EXCEPT ![p] = "done"]
      /\ UNCHANGED <<versions, attempt, last_id, pages, started, present, build>>
  BY DEF FinishFetch, RecordOf
<1>2. UpdatedAt' = UpdatedAt /\ UpdatedAt \in Times  BY <1>1 DEF UpdatedAt, Types
<1>3. started[p] \in Times  BY <1>1, <1>2, Bounds DEF Types, Times
<1>4. RecordOf(p) \in Record  BY <1>2, <1>3 DEF RecordOf, Record, Times, Types
<1>5. dir' \in Dirs  BY <1>1, <1>4 DEF Types, Dirs
<1>6. pc' \in [Fetcher -> States]  BY <1>1 DEF Types, States
<1>7. \A q \in Fetcher : pc'[q] \in {"page", "finish"} => started'[q] \in 1 .. UpdatedAt'
  BY <1>1, <1>2 DEF Types
<1> QED BY <1>1, <1>2, <1>5, <1>6, <1>7 DEF Types

\* A failed fetch is cleared away.
LEMMA RemoveDirTypes ==
    ASSUME Types, RemoveDir
    PROVE  Types'
<1>1. dir' = Empty /\ UNCHANGED <<versions, pc, attempt, last_id, pages, started,
                                  present, build>>
  BY DEF RemoveDir, fetch_vars
<1>2. dir' \in Dirs  BY <1>1, Bounds DEF Empty, Dirs
<1>3. UpdatedAt' = UpdatedAt  BY <1>1 DEF UpdatedAt
<1> QED BY <1>1, <1>2, <1>3 DEF Types

Open == OpenRecord \/ OpenMetadata \/ OpenPage \/ Opened \/ Close

\* A build that opens the directory goes on with the record it read, or stops.
LEMMA OpenFacts ==
    ASSUME Types, Open
    PROVE  /\ UNCHANGED <<versions, keyset, dir, pc, attempt, last_id, pages,
                          started, present, finished>>
           /\ build' \in Builds
           /\ \/ build'.pc = "closed"
              \/ build'.record = dir.fetch_json /\ dir.fetch_json \notin {NoFile, Torn}
              \/ build'.record = build.record /\ build.pc # "closed"
<1>1. dir \in Dirs /\ build \in Builds /\ Closed \in Builds /\ Closed.pc = "closed"
  BY DEF Types, Builds, Closed
<1>2. UNCHANGED <<versions, keyset, dir, pc, attempt, last_id, pages, started, present,
                  finished>>
  BY DEF Open, OpenRecord, OpenMetadata, OpenPage, Opened, Close, Checked, fetch_vars
<1>3. CASE OpenRecord
  <2>1. \/ build' = Closed
        \/ /\ dir.fetch_json \notin {NoFile, Torn}
           /\ build' = [pc |-> "metadata", record |-> dir.fetch_json, next |-> 1]
    BY <1>3 DEF OpenRecord, Checked
  <2> QED BY <1>1, <1>2, <2>1 DEF Dirs, Builds
<1>4. CASE OpenMetadata
  BY <1>1, <1>2, <1>4 DEF OpenMetadata, Checked, Builds
<1>5. CASE OpenPage
  BY <1>1, <1>2, <1>5 DEF OpenPage, Checked, Builds
<1>6. CASE Opened
  BY <1>1, <1>2, <1>6 DEF Opened, Checked, Builds
<1>7. CASE Close
  BY <1>1, <1>2, <1>7 DEF Close, Checked
<1> QED BY <1>3, <1>4, <1>5, <1>6, <1>7 DEF Open

\* A build only reads.
LEMMA OpenTypes ==
    ASSUME Types, Open
    PROVE  Types'
<1>1. UNCHANGED <<versions, dir, pc, attempt, last_id, pages, started, present>>
      /\ build' \in Builds
  BY OpenFacts
<1>2. UpdatedAt' = UpdatedAt  BY <1>1 DEF UpdatedAt
<1> QED BY <1>1, <1>2 DEF Types

----------------------------------------------------------------------------
(* What fetches have is preserved.                                         *)

\* A step that leaves fetch p alone, or stops it, while the rows stay.
LEMMA SoundKept ==
    ASSUME NEW p, Sound(p), keyset' = keyset, UpdatedAt' = UpdatedAt, Rows' = Rows,
           pages'[p] = pages[p], last_id'[p] = last_id[p], started'[p] = started[p],
           present'[p] = present[p],
           pc'[p] = pc[p] \/ pc'[p] \in {"create", "stopped"}
    PROVE  Sound(p)'
<1>1. UnderWay(p)'  BY DEF Sound, UnderWay
<1>2. ASSUME keyset' PROVE Paging(p)' /\ Complete(p)' /\ Disjoint(p)'
  <2>1. Paging(p) /\ Complete(p) /\ Disjoint(p)  BY <1>2 DEF Sound
  <2>2. Paging(p)'  BY <2>1 DEF Paging, Fetched
  <2>3. Complete(p)'  BY <2>1 DEF Complete, Fetched
  <2>4. Disjoint(p)'  BY <2>1 DEF Disjoint
  <2> QED BY <2>2, <2>3, <2>4
<1> QED BY <1>1, <1>2 DEF Sound

\* Rows that come or go: what was in scope throughout shrinks, and a fetch
\* that began before is of an earlier time.
LEMMA SoundWhenChanged ==
    ASSUME Types, NEW p \in Fetcher, Sound(p), keyset' = keyset,
           UpdatedAt' = UpdatedAt + 1,
           pages' = pages, last_id' = last_id, started' = started, pc' = pc,
           pc[p] \in {"metadata", "page"} => present'[p] \subseteq present[p] \cap Rows',
           pc[p] \notin {"metadata", "page"} => present'[p] = present[p]
    PROVE  Sound(p)'
<1>1. UnderWay(p)'  BY DEF Sound, UnderWay
<1>2. pc[p] \in {"page", "finish"} => started'[p] # UpdatedAt'
  <2>1. UpdatedAt \in Nat  BY Bounds DEF Types, Times
  <2>2. pc[p] \in {"page", "finish"} => started[p] \in 1 .. UpdatedAt  BY DEF Types
  <2> QED BY <2>1, <2>2
<1>3. ASSUME keyset' PROVE Paging(p)' /\ Complete(p)' /\ Disjoint(p)'
  <2>1. Paging(p) /\ Complete(p) /\ Disjoint(p)  BY <1>3 DEF Sound
  <2>2. Paging(p)'  BY <1>2, <2>1 DEF Paging, Fetched
  <2>3. Complete(p)'  BY <1>2, <2>1 DEF Complete, Fetched
  <2>4. Disjoint(p)'  BY <2>1 DEF Disjoint
  <2> QED BY <2>2, <2>3, <2>4
<1> QED BY <1>1, <1>3 DEF Sound

\* A fetch that starts has no page, and the rows in scope are those now.
LEMMA CreateDirsSound ==
    ASSUME Types, NEW p \in Fetcher, CreateDirs(p)
    PROVE  Sound(p)'
<1>1. /\ pc'[p] = "metadata" /\ pages'[p] = << >> /\ last_id'[p] = 0
      /\ present'[p] = Rows /\ Rows' = Rows
  BY DEF CreateDirs, Types, Rows
<1>2. UnderWay(p)'  BY <1>1 DEF UnderWay
<1>3. Paging(p)' /\ Complete(p)'  BY <1>1 DEF Paging, Complete
<1>4. Disjoint(p)'  BY <1>1 DEF Disjoint
<1> QED BY <1>2, <1>3, <1>4 DEF Sound

\* No row is up to last id 0.
LEMMA FetchMetadataSound ==
    ASSUME Types, NEW p \in Fetcher, FetchMetadata(p), Sound(p)
    PROVE  Sound(p)'
<1>1. /\ pc[p] = "metadata" /\ pc'[p] = "page" /\ Rows' = Rows
      /\ UNCHANGED <<keyset, pages, last_id, present>>
  BY DEF FetchMetadata, Types, Rows
<1>2. pages[p] = << >> /\ last_id[p] = 0 /\ present[p] \subseteq Rows
  BY <1>1 DEF Sound, UnderWay
<1>3. UnderWay(p)'  BY <1>1, <1>2 DEF UnderWay
<1>4. Fetched(pages[p]) = {}  BY <1>2 DEF Fetched, Range
<1>5. \A r \in Rows : ~ (r <= 0)
  <2>1. Rows \in SUBSET Ids  BY RowsAreIds DEF Types
  <2>2. \A r \in Ids : r \in Nat /\ r # 0  BY Bounds
  <2>3. \A r \in Rows : r \in Nat /\ r # 0  BY <2>1, <2>2
  <2> QED BY <2>3
<1>6. Paging(p)'
  <2>1. Fetched(pages'[p]) = {} /\ last_id'[p] = 0  BY <1>1, <1>2, <1>4
  <2>2. \A r \in present'[p] : ~ (r <= last_id'[p])  BY <1>1, <1>2, <1>5
  <2>3. {r \in Rows' : r <= last_id'[p]} = {}  BY <1>1, <1>2, <1>5
  <2> QED BY <2>1, <2>2, <2>3 DEF Paging
<1>7. Complete(p)' /\ Disjoint(p)'  BY <1>1, <1>2 DEF Complete, Disjoint
<1> QED BY <1>3, <1>6, <1>7 DEF Sound

\* A page has every later row up to its last, and so no row of those before.
LEMMA FetchPageSound ==
    ASSUME Types, NEW p \in Fetcher, FetchPage(p), Sound(p)
    PROVE  Sound(p)'
<1> DEFINE page == Answer(last_id[p])
           ps == pages[p]
           last == last_id[p]
<1> HIDE DEF page
<1>1. /\ pc[p] = "page" /\ keyset' = keyset /\ Rows' = Rows /\ UpdatedAt' = UpdatedAt
      /\ pages'[p] = Append(ps, page) /\ started' = started /\ present' = present
      /\ page \in SUBSET Ids /\ page \in SUBSET Rows
      /\ \/ /\ pc'[p] = "finish"
            /\ keyset => page = {r \in Rows : r > last}
         \/ pc'[p] = "stopped"
         \/ /\ pc'[p] = "page"
            /\ last_id'[p] = Max(page)
            /\ Max(page) \in page /\ \A r \in page : r <= Max(page)
      /\ keyset => /\ \A r \in page : r > last
                   /\ \A a \in page : \A r \in Rows : last < r /\ r <= a => r \in page
  BY FetchPageFacts DEF page, Types, Rows, UpdatedAt
<1>2. /\ ps \in Seq(SUBSET Ids) /\ last \in Nat
      /\ \A r \in Ids : r \in Nat
  <2>1. last_id[p] \in Ids \cup {0}  BY DEF Types
  <2>2. \A r \in Ids : r \in Nat  BY Bounds
  <2> QED BY <2>1, <2>2 DEF Types
<1>3. UnderWay(p)'  BY <1>1 DEF Sound, UnderWay
<1>4. ASSUME keyset PROVE Paging(p)' /\ Complete(p)' /\ Disjoint(p)'
  <2>1. Fetched(Append(ps, page)) = Fetched(ps) \cup page
    BY <1>2, FetchedMore
  <2>2. /\ \A r \in Fetched(ps) : r <= last
        /\ \A r \in present[p] : r <= last => r \in Fetched(ps)
        /\ started[p] = UpdatedAt => Fetched(ps) = {r \in Rows : r <= last}
        /\ present[p] \subseteq Rows
        /\ \A i, j \in DOMAIN ps : i # j => ps[i] \cap ps[j] = {}
    BY <1>1, <1>4 DEF Sound, UnderWay, Paging, Disjoint
  <2>3. \A r \in Rows : r \in Nat
    <3>1. Rows \in SUBSET Ids  BY RowsAreIds DEF Types
    <3> QED BY <1>2, <3>1
  <2>4. Paging(p)'
    <3>1. SUFFICES ASSUME pc'[p] = "page"
          PROVE /\ \A r \in Fetched(ps) \cup page : r <= Max(page)
                /\ \A r \in present[p] : r <= Max(page) => r \in Fetched(ps) \cup page
                /\ started[p] = UpdatedAt =>
                      Fetched(ps) \cup page = {r \in Rows : r <= Max(page)}
      BY <1>1, <2>1 DEF Paging
    <3>2. /\ Max(page) \in page /\ \A r \in page : r <= Max(page)
          /\ \A r \in page : r > last
          /\ \A r \in Rows : last < r /\ r <= Max(page) => r \in page
      BY <1>1, <1>4, <3>1
    <3>3. Max(page) \in Nat /\ last < Max(page) /\ last \in Nat  BY <1>1, <1>2, <3>2
    <3>4. \A r \in Fetched(ps) : r \in Nat
      <4>1. \A r \in Fetched(ps) : r \in Ids  BY <1>2, FetchedMore
      <4> QED BY <1>2, <4>1
    <3>5. \A r \in Rows : r <= Max(page) => r <= last \/ r \in page
      BY <2>3, <3>2, <3>3
    <3>6. \A r \in Fetched(ps) : r <= Max(page)
      <4> TAKE r \in Fetched(ps)
      <4>1. r <= last /\ r \in Nat  BY <2>2, <3>4
      <4> QED BY <3>3, <4>1
    <3>7. \A r \in present[p] : r <= Max(page) => r \in Fetched(ps) \cup page
      BY <2>2, <3>5
    <3>8. ASSUME started[p] = UpdatedAt
          PROVE  Fetched(ps) \cup page = {r \in Rows : r <= Max(page)}
      BY <1>1, <2>2, <3>2, <3>5, <3>6, <3>8
    <3> QED BY <3>2, <3>6, <3>7, <3>8
  <2>5. Complete(p)'
    <3>1. SUFFICES ASSUME pc'[p] = "finish"
          PROVE /\ present[p] \subseteq Fetched(ps) \cup page
                /\ started[p] = UpdatedAt => Fetched(ps) \cup page = Rows
      BY <1>1, <2>1 DEF Complete
    <3>2. page = {r \in Rows : r > last}  BY <1>1, <1>4, <3>1
    <3>3. \A r \in Rows : r <= last \/ r > last  BY <1>2, <2>3
    <3> QED BY <2>2, <3>2, <3>3
  <2>6. Disjoint(p)'
    <3> DEFINE qs == Append(ps, page)
    <3>1. Len(ps) \in Nat /\ DOMAIN ps = 1 .. Len(ps) /\ DOMAIN qs = 1 .. Len(ps) + 1
      BY <1>2
    <3>2. qs[Len(ps) + 1] = page /\ \A i \in 1 .. Len(ps) : qs[i] = ps[i]
      BY <1>2
    <3>3. \A i \in 1 .. Len(ps) : ps[i] \cap page = {}
      <4>1. \A i \in 1 .. Len(ps) : ps[i] \subseteq Fetched(ps)
        BY <1>2, <3>1, FetchedMore
      <4>2. \A r \in Fetched(ps) : r \in page => FALSE
        <5> TAKE r \in Fetched(ps)
        <5> HAVE r \in page
        <5>1. r <= last /\ r > last /\ r \in Nat  BY <1>1, <1>2, <1>4, <2>2
        <5> QED BY <1>2, <5>1
      <4> QED BY <4>1, <4>2
    <3>4. \A i \in 1 .. Len(ps) + 1 : i \in 1 .. Len(ps) \/ i = Len(ps) + 1
      BY <3>1
    <3> HIDE DEF qs
    <3>5. \A i, j \in DOMAIN qs : i # j => qs[i] \cap qs[j] = {}
      <4> TAKE i, j \in DOMAIN qs
      <4> HAVE i # j
      <4>1. CASE i \in 1 .. Len(ps) /\ j \in 1 .. Len(ps)
        BY <2>2, <3>1, <3>2, <4>1
      <4>2. CASE i \in 1 .. Len(ps) /\ j = Len(ps) + 1  BY <3>2, <3>3, <4>2
      <4>3. CASE i = Len(ps) + 1 /\ j \in 1 .. Len(ps)  BY <3>2, <3>3, <4>3
      <4> QED BY <3>1, <3>4, <4>1, <4>2, <4>3
    <3> QED BY <1>1, <3>5 DEF Disjoint, qs
  <2> QED BY <2>4, <2>5, <2>6
<1> QED BY <1>1, <1>3, <1>4 DEF Sound

\* The end of a fetch changes nothing of what it has.
LEMMA FinishFetchSound ==
    ASSUME Types, NEW p \in Fetcher, FinishFetch(p), Sound(p)
    PROVE  Sound(p)'
<1>1. /\ pc[p] = "finish" /\ pc'[p] = "done" /\ Rows' = Rows
      /\ UNCHANGED <<keyset, pages, last_id, present>>
  BY DEF FinishFetch, Types, Rows
<1>2. UnderWay(p)'  BY <1>1 DEF UnderWay
<1>3. ASSUME keyset' PROVE Paging(p)' /\ Complete(p)' /\ Disjoint(p)'
  BY <1>1, <1>3 DEF Sound, Paging, Complete, Disjoint, Fetched
<1> QED BY <1>2, <1>3 DEF Sound

\* A fetch is alone in what it has: a step of fetch p, or of a build, leaves
\* every other one as it was.
LEMMA OthersSound ==
    ASSUME Types, NEW p \in Fetcher, \A q \in Fetcher : Sound(q),
           CreateDirs(p) \/ FetchMetadata(p) \/ FetchPage(p) \/ FinishFetch(p)
    PROVE  /\ \A q \in Fetcher \ {p} : Sound(q)'
           /\ keyset' = keyset /\ versions' = versions
<1>1. UNCHANGED <<versions, keyset>>
  BY DEF CreateDirs, FetchMetadata, FetchPage, PageAnswered, FinishFetch
<1>2. UpdatedAt' = UpdatedAt /\ Rows' = Rows  BY <1>1 DEF UpdatedAt, Rows
<1>3. ASSUME NEW q \in Fetcher \ {p}
      PROVE  /\ pages'[q] = pages[q] /\ last_id'[q] = last_id[q]
             /\ started'[q] = started[q] /\ present'[q] = present[q]
             /\ pc'[q] = pc[q]
  <2>1. CASE CreateDirs(p)  BY <2>1 DEF CreateDirs, Types
  <2>2. CASE FetchMetadata(p)  BY <2>2 DEF FetchMetadata, Types
  <2>3. CASE FetchPage(p)
    <3>1. /\ pages' = [pages EXCEPT ![p] = Append(pages[p], Answer(last_id[p]))]
          /\ UNCHANGED <<started, present>>
          /\ \/ \E s \in {"finish", "stopped"} :
                   pc' = [pc EXCEPT ![p] = s] /\ last_id' = last_id
             \/ /\ pc' = pc
                /\ last_id' = [last_id EXCEPT ![p] = Max(Answer(last_id[p]))]
      BY <2>3, FetchPageFacts
    <3> QED BY <3>1 DEF Types
  <2>4. CASE FinishFetch(p)  BY <2>4 DEF FinishFetch, Types
  <2> QED BY <2>1, <2>2, <2>3, <2>4
<1>4. \A q \in Fetcher \ {p} : Sound(q)'
  <2> TAKE q \in Fetcher \ {p}
  <2>1. Sound(q)  OBVIOUS
  <2> QED BY <1>1, <1>2, <1>3, <2>1, SoundKept
<1> QED BY <1>1, <1>4

----------------------------------------------------------------------------
(* What finished fetches wrote is preserved.                               *)

\* A step that finishes no fetch, changes no row and writes no fetch.json,
\* except that it may tear or remove it.
LEMMA RecordsKept ==
    ASSUME Records, UNCHANGED <<versions, keyset, finished, build>>,
           dir'.fetch_json \in {dir.fetch_json, NoFile, Torn}
    PROVE  Records'
<1>1. UpdatedAt' = UpdatedAt  BY DEF UpdatedAt
<1>2. (keyset => \A f \in finished : Exact(f))'  BY <1>1 DEF Records, Exact
<1>3. OfFinished'  BY DEF Records, OfFinished
<1> QED BY <1>2, <1>3 DEF Records

\* The dataset as it was then does not change with the rows.
LEMMA ChangeRecords ==
    ASSUME Types, Records, Change
    PROVE  Records'
<1>1. /\ UpdatedAt' = UpdatedAt + 1
      /\ \A i \in 1 .. UpdatedAt : versions'[i] = versions[i]
      /\ UNCHANGED <<keyset, dir, finished, build>>
  BY ChangeTypes DEF Change
<1>2. UpdatedAt \in Nat  BY Bounds DEF Types, Times
<1>3. ASSUME keyset', NEW f \in finished PROVE Exact(f)'
  <2>1. Exact(f)  BY <1>1, <1>3 DEF Records
  <2>2. 1 .. UpdatedAt \subseteq 1 .. UpdatedAt'  BY <1>1, <1>2
  <2> QED BY <1>1, <2>1, <2>2 DEF Exact, Fetched
<1>4. OfFinished'  BY <1>1 DEF Records, OfFinished
<1> QED BY <1>1, <1>3, <1>4 DEF Records

\* The record of a fetch that ends is exact, and is what fetch.json now holds.
LEMMA FinishFetchRecords ==
    ASSUME Types, Records, NEW p \in Fetcher, FinishFetch(p), Sound(p)
    PROVE  Records'
<1>0. PICK f : f = [record |-> RecordOf(p), present |-> present[p]]  OBVIOUS
<1>1. /\ pc[p] = "finish"
      /\ dir' = [dir EXCEPT !.fetch_json = RecordOf(p)]
      /\ finished' = finished \cup {f}
      /\ UNCHANGED <<versions, keyset, build>>
  BY <1>0 DEF FinishFetch, RecordOf
<1>2. dir'.fetch_json = RecordOf(p) /\ f.record = RecordOf(p)
  BY <1>0, <1>1 DEF Types, Dirs
<1>3. UpdatedAt' = UpdatedAt /\ UpdatedAt \in Nat
  BY <1>1, Bounds DEF UpdatedAt, Types, Times
<1>4. ASSUME keyset' PROVE Exact(f)'
  <2>1. started[p] = UpdatedAt => Fetched(pages[p]) = versions[UpdatedAt]
    BY <1>1, <1>4 DEF Sound, Complete, Rows, UpdatedAt
  <2>2. started[p] \in 1 .. UpdatedAt  BY <1>1 DEF Types
  <2>3. /\ f.record.start = started[p] /\ f.record.end = UpdatedAt
        /\ f.record.pages = pages[p]
    BY <1>2 DEF RecordOf
  <2>4. SUFFICES f.record.start = f.record.end =>
                   /\ f.record.start \in 1 .. UpdatedAt
                   /\ Fetched(f.record.pages) = versions[f.record.start]
    BY <1>1, <1>3 DEF Exact, Fetched
  <2> QED BY <2>1, <2>2, <2>3
<1>5. ASSUME keyset', NEW g \in finished PROVE Exact(g)'
  BY <1>1, <1>3, <1>5 DEF Records, Exact, Fetched
<1>6. OfFinished'
  <2>1. f \in finished' /\ finished \subseteq finished'  BY <1>1
  <2> QED BY <1>1, <1>2, <2>1 DEF Records, OfFinished
<1>7. \A g \in finished' : g \in finished \/ g = f  BY <1>1
<1> QED BY <1>4, <1>5, <1>6, <1>7 DEF Records

\* A build goes on with a record that was whole when it read it.
LEMMA OpenRecords ==
    ASSUME Types, Records, Open
    PROVE  Records'
<1>1. /\ UNCHANGED <<versions, keyset, dir, finished>>
      /\ \/ build'.pc = "closed"
         \/ build'.record = dir.fetch_json /\ dir.fetch_json \notin {NoFile, Torn}
         \/ build'.record = build.record /\ build.pc # "closed"
  BY OpenFacts
<1>2. UpdatedAt' = UpdatedAt  BY <1>1 DEF UpdatedAt
<1>3. (keyset => \A f \in finished : Exact(f))'  BY <1>1, <1>2 DEF Records, Exact
<1>4. OfFinished'  BY <1>1 DEF Records, OfFinished
<1> QED BY <1>3, <1>4 DEF Records

----------------------------------------------------------------------------
(* Every step preserves the invariant.                                     *)

\* Rows come or go.
LEMMA ChangeInv == ASSUME Inv, Change PROVE Inv'
<1>1. /\ Types' /\ UpdatedAt' = UpdatedAt + 1
      /\ \A p \in Fetcher : pc[p] \in {"metadata", "page"}
           => present'[p] = present[p] \cap Rows'
      /\ \A p \in Fetcher : pc[p] \notin {"metadata", "page"}
           => present'[p] = present[p]
  BY ChangeTypes DEF Inv
<1>2. UNCHANGED <<keyset, pc, pages, last_id, started>>  BY DEF Change
<1>3. \A p \in Fetcher : Sound(p)'
  <2> TAKE p \in Fetcher
  <2>1. Sound(p) /\ Types  BY DEF Inv
  <2> QED BY <1>1, <1>2, <2>1, SoundWhenChanged
<1>4. Records'  BY ChangeRecords DEF Inv
<1> QED BY <1>1, <1>3, <1>4 DEF Inv

\* A step that stops fetches, or none, and leaves what they have.
LEMMA StoppedInv ==
    ASSUME Inv, Types',
           UNCHANGED <<versions, keyset, last_id, pages, started, present,
                       finished, build>>,
           \A q \in Fetcher : pc'[q] = pc[q] \/ pc'[q] \in {"create", "stopped"},
           dir'.fetch_json \in {dir.fetch_json, NoFile, Torn}
    PROVE  Inv'
<1>1. UpdatedAt' = UpdatedAt /\ Rows' = Rows  BY DEF UpdatedAt, Rows
<1>2. \A q \in Fetcher : Sound(q)'
  <2> TAKE q \in Fetcher
  <2>1. Sound(q)  BY DEF Inv
  <2> QED BY <1>1, <2>1, SoundKept
<1>3. Records'  BY RecordsKept DEF Inv
<1> QED BY <1>2, <1>3 DEF Inv

\* A fetch moves on.
LEMMA ProgressInv ==
    ASSUME Inv, NEW p \in Fetcher,
           CreateDirs(p) \/ FetchMetadata(p) \/ FetchPage(p) \/ FinishFetch(p)
    PROVE  Inv'
<1>1. Types /\ Records /\ \A q \in Fetcher : Sound(q)  BY DEF Inv
<1>2. Types'
  BY <1>1, CreateDirsTypes, FetchMetadataTypes, FetchPageTypes, FinishFetchTypes
<1>3. Sound(p)'
  BY <1>1, CreateDirsSound, FetchMetadataSound, FetchPageSound, FinishFetchSound
<1>4. (\A q \in Fetcher \ {p} : Sound(q)') /\ keyset' = keyset /\ versions' = versions
  BY <1>1, OthersSound
<1>5. \A q \in Fetcher : Sound(q)'  BY <1>3, <1>4
<1>6. Records'
  <2>1. CASE FinishFetch(p)  BY <1>1, <2>1, FinishFetchRecords
  <2>2. CASE CreateDirs(p) \/ FetchMetadata(p)
    <3>1. dir'.fetch_json = dir.fetch_json /\ UNCHANGED <<finished, build>>
      BY <1>1, <2>2 DEF CreateDirs, FetchMetadata, Types, Dirs
    <3> QED BY <1>1, <1>4, <3>1, RecordsKept
  <2>3. CASE FetchPage(p)
    <3>1. dir' = [dir EXCEPT !.pages[Len(pages[p]) + 1] = Answer(last_id[p])]
          /\ UNCHANGED <<finished, build>>
      BY <2>3 DEF FetchPage, PageAnswered
    <3>2. dir'.fetch_json = dir.fetch_json  BY <1>1, <3>1 DEF Types, Dirs
    <3> QED BY <1>1, <1>4, <3>1, <3>2, RecordsKept
  <2> QED BY <2>1, <2>2, <2>3
<1> QED BY <1>2, <1>5, <1>6 DEF Inv

\* A build opens the directory, or goes on to.
LEMMA OpenInv == ASSUME Inv, Open PROVE Inv'
<1>1. UNCHANGED <<versions, keyset, pc, last_id, pages, started, present>>
  BY OpenFacts DEF Inv
<1>2. UpdatedAt' = UpdatedAt /\ Rows' = Rows  BY <1>1 DEF UpdatedAt, Rows
<1>3. \A q \in Fetcher : Sound(q)'
  <2> TAKE q \in Fetcher
  <2>1. Sound(q)  BY DEF Inv
  <2> QED BY <1>1, <1>2, <2>1, SoundKept
<1> QED BY <1>3, OpenTypes, OpenRecords DEF Inv

\* Nothing happens.
LEMMA StutterInv == ASSUME Inv, UNCHANGED vars PROVE Inv'
<1>1. UNCHANGED <<versions, keyset, dir, pc, attempt, last_id, pages, started,
                  present, finished, build>>
  BY DEF vars, fetch_vars
<1>2. Types'  BY <1>1 DEF Inv, Types, UpdatedAt
<1> QED BY <1>1, <1>2, StoppedInv

\* The invariant is inductive.
LEMMA NextInv == Inv /\ [Next]_vars => Inv'
<1> SUFFICES ASSUME Inv, [Next]_vars PROVE Inv'  OBVIOUS
<1>1. CASE Change  BY <1>1, ChangeInv
<1>2. CASE RemoveDir
  <2>1. Types'  BY <1>2, RemoveDirTypes DEF Inv
  <2>2. UNCHANGED <<versions, keyset, pc, last_id, pages, started, present,
                    finished, build>>
        /\ dir'.fetch_json = NoFile
    BY <1>2 DEF RemoveDir, fetch_vars, Empty
  <2> QED BY <2>1, <2>2, StoppedInv
<1>3. ASSUME NEW p \in Fetcher, Begin(p) \/ Transient(p) \/ Fatal(p) PROVE Inv'
  <2>1. Types  BY DEF Inv
  <2> QED BY <1>3, <2>1, ControlTypes, StoppedInv
<1>4. ASSUME NEW p \in Fetcher, Crash(p) PROVE Inv'
  <2>1. Types  BY DEF Inv
  <2> QED BY <1>4, <2>1, CrashTypes, StoppedInv
<1>5. ASSUME NEW p \in Fetcher,
             CreateDirs(p) \/ FetchMetadata(p) \/ FetchPage(p) \/ FinishFetch(p)
      PROVE  Inv'
  BY <1>5, ProgressInv
<1>6. CASE Open  BY <1>6, OpenInv
<1>7. CASE UNCHANGED vars  BY <1>7, StutterInv
<1> QED BY <1>1, <1>2, <1>3, <1>4, <1>5, <1>6, <1>7 DEF Next, Step, Open

----------------------------------------------------------------------------
(* What the invariant says.                                                *)

\* The types of the invariant are those the runs check.
LEMMA TypesAreOK == Types => TypeOK
<1> SUFFICES ASSUME Types PROVE TypeOK  OBVIOUS
<1>1. /\ dir \in Dirs
      /\ pc \in [Fetcher -> States] /\ attempt \in [Fetcher -> 1 .. MaxAttempts]
      /\ last_id \in [Fetcher -> Ids \cup {0}] /\ present \in [Fetcher -> SUBSET Ids]
      /\ build \in Builds
  BY DEF Types
<1>2. dir.pages \in [1 .. MaxPages -> (SUBSET Ids) \cup {NoFile, Torn}]
  BY <1>1 DEF Dirs
<1>3. \A i \in 1 .. MaxPages : dir.pages[i] \in {NoFile, Torn} \/ dir.pages[i] \subseteq Ids
  <2> TAKE i \in 1 .. MaxPages
  <2>1. dir.pages[i] \in (SUBSET Ids) \cup {NoFile, Torn}  BY <1>2
  <2> QED BY <2>1
<1>4. /\ dir.made \in BOOLEAN /\ dir.metadata \in Times \cup {NoFile, Torn}
      /\ dir.fetch_json \in {NoFile, Torn} \/ dir.fetch_json \in Record
  BY <1>1 DEF Dirs
<1>5. build.pc \in {"closed", "metadata", "pages", "open"}  BY <1>1 DEF Builds
<1>6. \A p \in Fetcher :
        /\ pc[p] \in States /\ attempt[p] \in 1 .. MaxAttempts
        /\ last_id[p] \in Ids \cup {0} /\ present[p] \subseteq Ids
        /\ pages[p] \in Seq(SUBSET Ids) /\ Len(pages[p]) <= MaxPages
  BY <1>1 DEF Types
<1>7. versions \in Seq(SUBSET Ids) /\ UpdatedAt \in Times  BY DEF Types
<1> QED BY <1>3, <1>4, <1>5, <1>6, <1>7 DEF TypeOK, Times, States

\* The invariant has every safety property of a fetch from Socrata.
LEMMA InvGuarantees ==
    ASSUME Inv
    PROVE  TypeOK /\ NothingSkipped /\ NothingRepeated /\ QuietFetchIsExact
              /\ OpenedIsOneFetch
<1>1. TypeOK  BY TypesAreOK DEF Inv
<1>2. NothingSkipped
  BY DEF Inv, Sound, UnderWay, Paging, Complete, NothingSkipped
<1>3. NothingRepeated  BY DEF Inv, Sound, Disjoint, NothingRepeated
<1>4. QuietFetchIsExact  BY DEF Inv, Records, Exact, QuietFetchIsExact
<1>5. OpenedIsOneFetch  BY DEF Inv, Records, OfFinished, OpenedIsOneFetch
<1> QED BY <1>1, <1>2, <1>3, <1>4, <1>5

\* However the portal's rows change, requests fail and processes die, and
\* whoever else fetches into the directory: a fetch from Socrata skips and
\* repeats no row, is the dataset of one time if nothing changed, and a build
\* opens one fetch, whole.
THEOREM SocrataFetchIsSound ==
    Spec => [](/\ TypeOK /\ NothingSkipped /\ NothingRepeated
               /\ QuietFetchIsExact /\ OpenedIsOneFetch)
<1>1. Spec => []Inv  BY InitInv, NextInv, PTL DEF Spec
<1>2. Inv => /\ TypeOK /\ NothingSkipped /\ NothingRepeated
             /\ QuietFetchIsExact /\ OpenedIsOneFetch
  BY InvGuarantees
<1> QED BY <1>1, <1>2, PTL

----------------------------------------------------------------------------
(* The order of requests.  FirstOf(S, n) are those before place n.         *)

\* Requests that come push others back; none comes to be before place n.
LEMMA FirstWhenAdded ==
    ASSUME NEW S \in SUBSET Nat, IsFiniteSet(S), NEW x \in Nat, NEW n \in Nat
    PROVE  FirstOf(S \cup {x}, n) \cap S \subseteq FirstOf(S, n)
<1> SUFFICES ASSUME NEW r \in S, r \in FirstOf(S \cup {x}, n) PROVE r \in FirstOf(S, n)
  OBVIOUS
<1> DEFINE A == {q \in S : q < r}
           B == {q \in S \cup {x} : q < r}
<1>1. Cardinality(B) < n  BY DEF FirstOf
<1>2. A \subseteq B /\ B \subseteq S \cup {x} /\ IsFiniteSet(S \cup {x})
  BY FS_AddElement
<1> SUFFICES Cardinality(A) < n  BY DEF FirstOf
<1> HIDE DEF A, B
<1>3. IsFiniteSet(B) /\ IsFiniteSet(A) /\ Cardinality(A) <= Cardinality(B)
  BY <1>2, FS_Subset
<1>4. Cardinality(A) \in Nat /\ Cardinality(B) \in Nat  BY <1>3, FS_CardinalityType
<1> QED BY <1>1, <1>3, <1>4

\* Of two requests the earlier has the lower place.
LEMMA PlacesAreDistinct ==
    ASSUME NEW S \in SUBSET Nat, IsFiniteSet(S), NEW q \in S, NEW r \in S, q < r
    PROVE  Before(q, S) \in Nat /\ Before(r, S) \in Nat /\ Before(q, S) < Before(r, S)
<1> DEFINE A == {x \in S : x < q}
           B == {x \in S : x < r}
<1>1. A \cup {q} \subseteq B /\ q \notin A /\ A \subseteq S /\ B \subseteq S
  <2>1. q \in Nat /\ r \in Nat /\ \A x \in S : x \in Nat  OBVIOUS
  <2>2. \A x \in S : x < q => x < r  BY <2>1
  <2>3. ~ (q < q)  BY <2>1
  <2> QED BY <2>2, <2>3
<1>2. Before(q, S) = Cardinality(A) /\ Before(r, S) = Cardinality(B)  BY DEF Before
<1> HIDE DEF A, B
<1>3. IsFiniteSet(A) /\ IsFiniteSet(B)  BY <1>1, FS_Subset
<1>4. Cardinality(A) \in Nat /\ Cardinality(B) \in Nat  BY <1>3, FS_CardinalityType
<1>5. Cardinality(A \cup {q}) = Cardinality(A) + 1  BY <1>1, <1>3, FS_AddElement
<1>6. Cardinality(A \cup {q}) <= Cardinality(B)  BY <1>1, <1>3, FS_Subset
<1> QED BY <1>2, <1>4, <1>5, <1>6

\* One that goes brings at most one to be before place n.
LEMMA FirstWhenRemoved ==
    ASSUME NEW S \in SUBSET Nat, IsFiniteSet(S), NEW x \in S, NEW n \in Nat
    PROVE  \E y : FirstOf(S \ {x}, n) \subseteq FirstOf(S, n) \cup {y}
<1> DEFINE T == FirstOf(S \ {x}, n) \ FirstOf(S, n)
<1>1. ASSUME NEW r \in T PROVE r \in S /\ Before(r, S) = n
  <2> DEFINE A == {q \in S : q < r}
             B == {q \in S \ {x} : q < r}
  <2>1. r \in S /\ Cardinality(B) < n /\ ~ (Cardinality(A) < n)  BY DEF FirstOf
  <2>2. A \subseteq B \cup {x} /\ B \subseteq S /\ A \subseteq S /\ x \notin B  OBVIOUS
  <2>3. Before(r, S) = Cardinality(A)  BY DEF Before
  <2> HIDE DEF A, B, T
  <2>4. IsFiniteSet(A) /\ IsFiniteSet(B)  BY <2>2, FS_Subset
  <2>5. IsFiniteSet(B \cup {x}) /\ Cardinality(B \cup {x}) = Cardinality(B) + 1
    BY <2>2, <2>4, FS_AddElement
  <2>6. Cardinality(A) <= Cardinality(B \cup {x})  BY <2>2, <2>5, FS_Subset
  <2>7. Cardinality(A) \in Nat /\ Cardinality(B) \in Nat  BY <2>4, FS_CardinalityType
  <2> QED BY <2>1, <2>3, <2>5, <2>6, <2>7
<1>2. \A q, r \in T : q = r
  <2> SUFFICES ASSUME NEW q \in T, NEW r \in T, q # r PROVE FALSE  OBVIOUS
  <2> HIDE DEF T
  <2>1. q \in S /\ r \in S /\ Before(q, S) = n /\ Before(r, S) = n  BY <1>1
  <2>2. q < r \/ r < q  BY <2>1
  <2>3. CASE q < r  BY <2>1, <2>3, PlacesAreDistinct
  <2>4. CASE r < q  BY <2>1, <2>4, PlacesAreDistinct
  <2> QED BY <2>2, <2>3, <2>4
<1>3. PICK y : \A r \in T : r = y
  <2>1. CASE T = {}  BY <2>1
  <2>2. CASE T # {}
    <3> HIDE DEF T
    <3> QED BY <1>2, <2>2
  <2> QED BY <2>1, <2>2
<1> QED BY <1>3

\* The pages of `size` cover the places in turn.
LEMMA ChunkIsNext ==
    ASSUME NEW S \in SUBSET Nat, IsFiniteSet(S), NEW i \in Nat, i >= 1,
           NEW size \in Nat
    PROVE  /\ size * i \in Nat /\ size * (i - 1) \in Nat
           /\ FirstOf(S, size * i) \subseteq FirstOf(S, size * (i - 1)) \cup Chunk(S, i, size)
<1>1. size * i \in Nat /\ size * (i - 1) \in Nat  OBVIOUS
<1> DEFINE m == size * i
           k == size * (i - 1)
<1>2. ASSUME NEW r \in FirstOf(S, m), r \notin FirstOf(S, k) PROVE r \in Chunk(S, i, size)
  <2>1. r \in S /\ Before(r, S) < m /\ ~ (Before(r, S) < k)
    BY <1>2 DEF FirstOf, Before
  <2>2. Before(r, S) \in Nat
    <3> DEFINE A == {q \in S : q < r}
    <3>1. A \subseteq S  OBVIOUS
    <3>2. Before(r, S) = Cardinality(A)  BY DEF Before
    <3> HIDE DEF A
    <3> QED BY <3>1, <3>2, FS_Subset, FS_CardinalityType
  <2> HIDE DEF m, k
  <2>3. m \in Nat /\ k \in Nat  BY <1>1 DEF m, k
  <2>4. Before(r, S) \in k .. m - 1  BY <2>1, <2>2, <2>3
  <2> QED BY <2>1, <2>4 DEF Chunk, m, k
<1> QED BY <1>1, <1>2

\* After the last place there is nothing more ...
LEMMA AllWithin ==
    ASSUME NEW S \in SUBSET Nat, IsFiniteSet(S), NEW n \in Nat, Cardinality(S) <= n
    PROVE  FirstOf(S, n) = S
<1>1. ASSUME NEW r \in S PROVE Before(r, S) < n
  <2> DEFINE A == {q \in S : q < r}
  <2>1. A \subseteq S /\ A # S
    <3>1. r \in Nat /\ ~ (r < r)  OBVIOUS
    <3> QED BY <3>1
  <2>2. Before(r, S) = Cardinality(A)  BY DEF Before
  <2> HIDE DEF A
  <2>3. IsFiniteSet(A) /\ Cardinality(A) <= Cardinality(S) /\ Cardinality(A) # Cardinality(S)
    BY <2>1, FS_Subset
  <2>4. Cardinality(A) \in Nat /\ Cardinality(S) \in Nat  BY <2>3, FS_CardinalityType
  <2> QED BY <2>2, <2>3, <2>4
<1> QED BY <1>1 DEF FirstOf, Before

\* ... nor after a page that is empty: places have no gap.
LEMMA NothingAfterEmpty ==
    ASSUME NEW S \in SUBSET Nat, IsFiniteSet(S), NEW i \in Nat, i >= 1,
           NEW size \in Nat, size > 0, Chunk(S, i, size) = {}
    PROVE  FirstOf(S, size * (i - 1)) = S
<1> DEFINE k == size * (i - 1)
           Late == {r \in S : Before(r, S) >= k}
<1>1. k \in Nat /\ size * i = k + size  OBVIOUS
<1>2. \A r \in S : Before(r, S) \in Nat
  <2> TAKE r \in S
  <2> DEFINE A == {q \in S : q < r}
  <2>1. A \subseteq S  OBVIOUS
  <2>2. Before(r, S) = Cardinality(A)  BY DEF Before
  <2> HIDE DEF A
  <2> QED BY <2>1, <2>2, FS_Subset, FS_CardinalityType
<1>3. Late = {}
  <2> SUFFICES ASSUME Late # {} PROVE FALSE  OBVIOUS
  <2>1. PICK m \in Late : \A x \in Late : m <= x
    <3>1. Late \in SUBSET Nat  OBVIOUS
    <3> HIDE DEF Late
    <3> QED BY <3>1, LeastElement
  <2> DEFINE A == {q \in S : q < m}
  <2>2. m \in S /\ m \in Nat /\ Before(m, S) >= k /\ Before(m, S) = Cardinality(A)
    BY DEF Before
  <2>3. \A q \in A : q \in S /\ q < m /\ q \in Nat  OBVIOUS
  <2>4. A \subseteq S /\ A \in SUBSET Nat  OBVIOUS
  <2>5. \A q \in A : Before(q, S) < k
    <3> TAKE q \in A
    <3>1. q \notin Late  BY <2>1, <2>2, <2>3
    <3> HIDE DEF k
    <3> QED BY <1>1, <1>2, <2>3, <3>1
  <2> HIDE DEF A, k, Late
  <2>6. IsFiniteSet(A)  BY <2>4, FS_Subset
  <2>7. Cardinality(A) <= k
    <3>1. CASE A = {}  BY <1>1, <3>1, FS_EmptySet
    <3>2. CASE A # {}
      <4>1. PICK q \in A : \A x \in A : x <= q  BY <2>4, <2>6, <3>2, GreatestElement
      <4> DEFINE B == {x \in S : x < q}
      <4>2. A \subseteq B \cup {q} /\ B \subseteq S /\ q \notin B
        <5>1. \A x \in A : x < q \/ x = q  BY <2>3, <4>1
        <5>2. ~ (q < q)  BY <2>3
        <5> QED BY <2>4, <5>1, <5>2
      <4>3. Before(q, S) = Cardinality(B)  BY DEF Before
      <4> HIDE DEF B
      <4>4. IsFiniteSet(B) /\ Cardinality(B) < k  BY <2>5, <4>2, <4>3, FS_Subset
      <4>5. IsFiniteSet(B \cup {q}) /\ Cardinality(B \cup {q}) = Cardinality(B) + 1
        BY <4>2, <4>4, FS_AddElement
      <4>6. Cardinality(A) <= Cardinality(B \cup {q})  BY <4>2, <4>5, FS_Subset
      <4>7. Cardinality(B) \in Nat /\ Cardinality(A) \in Nat
        BY <2>6, <4>4, FS_CardinalityType
      <4> QED BY <1>1, <4>4, <4>5, <4>6, <4>7
    <3> QED BY <3>1, <3>2
  <2>8. Before(m, S) = k  BY <1>1, <1>2, <2>2, <2>7
  <2>9. k \in k .. (k + size) - 1  BY <1>1
  <2>10. m \in Chunk(S, i, size)  BY <1>1, <2>2, <2>8, <2>9 DEF Chunk, k
  <2> QED BY <2>10
<1>4. \A r \in S : Before(r, S) < k
  <2> HIDE DEF k
  <2> QED BY <1>1, <1>2, <1>3
<1> QED BY <1>4 DEF FirstOf, Before

----------------------------------------------------------------------------
(* The invariant, with SeeClickFix.                                        *)

ScfStates == {"idle", "create", "page", "write", "describe", "finish", "stopped",
              "done"}

ScfFetches ==
    [pc : ScfStates, attempt : Nat, page : Nat \ {0}, responses : Seq(SUBSET Ids),
     seen : SUBSET Ids, kept : SUBSET Ids, skipped : Nat, duplicates : Nat,
     started : Times, written : Nat, present : SUBSET Ids, removals : Nat]

\* There is a raw page to write, unless there is nothing to keep.
Writing(s) ==
    /\ s.pc = "page" => s.written = 0
    /\ s.pc = "write" /\ s.kept # {} => s.written < Len(RawPages(s))

\* Requests there throughout, on the pages asked for so far, not answered.
Missed(s) ==
    (s.present \cap FirstOf(Rows, PageSize * (s.page - 1))) \ s.seen

\* They are at most as many as went, while the fetch pages and after it.
FewLost(s) ==
    keyset =>
        /\ s.pc = "page" => s.present \subseteq Rows
                              /\ Cardinality(Missed(s)) <= s.removals
        /\ s.pc \in {"write", "describe", "finish", "done"} =>
              Cardinality(s.present \ s.seen) <= s.removals

\* Nobody fetches from the other source.
OneSource ==
    /\ source = "nyc311" => \A p \in Fetcher : scf[p].pc = "idle"
    /\ source = "westchester" => \A p \in Fetcher : pc[p] = "idle"

ScfInv ==
    /\ OneSource
    /\ scf \in [Fetcher -> ScfFetches]
    /\ \A p \in Fetcher : Writing(scf[p]) /\ FewLost(scf[p])

\* Sets of requests are finite.
LEMMA FiniteIds ==
    /\ IsFiniteSet(Ids) /\ Ids \in SUBSET Nat
    /\ \A S \in SUBSET Ids : IsFiniteSet(S) /\ Cardinality(S) \in Nat
<1>1. IsFiniteSet(Ids) /\ Ids \in SUBSET Nat  BY RawFetchAssumption
<1> QED BY <1>1, FS_Subset, FS_CardinalityType

\* Before anything was fetched.
LEMMA ScfInit == InitFetch => Inv /\ ScfInv
<1> SUFFICES ASSUME InitFetch PROVE Inv /\ ScfInv  OBVIOUS
<1>1. Inv  BY InitInv DEF InitFetch
<1>2. scf = [p \in Fetcher |-> Fresh("idle", {})]
      /\ \A p \in Fetcher : pc[p] = "idle"
  BY DEF InitFetch, Init
<1>3. Fresh("idle", {}) \in ScfFetches /\ Fresh("idle", {}).pc = "idle"
  <2>1. UpdatedAt \in Times  BY <1>1 DEF Inv, Types
  <2> QED BY <2>1 DEF Fresh, ScfFetches, ScfStates
<1>4. ScfInv
  <2>1. scf \in [Fetcher -> ScfFetches] /\ \A p \in Fetcher : scf[p].pc = "idle"
    BY <1>2, <1>3
  <2> QED BY <1>2, <2>1 DEF ScfInv, OneSource, Writing, FewLost
<1> QED BY <1>1, <1>4

----------------------------------------------------------------------------
(* One fetch from SeeClickFix moves on.                                    *)

\* The others, the portal and the invariant of the directory as they were.
LEMMA OneMoves ==
    ASSUME ScfInv, source = "westchester",
           NEW p \in Fetcher, NEW s \in ScfFetches, scf' = [scf EXCEPT ![p] = s],
           UNCHANGED <<versions, keyset, pc, source>>, Writing(s), FewLost(s)
    PROVE  ScfInv'
<1>1. Rows' = Rows  BY DEF Rows
<1>2. scf' \in [Fetcher -> ScfFetches] /\ scf'[p] = s
      /\ \A q \in Fetcher \ {p} : scf'[q] = scf[q]
  BY DEF ScfInv
<1>3. OneSource'  BY DEF ScfInv, OneSource
<1>4. ASSUME NEW q \in Fetcher, NEW t, scf'[q] = t, Writing(t), FewLost(t)
      PROVE  (Writing(scf[q]) /\ FewLost(scf[q]))'
  <2>1. Writing(scf'[q])  BY <1>4
  <2>2. FewLost(scf[q])'  BY <1>1, <1>4 DEF FewLost, Missed
  <2> QED BY <2>1, <2>2 DEF Writing, RawPages
<1>5. \A q \in Fetcher \ {p} : Writing(scf[q]) /\ FewLost(scf[q])  BY DEF ScfInv
<1>6. \A q \in Fetcher : (Writing(scf[q]) /\ FewLost(scf[q]))'
  <2> TAKE q \in Fetcher
  <2>1. CASE q = p  BY <1>2, <1>4, <2>1
  <2>2. CASE q # p  BY <1>2, <1>4, <1>5, <2>2
  <2> QED BY <2>1, <2>2
<1> QED BY <1>2, <1>3, <1>6 DEF ScfInv

\* One that stops, or is about to begin, has nothing to be sound.
LEMMA AtRest ==
    ASSUME NEW s, s.pc \in {"idle", "create", "stopped"}
    PROVE  Writing(s) /\ FewLost(s)
  BY DEF Writing, FewLost

\* What a response changes.
LEMMA TakeFacts ==
    ASSUME NEW s \in ScfFetches, NEW answer \in SUBSET Ids
    PROVE  /\ Take(s, answer) \in ScfFetches
           /\ Take(s, answer).seen = s.seen \cup answer
           /\ \A f \in {"pc", "attempt", "page", "responses", "started", "written",
                        "present", "removals"} : Take(s, answer)[f] = s[f]
<1> DEFINE fresh == answer \ s.seen
<1>1. /\ s.seen \in SUBSET Ids /\ s.kept \in SUBSET Ids
      /\ s.skipped \in Nat /\ s.duplicates \in Nat
  BY DEF ScfFetches
<1>2. /\ Cardinality(fresh \cap outside) \in Nat
      /\ Cardinality(answer \cap s.seen) \in Nat
  <2>1. fresh \cap outside \in SUBSET Ids /\ answer \cap s.seen \in SUBSET Ids  OBVIOUS
  <2> HIDE DEF fresh
  <2> QED BY <2>1, FiniteIds
<1>3. /\ s.seen \cup fresh \in SUBSET Ids /\ s.kept \cup (fresh \ outside) \in SUBSET Ids
      /\ s.seen \cup fresh = s.seen \cup answer
  BY <1>1
<1>4. Take(s, answer) =
        [s EXCEPT !.seen = s.seen \cup fresh,
                  !.kept = s.kept \cup (fresh \ outside),
                  !.skipped = s.skipped + Cardinality(fresh \cap outside),
                  !.duplicates = s.duplicates + Cardinality(answer \cap s.seen)]
  BY DEF Take
<1> HIDE DEF fresh
<1>5. Take(s, answer) \in ScfFetches
  <2>1. PICK c \in Nat, d \in Nat : /\ c = s.skipped + Cardinality(fresh \cap outside)
                                 /\ d = s.duplicates + Cardinality(answer \cap s.seen)
    BY <1>1, <1>2
  <2>2. PICK a \in SUBSET Ids, b \in SUBSET Ids : /\ a = s.seen \cup fresh
                                               /\ b = s.kept \cup (fresh \ outside)
    BY <1>3
  <2>3. Take(s, answer)
          = [s EXCEPT !.seen = a, !.kept = b, !.skipped = c, !.duplicates = d]
    BY <1>4, <2>1, <2>2
  <2> QED BY <2>3 DEF ScfFetches
<1>6. Take(s, answer).seen = s.seen \cup answer  BY <1>3, <1>4 DEF ScfFetches
<1>7. /\ Take(s, answer).pc = s.pc /\ Take(s, answer).attempt = s.attempt
      /\ Take(s, answer).page = s.page /\ Take(s, answer).responses = s.responses
      /\ Take(s, answer).started = s.started /\ Take(s, answer).written = s.written
      /\ Take(s, answer).present = s.present
      /\ Take(s, answer).removals = s.removals
  BY <1>4 DEF ScfFetches
<1> QED BY <1>5, <1>6, <1>7

\* A response with more to come: the requests of the pages asked for so far
\* were answered, or missed before.
LEMMA MoreToCome ==
    ASSUME Types, keyset, NEW s \in ScfFetches, s.pc = "page", FewLost(s),
           NEW t \in ScfFetches, t.pc = "page", t.page = s.page + 1,
           t.seen = s.seen \cup Chunk(Rows, s.page, PageSize),
           t.present = s.present, t.removals = s.removals
    PROVE  FewLost(t)
<1>1. Rows \in SUBSET Nat /\ IsFiniteSet(Rows)
  <2>1. Rows \in SUBSET Ids  BY RowsAreIds DEF Types
  <2> QED BY <2>1, FiniteIds
<1>2. s.page \in Nat /\ s.page >= 1 /\ PageSize \in Nat  BY Bounds DEF ScfFetches
<1>3. t.page - 1 = s.page  BY <1>2
<1>4. FirstOf(Rows, PageSize * s.page)
        \subseteq FirstOf(Rows, PageSize * (s.page - 1)) \cup Chunk(Rows, s.page, PageSize)
  BY <1>1, <1>2, ChunkIsNext
<1>5. Missed(t) \subseteq Missed(s)  BY <1>3, <1>4 DEF Missed
<1>6. s.present \in SUBSET Ids /\ s.removals \in Nat  BY DEF ScfFetches
<1>7. Missed(s) \in SUBSET Ids  BY <1>6 DEF Missed
<1>8. Cardinality(Missed(t)) <= Cardinality(Missed(s))
      /\ Cardinality(Missed(t)) \in Nat /\ Cardinality(Missed(s)) \in Nat
  BY <1>5, <1>7, FiniteIds, FS_Subset
<1> QED BY <1>6, <1>8 DEF FewLost

\* The last response: there is no request after the pages asked for.
LEMMA NoMoreToCome ==
    ASSUME Types, keyset, NEW s \in ScfFetches, s.pc = "page", FewLost(s),
           NEW t \in ScfFetches, t.pc = "write",
           t.seen = s.seen \cup Chunk(Rows, s.page, PageSize),
           t.present = s.present, t.removals = s.removals,
           ~ NextPage(s.page) \/ Chunk(Rows, s.page, PageSize) = {}
    PROVE  FewLost(t)
<1>1. Rows \in SUBSET Nat /\ IsFiniteSet(Rows)
  <2>1. Rows \in SUBSET Ids  BY RowsAreIds DEF Types
  <2> QED BY <2>1, FiniteIds
<1>2. s.page \in Nat /\ s.page >= 1 /\ PageSize \in Nat /\ PageSize > 0
  BY Bounds DEF ScfFetches
<1>3. /\ FirstOf(Rows, PageSize * s.page) \subseteq
           FirstOf(Rows, PageSize * (s.page - 1)) \cup Chunk(Rows, s.page, PageSize)
      /\ PageSize * s.page \in Nat
  BY <1>1, <1>2, ChunkIsNext
<1>4. Rows \subseteq FirstOf(Rows, PageSize * (s.page - 1)) \cup Chunk(Rows, s.page, PageSize)
  <2>1. CASE ~ NextPage(s.page)
    <3>1. ~ (Cardinality(Rows) > PageSize * s.page)  BY <2>1 DEF NextPage, Asked
    <3>2. Cardinality(Rows) \in Nat  BY <1>1, FS_CardinalityType
    <3>3. Cardinality(Rows) <= PageSize * s.page  BY <1>3, <3>1, <3>2
    <3>4. FirstOf(Rows, PageSize * s.page) = Rows  BY <1>1, <1>3, <3>3, AllWithin
    <3> QED BY <1>3, <3>4
  <2>2. CASE Chunk(Rows, s.page, PageSize) = {}
    BY <1>1, <1>2, <2>2, NothingAfterEmpty
  <2> QED BY <2>1, <2>2
<1>5. s.present \in SUBSET Ids /\ s.removals \in Nat /\ s.present \subseteq Rows
      /\ Cardinality(Missed(s)) <= s.removals
  BY DEF ScfFetches, FewLost
<1>6. t.present \ t.seen \subseteq Missed(s)  BY <1>4, <1>5 DEF Missed
<1>7. Missed(s) \in SUBSET Ids  BY <1>5 DEF Missed
<1> DEFINE lost == t.present \ t.seen
<1> HIDE DEF lost
<1>8. lost \subseteq Missed(s)  BY <1>6 DEF lost
<1>9. Cardinality(lost) <= Cardinality(Missed(s))
      /\ Cardinality(lost) \in Nat /\ Cardinality(Missed(s)) \in Nat
  BY <1>7, <1>8, FiniteIds, FS_Subset
<1>10. Cardinality(lost) <= t.removals  BY <1>5, <1>9
<1> QED BY <1>10 DEF FewLost, lost

\* The raw pages of the records kept.
LEMMA RawPagesTypes ==
    ASSUME NEW s \in ScfFetches
    PROVE  /\ RawPages(s) \in Seq(SUBSET Ids) /\ Len(RawPages(s)) \in Nat
           /\ s.kept # {} => Len(RawPages(s)) >= 1
           /\ \A i \in 1 .. Len(RawPages(s)) : RawPages(s)[i] \in SUBSET Ids
<1> DEFINE n == (Cardinality(s.kept) + RecordsPerPage - 1) \div RecordsPerPage
<1>1. /\ s.kept \in SUBSET Ids /\ Cardinality(s.kept) \in Nat
      /\ s.kept # {} => Cardinality(s.kept) > 0
  <2>1. s.kept \in SUBSET Ids  BY DEF ScfFetches
  <2>2. IsFiniteSet(s.kept) /\ Cardinality(s.kept) \in Nat  BY <2>1, FiniteIds
  <2>3. s.kept # {} => Cardinality(s.kept) # 0  BY <2>2, FS_EmptySet
  <2> QED BY <2>1, <2>2, <2>3
<1>2. RecordsPerPage \in Nat /\ RecordsPerPage > 0  BY ScfAssumption
<1>3. n \in Nat /\ (s.kept # {} => n >= 1)
  <2>1. PICK c \in Nat : c = Cardinality(s.kept)  BY <1>1
  <2>2. (c + RecordsPerPage - 1) \div RecordsPerPage \in Nat  BY <1>2
  <2>3. c > 0 => (c + RecordsPerPage - 1) \div RecordsPerPage >= 1  BY <1>2
  <2> QED BY <1>1, <2>1, <2>2, <2>3
<1>4. RawPages(s) = [i \in 1 .. n |-> Chunk(s.kept, i, RecordsPerPage)]
  BY DEF RawPages
<1>5. \A i : Chunk(s.kept, i, RecordsPerPage) \in SUBSET Ids
  BY <1>1 DEF Chunk
<1> HIDE DEF n
<1>6. RawPages(s) \in Seq(SUBSET Ids) /\ Len(RawPages(s)) = n
  BY <1>3, <1>4, <1>5
<1> QED BY <1>3, <1>4, <1>5, <1>6

----------------------------------------------------------------------------
(* The directory.                                                          *)

\* A step that writes or tears files other than fetch.json, or tears that.
LEMMA DirInv ==
    ASSUME Inv, dir' \in Dirs,
           UNCHANGED <<versions, keyset, fetch_vars, build>>,
           dir'.fetch_json \in {dir.fetch_json, NoFile, Torn}
    PROVE  Inv'
<1>1. UNCHANGED <<pc, attempt, last_id, pages, started, present, finished>>
  BY DEF fetch_vars
<1>2. Types'  BY <1>1 DEF Inv, Types, UpdatedAt
<1> QED BY <1>1, <1>2, StoppedInv

\* A fetch begins, or refuses a directory that is there.
LEMMA ScfBeginInv ==
    ASSUME Inv, ScfInv, source = "westchester", NEW p \in Fetcher, ScfBegin(p)
    PROVE  Inv' /\ ScfInv'
<1>1. UNCHANGED <<versions, keyset, dir, pc, attempt, last_id, pages, started,
                  present, finished, build, source>>
  BY DEF ScfBegin
<1>2. Types'  BY <1>1 DEF Inv, Types, UpdatedAt
<1>3. Inv'  BY <1>1, <1>2, StoppedInv
<1>4. PICK state \in {"create", "stopped"} : scf' = [scf EXCEPT ![p].pc = state]
  BY DEF ScfBegin
<1>5. PICK s : s = [scf[p] EXCEPT !.pc = state]  OBVIOUS
<1>6. s \in ScfFetches /\ s.pc = state
  BY <1>5 DEF ScfInv, ScfFetches, ScfStates
<1>7. scf' = [scf EXCEPT ![p] = s]  BY <1>4, <1>5 DEF ScfInv
<1>8. Writing(s) /\ FewLost(s)  BY <1>6, AtRest
<1> QED BY <1>1, <1>3, <1>6, <1>7, <1>8, OneMoves

\* A fetch that moves on without having finished.
LEMMA BecomesInv ==
    ASSUME Inv, ScfInv, source = "westchester", NEW p \in Fetcher,
           NEW s \in ScfFetches, Becomes(p, s), Writing(s), FewLost(s),
           dir' \in Dirs, dir'.fetch_json \in {dir.fetch_json, NoFile, Torn}
    PROVE  Inv' /\ ScfInv'
<1>1. UNCHANGED <<versions, keyset, fetch_vars, build, source>>
      /\ scf' = [scf EXCEPT ![p] = s]
  BY DEF Becomes
<1>2. Inv'  BY <1>1, DirInv
<1>3. pc' = pc  BY <1>1 DEF fetch_vars
<1> QED BY <1>1, <1>2, <1>3, OneMoves

\* Before the first page, nothing can have been missed.
LEMMA ScfCreateDirsInv ==
    ASSUME Inv, ScfInv, source = "westchester", NEW p \in Fetcher, ScfCreateDirs(p)
    PROVE  Inv' /\ ScfInv'
<1> DEFINE s == Fresh("page", Rows)
<1>1. Types /\ Rows \in SUBSET Ids /\ UpdatedAt \in Times
  BY RowsAreIds DEF Inv, Types
<1>2. s \in ScfFetches /\ s.pc = "page" /\ s.present = Rows /\ s.page = 1
      /\ s.removals = 0 /\ s.written = 0
  BY <1>1 DEF Fresh, ScfFetches, ScfStates
<1>3. Becomes(p, s) /\ dir' = [dir EXCEPT !.made = TRUE]  BY DEF ScfCreateDirs
<1>4. dir' \in Dirs /\ dir'.fetch_json = dir.fetch_json
  BY <1>1, <1>3 DEF Types, Dirs
<1> HIDE DEF s
<1>5. FewLost(s)
  <2>1. FirstOf(Rows, PageSize * (s.page - 1)) = {}
    <3>1. PageSize * (s.page - 1) = 0  BY <1>2, Bounds
    <3>2. \A r \in Rows : ~ (Cardinality({q \in Rows : q < r}) < 0)
      <4> TAKE r \in Rows
      <4> DEFINE A == {q \in Rows : q < r}
      <4>1. A \in SUBSET Ids  BY <1>1
      <4> HIDE DEF A
      <4>2. Cardinality(A) \in Nat  BY <4>1, FiniteIds
      <4>3. ~ (Cardinality(A) < 0)  BY <4>2
      <4> QED BY <4>3 DEF A
    <3> QED BY <3>1, <3>2 DEF FirstOf
  <2>2. Cardinality(Missed(s)) = 0  BY <2>1, FS_EmptySet DEF Missed
  <2> QED BY <1>2, <2>2 DEF FewLost
<1>6. Writing(s)  BY <1>2 DEF Writing
<1> QED BY <1>2, <1>3, <1>4, <1>5, <1>6, BecomesInv

\* A page is answered: more come, that was the last, or there are too many.
LEMMA ScfPageInv ==
    ASSUME Inv, ScfInv, source = "westchester", NEW p \in Fetcher, ScfPage(p)
    PROVE  Inv' /\ ScfInv'
<1>1. PICK s \in ScfFetches : s = scf[p]  BY DEF ScfInv
<1>2. PICK answer : answer = Chunk(Rows, Asked(s.page), PageSize)  OBVIOUS
<1>3. s.pc = "page" /\ dir' = dir  BY <1>1 DEF ScfPage
<1>4. Types /\ Writing(s) /\ FewLost(s) /\ dir \in Dirs  BY <1>1 DEF Inv, Types, ScfInv
<1>5. answer \in SUBSET Ids
  <2>1. Rows \in SUBSET Ids  BY <1>4, RowsAreIds DEF Types
  <2> QED BY <1>2, <2>1 DEF Chunk
<1>6. PICK u \in ScfFetches :
        /\ u = Take(s, answer) /\ u.seen = s.seen \cup answer
        /\ u.pc = s.pc /\ u.page = s.page /\ u.responses = s.responses
        /\ u.written = s.written /\ u.present = s.present /\ u.removals = s.removals
  BY <1>5, TakeFacts
<1>7. PICK v : v = [u EXCEPT !.responses = Append(u.responses, answer), !.attempt = 1]
  OBVIOUS
<1>8. /\ v \in ScfFetches /\ v.seen = s.seen \cup answer
      /\ v.pc = "page" /\ v.page = s.page /\ v.written = s.written
      /\ v.present = s.present /\ v.removals = s.removals
  <2>1. Append(u.responses, answer) \in Seq(SUBSET Ids)
    BY <1>5 DEF ScfFetches
  <2>2. PICK responses \in Seq(SUBSET Ids) : responses = Append(u.responses, answer)
    BY <2>1
  <2> QED BY <1>3, <1>6, <1>7, <2>2 DEF ScfFetches
<1>9. keyset => Asked(s.page) = s.page  BY DEF Asked
<1>10. CASE s.page > MaxPages
  <2>1. PICK t : t = [s EXCEPT !.pc = "stopped"]  OBVIOUS
  <2>2. Becomes(p, t)  BY <1>1, <1>10, <2>1 DEF ScfPage
  <2>3. t \in ScfFetches /\ t.pc = "stopped"  BY <2>1 DEF ScfFetches, ScfStates
  <2> QED BY <1>3, <1>4, <2>2, <2>3, AtRest, BecomesInv
<1>11. CASE ~ (s.page > MaxPages) /\ NextPage(s.page) /\ answer # {}
  <2>1. PICK t : t = [v EXCEPT !.page = v.page + 1]  OBVIOUS
  <2>2. Becomes(p, t)  BY <1>1, <1>2, <1>6, <1>7, <1>11, <2>1 DEF ScfPage
  <2>3. v.page \in Nat \ {0}  BY <1>8 DEF ScfFetches
  <2>4. v.page + 1 \in Nat \ {0}  BY <2>3
  <2> PICK n \in Nat \ {0} : n = v.page + 1  BY <2>4
  <2>5. /\ t \in ScfFetches /\ t.pc = "page" /\ t.page = s.page + 1
        /\ t.seen = s.seen \cup answer /\ t.present = s.present
        /\ t.removals = s.removals /\ t.written = s.written
    BY <1>8, <2>1 DEF ScfFetches
  <2>6. Writing(t)  BY <1>3, <1>4, <2>5 DEF Writing
  <2>7. FewLost(t)
    <3>1. CASE keyset  BY <1>2, <1>3, <1>4, <1>9, <2>5, <3>1, MoreToCome
    <3>2. CASE ~ keyset  BY <3>2 DEF FewLost
    <3> QED BY <3>1, <3>2
  <2> QED BY <1>3, <1>4, <2>2, <2>5, <2>6, <2>7, BecomesInv
<1>12. CASE ~ (s.page > MaxPages) /\ ~ (NextPage(s.page) /\ answer # {})
  <2>1. PICK t : t = [v EXCEPT !.pc = "write"]  OBVIOUS
  <2>2. Becomes(p, t)  BY <1>1, <1>2, <1>6, <1>7, <1>12, <2>1 DEF ScfPage
  <2>3. /\ t \in ScfFetches /\ t.pc = "write"
        /\ t.seen = s.seen \cup answer /\ t.present = s.present
        /\ t.removals = s.removals /\ t.written = 0
    BY <1>3, <1>4, <1>8, <2>1 DEF ScfFetches, ScfStates, Writing
  <2>4. Writing(t)
    <3>1. t.kept # {} => Len(RawPages(t)) >= 1 /\ Len(RawPages(t)) \in Nat
      BY <2>3, RawPagesTypes
    <3> QED BY <2>3, <3>1 DEF Writing
  <2>5. FewLost(t)
    <3>1. CASE keyset  BY <1>2, <1>3, <1>4, <1>9, <1>12, <2>3, <3>1, NoMoreToCome
    <3>2. CASE ~ keyset  BY <3>2 DEF FewLost
    <3> QED BY <3>1, <3>2
  <2> QED BY <1>3, <1>4, <2>2, <2>3, <2>4, <2>5, BecomesInv
<1> QED BY <1>10, <1>11, <1>12

\* After paging, nothing is lost any more.
LEMMA StillPaged ==
    ASSUME NEW s, NEW t, FewLost(s),
           s.pc \in {"write", "describe", "finish"},
           t.pc \in {"write", "describe", "finish", "done"},
           t.seen = s.seen, t.present = s.present, t.removals = s.removals
    PROVE  FewLost(t)
  BY DEF FewLost

\* The next raw page is written, or there is none to write.
LEMMA ScfWritePageInv ==
    ASSUME Inv, ScfInv, source = "westchester", NEW p \in Fetcher, ScfWritePage(p)
    PROVE  Inv' /\ ScfInv'
<1>1. PICK s \in ScfFetches : s = scf[p]  BY DEF ScfInv
<1>2. Types /\ Writing(s) /\ FewLost(s) /\ dir \in Dirs  BY <1>1 DEF Inv, Types, ScfInv
<1>3. s.pc = "write"  BY <1>1 DEF ScfWritePage
<1>4. CASE s.kept = {}
  <2>1. PICK t : t = [s EXCEPT !.pc = "stopped"]  OBVIOUS
  <2>2. Becomes(p, t) /\ dir' = dir  BY <1>1, <1>4, <2>1 DEF ScfWritePage
  <2>3. t \in ScfFetches /\ t.pc = "stopped"  BY <2>1 DEF ScfFetches, ScfStates
  <2> QED BY <1>2, <2>2, <2>3, AtRest, BecomesInv
<1>5. CASE s.kept # {}
  <2>1. PICK i : i = s.written + 1  OBVIOUS
  <2>2. /\ RawPages(s) \in Seq(SUBSET Ids) /\ Len(RawPages(s)) \in Nat
        /\ s.written \in Nat /\ s.written < Len(RawPages(s))
    BY <1>2, <1>3, <1>5, RawPagesTypes DEF Writing, ScfFetches
  <2>3. i \in Nat /\ i \in 1 .. Len(RawPages(s))  BY <2>1, <2>2
  <2>4. RawPages(s)[i] \in SUBSET Ids  BY <2>3, RawPagesTypes
  <2>5. PICK state \in {"write", "describe"} :
          state = IF i = Len(RawPages(s)) THEN "describe" ELSE s.pc
    BY <1>3
  <2>6. PICK t : t = [s EXCEPT !.written = i, !.pc = state]  OBVIOUS
  <2>7. Becomes(p, t) /\ dir' = [dir EXCEPT !.pages[i] = RawPages(s)[i]]
    <3>1. t = [s EXCEPT !.written = i,
                        !.pc = IF i = Len(RawPages(s)) THEN "describe" ELSE @]
      BY <2>5, <2>6
    <3> QED BY <1>1, <1>5, <2>1, <3>1 DEF ScfWritePage
  <2>8. /\ t \in ScfFetches /\ t.pc = state /\ t.written = i /\ t.kept = s.kept
        /\ t.seen = s.seen /\ t.present = s.present /\ t.removals = s.removals
    BY <2>3, <2>6 DEF ScfFetches, ScfStates
  <2>9. dir' \in Dirs /\ dir'.fetch_json = dir.fetch_json
    <3>1. dir.pages \in [1 .. MaxPages -> (SUBSET Ids) \cup {NoFile, Torn}]
      BY <1>2 DEF Dirs
    <3>2. [dir.pages EXCEPT ![i] = RawPages(s)[i]]
            \in [1 .. MaxPages -> (SUBSET Ids) \cup {NoFile, Torn}]
      BY <2>4, <3>1
    <3> QED BY <1>2, <2>7, <3>2 DEF Dirs
  <2>10. Writing(t)
    <3>1. RawPages(t) = RawPages(s)  BY <2>8 DEF RawPages
    <3>2. i # Len(RawPages(s)) => i < Len(RawPages(s))  BY <2>2, <2>3
    <3> QED BY <2>5, <2>8, <3>1, <3>2 DEF Writing
  <2>11. FewLost(t)  BY <1>2, <1>3, <2>8, StillPaged
  <2> QED BY <2>7, <2>8, <2>9, <2>10, <2>11, BecomesInv
<1> QED BY <1>4, <1>5

\* metadata.json is made up.
LEMMA ScfDescribeInv ==
    ASSUME Inv, ScfInv, source = "westchester", NEW p \in Fetcher, ScfDescribe(p)
    PROVE  Inv' /\ ScfInv'
<1>1. PICK s \in ScfFetches : s = scf[p]  BY DEF ScfInv
<1>2. FewLost(s) /\ dir \in Dirs  BY <1>1 DEF Inv, Types, ScfInv
<1>3. s.pc = "describe" /\ dir' = [dir EXCEPT !.metadata = s.started]
  BY <1>1 DEF ScfDescribe
<1>4. PICK t : t = [s EXCEPT !.pc = "finish"]  OBVIOUS
<1>5. Becomes(p, t)  BY <1>1, <1>4 DEF ScfDescribe
<1>6. /\ t \in ScfFetches /\ t.pc = "finish"
      /\ t.seen = s.seen /\ t.present = s.present /\ t.removals = s.removals
  BY <1>4 DEF ScfFetches, ScfStates
<1>7. s.started \in Times  BY DEF ScfFetches
<1>8. dir' \in Dirs /\ dir'.fetch_json = dir.fetch_json  BY <1>2, <1>3, <1>7 DEF Dirs
<1>9. Writing(t) /\ FewLost(t)
  <2>1. Writing(t)  BY <1>6 DEF Writing
  <2>2. FewLost(t)  BY <1>2, <1>3, <1>6, StillPaged
  <2> QED BY <2>1, <2>2
<1> QED BY <1>5, <1>6, <1>8, <1>9, BecomesInv

\* A record without rowsUpdatedAt says nothing of the dataset's state.
LEMMA ScfFinishInv ==
    ASSUME Inv, ScfInv, source = "westchester", NEW p \in Fetcher, ScfFinish(p)
    PROVE  Inv' /\ ScfInv'
<1>1. PICK s \in ScfFetches : s = scf[p]  BY DEF ScfInv
<1>2. Types /\ FewLost(s) /\ dir \in Dirs /\ Records
  BY <1>1 DEF Inv, Types, ScfInv
<1>3. PICK record : record = [pages |-> RawPages(s), metadata |-> s.started,
                              start |-> NoFile, end |-> NoFile]
  OBVIOUS
<1>4. PICK f : f = [record |-> record, present |-> s.present]  OBVIOUS
<1>5. /\ s.pc = "finish"
      /\ dir' = [dir EXCEPT !.fetch_json = record]
      /\ finished' = finished \cup {f}
      /\ scf' = [scf EXCEPT ![p].pc = "done"]
      /\ UNCHANGED <<versions, keyset, pc, attempt, last_id, pages, started,
                     present, build, source>>
  BY <1>1, <1>3, <1>4 DEF ScfFinish
<1>6. UpdatedAt' = UpdatedAt /\ Rows' = Rows  BY <1>5 DEF UpdatedAt, Rows
<1>7. Types'
  <2>1. s.started \in Times /\ RawPages(s) \in Seq(SUBSET Ids)
    BY RawPagesTypes DEF ScfFetches
  <2>2. record \in [pages : Seq(SUBSET Ids), metadata : 1 .. MaxChanges + 1,
                    start : 1 .. MaxChanges + 1 \cup {NoFile},
                    end : 1 .. MaxChanges + 1 \cup {NoFile}]
    BY <1>3, <2>1 DEF Times
  <2>3. record \in Record  BY <2>2 DEF Record
  <2>4. dir' \in Dirs  BY <1>2, <1>5, <2>3 DEF Dirs
  <2> QED BY <1>2, <1>5, <1>6, <2>4 DEF Types
<1>8. \A q \in Fetcher : Sound(q)'
  <2> TAKE q \in Fetcher
  <2>1. Sound(q)  BY DEF Inv
  <2> QED BY <1>5, <1>6, <2>1, SoundKept
<1>9. Records'
  <2>1. f.record = record /\ record.start = NoFile  BY <1>3, <1>4
  <2>2. ASSUME keyset', NEW g \in finished' PROVE Exact(g)'
    <3>1. CASE g = f  BY <2>1, <3>1 DEF Exact
    <3>2. CASE g \in finished
      BY <1>2, <1>5, <1>6, <2>2, <3>2 DEF Records, Exact
    <3> QED BY <1>5, <3>1, <3>2
  <2>3. dir'.fetch_json = record  BY <1>2, <1>5 DEF Dirs
  <2>4. f \in finished' /\ \A g \in finished : g \in finished'  BY <1>5
  <2>5. OfFinished'  BY <1>2, <1>5, <2>1, <2>3, <2>4 DEF Records, OfFinished
  <2> QED BY <2>2, <2>5 DEF Records
<1>10. Inv'  BY <1>7, <1>8, <1>9 DEF Inv
<1>11. ScfInv'
  <2>1. PICK t : t = [s EXCEPT !.pc = "done"]  OBVIOUS
  <2>2. /\ t \in ScfFetches /\ t.pc = "done"
        /\ t.seen = s.seen /\ t.present = s.present /\ t.removals = s.removals
    BY <2>1 DEF ScfFetches, ScfStates
  <2>3. scf' = [scf EXCEPT ![p] = t]  BY <1>1, <1>5, <2>1 DEF ScfInv
  <2>4. FewLost(t)  BY <1>2, <1>5, <2>2, StillPaged
  <2>5. Writing(t)  BY <2>2 DEF Writing
  <2> QED BY <1>5, <2>2, <2>3, <2>4, <2>5, OneMoves
<1> QED BY <1>10, <1>11

\* A request that fails, a fetch that stops, one that dies in a write.
LEMMA ScfTroubleInv ==
    ASSUME Inv, ScfInv, source = "westchester", NEW p \in Fetcher,
           ScfTransient(p) \/ ScfFatal(p) \/ ScfCrash(p)
    PROVE  Inv' /\ ScfInv'
<1>1. PICK s \in ScfFetches : s = scf[p]  BY DEF ScfInv
<1>2. Types /\ Writing(s) /\ FewLost(s) /\ dir \in Dirs  BY <1>1 DEF Inv, Types, ScfInv
<1>3. PICK t : t = [s EXCEPT !.pc = "stopped"]  OBVIOUS
<1>4. t \in ScfFetches /\ t.pc = "stopped"  BY <1>3 DEF ScfFetches, ScfStates
<1>5. Writing(t) /\ FewLost(t)  BY <1>4, AtRest
<1>6. dir' \in Dirs /\ dir'.fetch_json \in {dir.fetch_json, Torn}
  <2>1. CASE ScfTransient(p) \/ ScfFatal(p)
    <3>1. dir' = dir  BY <2>1 DEF ScfTransient, ScfFatal
    <3> QED BY <1>2, <3>1
  <2>2. CASE ScfCrash(p)
    <3>1. dir' = dir \/ dir' = ScfInterrupted(p)  BY <2>2 DEF ScfCrash
    <3>2. CASE s.pc = "write"
      <4>1. ScfInterrupted(p) = [dir EXCEPT !.pages[s.written + 1] = Torn]
        BY <1>1, <3>2 DEF ScfInterrupted
      <4>2. dir.pages \in [1 .. MaxPages -> (SUBSET Ids) \cup {NoFile, Torn}]
        BY <1>2 DEF Dirs
      <4>3. [dir.pages EXCEPT ![s.written + 1] = Torn]
              \in [1 .. MaxPages -> (SUBSET Ids) \cup {NoFile, Torn}]
        BY <4>2
      <4> QED BY <1>2, <3>1, <4>1, <4>3 DEF Dirs
    <3>3. CASE s.pc = "describe"
      <4>1. ScfInterrupted(p) = [dir EXCEPT !.metadata = Torn]
        BY <1>1, <3>3 DEF ScfInterrupted
      <4> QED BY <1>2, <3>1, <4>1 DEF Dirs
    <3>4. CASE s.pc = "finish"
      <4>1. ScfInterrupted(p) = [dir EXCEPT !.fetch_json = Torn]
        BY <1>1, <3>4 DEF ScfInterrupted
      <4> QED BY <1>2, <3>1, <4>1 DEF Dirs
    <3>5. CASE s.pc \notin {"write", "describe", "finish"}
      <4>1. ScfInterrupted(p) = dir  BY <1>1, <3>5 DEF ScfInterrupted
      <4> QED BY <1>2, <3>1, <4>1
    <3> QED BY <3>2, <3>3, <3>4, <3>5
  <2> QED BY <2>1, <2>2
<1>7. CASE Becomes(p, t)  BY <1>4, <1>5, <1>6, <1>7, BecomesInv
<1>8. CASE ~ Becomes(p, t)
  <2>1. PICK u : u = [s EXCEPT !.attempt = s.attempt + 1]  OBVIOUS
  <2>2. s.pc = "page" /\ Becomes(p, u)
    BY <1>1, <1>3, <1>8, <2>1 DEF ScfTransient, ScfFatal, ScfCrash
  <2> PICK n \in Nat : n = s.attempt + 1  BY DEF ScfFetches
  <2>3. /\ u \in ScfFetches /\ u.pc = s.pc /\ u.page = s.page /\ u.seen = s.seen
        /\ u.written = s.written /\ u.present = s.present /\ u.removals = s.removals
    BY <2>1 DEF ScfFetches
  <2>4. Writing(u)  BY <1>2, <2>2, <2>3 DEF Writing
  <2>5. FewLost(u)  BY <1>2, <2>2, <2>3 DEF FewLost, Missed
  <2> QED BY <1>6, <2>2, <2>3, <2>4, <2>5, BecomesInv
<1> QED BY <1>7, <1>8

----------------------------------------------------------------------------
(* Requests come and go.                                                   *)

\* One comes, or one goes, and that is all.
LEMMA ChangeFacts ==
    ASSUME Types, Change
    PROVE  /\ Rows' \in SUBSET Ids /\ UNCHANGED <<keyset, pc>>
           /\ \/ \E x \in Ids : Rows' = Rows \cup {x}
              \/ \E x \in Rows : Rows' = Rows \ {x}
<1>1. versions \in Seq(SUBSET Ids) /\ UpdatedAt \in Times /\ Rows \in SUBSET Ids
  BY RowsAreIds DEF Types
<1>2. ASSUME NEW rows, versions' = Append(versions, rows) PROVE Rows' = rows
  BY <1>1, <1>2 DEF Rows
<1>3. \/ \E x \in Ids : versions' = Append(versions, Rows \cup {x})
      \/ \E x \in Rows : versions' = Append(versions, Rows \ {x})
  BY DEF Change
<1>4. \/ \E x \in Ids : Rows' = Rows \cup {x}
      \/ \E x \in Rows : Rows' = Rows \ {x}
  BY <1>2, <1>3
<1>5. Rows' \in SUBSET Ids  BY <1>1, <1>4
<1> QED BY <1>4, <1>5 DEF Change

\* A fetch loses at most one request more with each that goes.
LEMMA FewLostWhenChanged ==
    ASSUME Types, Change, NEW s \in ScfFetches, FewLost(s),
           NEW t \in ScfFetches, t.pc = s.pc, t.page = s.page, t.seen = s.seen,
           t.present = s.present \cap Rows',
           t.removals = s.removals + Cardinality(Rows \ Rows')
    PROVE  FewLost(t)'
<1>1. Rows' \in SUBSET Ids /\ Rows \in SUBSET Ids /\ keyset' = keyset
  BY ChangeFacts, RowsAreIds DEF Types
<1>2. /\ s.present \in SUBSET Ids /\ s.removals \in Nat /\ t.removals \in Nat
      /\ s.page \in Nat /\ s.page >= 1
  BY DEF ScfFetches
<1>3. Rows \in SUBSET Nat /\ IsFiniteSet(Rows) /\ \A x \in Ids : x \in Nat
  BY <1>1, FiniteIds
<1> DEFINE n == PageSize * (s.page - 1)
           missed == Missed(s)
           now == (t.present \cap FirstOf(Rows', n)) \ t.seen
<1>4. n \in Nat  BY <1>2, Bounds
<1>5. missed \in SUBSET Ids /\ now \in SUBSET Ids  BY <1>2 DEF Missed
<1>6. IsFiniteSet(missed) /\ Cardinality(missed) \in Nat /\ Cardinality(now) \in Nat
  <2> HIDE DEF missed, now
  <2> QED BY <1>5, FiniteIds
<1>7. ASSUME s.present \subseteq Rows, Cardinality(missed) <= s.removals
      PROVE  Cardinality(now) <= t.removals
  <2>1. CASE \E x \in Ids : Rows' = Rows \cup {x}
    <3>1. PICK x \in Ids : Rows' = Rows \cup {x}  BY <2>1
    <3>2. FirstOf(Rows', n) \cap Rows \subseteq FirstOf(Rows, n)
      <4> HIDE DEF n
      <4>1. x \in Nat  BY <1>3
      <4> QED BY <1>3, <1>4, <3>1, <4>1, FirstWhenAdded
    <3>3. now \subseteq missed  BY <1>7, <3>2 DEF Missed
    <3>4. Rows \ Rows' = {}  BY <3>1
    <3>5. t.removals = s.removals
      <4>1. Cardinality(Rows \ Rows') = 0  BY <3>4, FS_EmptySet
      <4> QED BY <1>2, <4>1
    <3> HIDE DEF missed, now
    <3>6. Cardinality(now) <= Cardinality(missed)  BY <1>6, <3>3, FS_Subset
    <3> QED BY <1>2, <1>6, <1>7, <3>5, <3>6
  <2>2. CASE \E x \in Rows : Rows' = Rows \ {x}
    <3>1. PICK x \in Rows : Rows' = Rows \ {x}  BY <2>2
    <3>2. PICK y : FirstOf(Rows', n) \subseteq FirstOf(Rows, n) \cup {y}
      <4> HIDE DEF n
      <4> QED BY <1>3, <1>4, <3>1, FirstWhenRemoved
    <3>3. now \subseteq missed \cup {y}  BY <3>2 DEF Missed
    <3>4. Rows \ Rows' = {x}  BY <3>1
    <3>5. t.removals = s.removals + 1  BY <3>4, FS_Singleton
    <3> HIDE DEF missed, now
    <3>6. IsFiniteSet(missed \cup {y})
          /\ Cardinality(missed \cup {y}) \in {Cardinality(missed), Cardinality(missed) + 1}
      BY <1>6, FS_AddElement
    <3>7. Cardinality(now) <= Cardinality(missed \cup {y})  BY <3>3, <3>6, FS_Subset
    <3> QED BY <1>2, <1>6, <1>7, <3>5, <3>6, <3>7
  <2> QED BY <2>1, <2>2, ChangeFacts
<1>8. ASSUME Cardinality(s.present \ s.seen) <= s.removals
      PROVE  Cardinality(t.present \ t.seen) <= t.removals
  <2> DEFINE lost == s.present \ s.seen
             gone == Rows \ Rows'
  <2>1. t.present \ t.seen \subseteq lost /\ lost \in SUBSET Ids  BY <1>2
  <2>2. gone \in SUBSET Ids  BY <1>1
  <2> PICK left : left = t.present \ t.seen  OBVIOUS
  <2> HIDE DEF lost, gone
  <2>3. left \subseteq lost  BY <2>1
  <2>4. /\ Cardinality(left) <= Cardinality(lost) /\ Cardinality(left) \in Nat
        /\ Cardinality(lost) \in Nat /\ Cardinality(gone) \in Nat
    BY <2>1, <2>2, <2>3, FiniteIds, FS_Subset
  <2>5. t.removals = s.removals + Cardinality(gone)  BY DEF gone
  <2>6. Cardinality(lost) <= s.removals  BY <1>8 DEF lost
  <2> QED BY <1>2, <2>4, <2>5, <2>6
<1>9. Missed(t)' = now  BY DEF Missed, FirstOf
<1>10. ASSUME keyset', t.pc = "page"
       PROVE  t.present \subseteq Rows' /\ Cardinality(Missed(t)') <= t.removals
  <2>1. s.present \subseteq Rows /\ Cardinality(missed) <= s.removals
    BY <1>1, <1>10 DEF FewLost
  <2> HIDE DEF now, missed
  <2> QED BY <1>7, <1>9, <2>1
<1>11. ASSUME keyset', t.pc \in {"write", "describe", "finish", "done"}
       PROVE  Cardinality(t.present \ t.seen) <= t.removals
  BY <1>1, <1>8, <1>11 DEF FewLost
<1> QED BY <1>10, <1>11 DEF FewLost

\* Requests come or go, of every fetch that is under way.
LEMMA ScfChangeInv ==
    ASSUME Inv, ScfInv, source = "westchester", ScfChange
    PROVE  Inv' /\ ScfInv'
<1>1. Types /\ Change /\ UNCHANGED <<source, outside>>  BY DEF Inv, ScfChange
<1>2. Inv'  BY <1>1, ChangeInv
<1>3. Rows' \in SUBSET Ids /\ Rows \in SUBSET Ids /\ UNCHANGED <<keyset, pc>>
  BY <1>1, ChangeFacts, RowsAreIds DEF Types
<1>4. PICK gone : gone = Cardinality(Rows \ Rows')  OBVIOUS
<1>5. gone \in Nat
  <2>1. Rows \ Rows' \in SUBSET Ids  BY <1>3
  <2> QED BY <1>4, <2>1, FiniteIds
<1>6. ASSUME NEW q \in Fetcher
      PROVE  /\ scf'[q] \in ScfFetches /\ scf'[q].pc = scf[q].pc
             /\ Writing(scf[q])' /\ FewLost(scf[q])'
  <2>1. PICK s \in ScfFetches : s = scf[q]  BY DEF ScfInv
  <2>2. Writing(s) /\ FewLost(s)  BY <2>1 DEF ScfInv
  <2>3. s.present \cap Rows' \in SUBSET Ids /\ s.removals + gone \in Nat
    BY <1>3, <1>5 DEF ScfFetches
  <2> PICK left \in SUBSET Ids : left = s.present \cap Rows'  BY <2>3
  <2> PICK count \in Nat : count = s.removals + gone  BY <2>3
  <2>4. PICK t : t = [s EXCEPT !.present = left, !.removals = count]  OBVIOUS
  <2>5. scf'[q] = t  BY <1>4, <2>1, <2>4 DEF ScfChange
  <2>6. /\ t \in ScfFetches /\ t.pc = s.pc /\ t.page = s.page /\ t.seen = s.seen
        /\ t.kept = s.kept /\ t.written = s.written
        /\ t.present = s.present \cap Rows' /\ t.removals = s.removals + gone
    BY <2>4 DEF ScfFetches
  <2>7. Writing(t)
    <3>1. RawPages(t) = RawPages(s)  BY <2>6 DEF RawPages
    <3> QED BY <2>2, <2>6, <3>1 DEF Writing
  <2>8. FewLost(t)'  BY <1>1, <1>4, <2>2, <2>6, FewLostWhenChanged
  <2>9. FewLost(scf[q])'  BY <2>5, <2>8 DEF FewLost, Missed
  <2>10. Writing(scf'[q])  BY <2>5, <2>7
  <2>11. Writing(scf[q])'  BY <2>10 DEF Writing, RawPages
  <2> QED BY <2>1, <2>5, <2>6, <2>9, <2>11
<1>7. scf' \in [Fetcher -> ScfFetches]
  <2>1. scf' = [p \in Fetcher |-> scf'[p]]  BY DEF ScfChange
  <2> QED BY <1>6, <2>1
<1>8. OneSource'  BY <1>1, <1>3, <1>6 DEF ScfInv, OneSource
<1> QED BY <1>2, <1>6, <1>7, <1>8 DEF ScfInv

\* A request that changes hands is the dataset changed, and nothing lost.
LEMMA ReassignInv ==
    ASSUME Inv, ScfInv, source = "westchester", NEW r \in Rows, Reassign(r)
    PROVE  Inv' /\ ScfInv'
<1>1. /\ UpdatedAt <= MaxChanges /\ versions' = Append(versions, Rows)
      /\ UNCHANGED <<keyset, dir, fetch_vars, build, source, scf>>
  BY DEF Reassign
<1>2. UNCHANGED <<pc, attempt, last_id, pages, started, present, finished>>
  BY <1>1 DEF fetch_vars
<1>3. Types /\ Records /\ \A p \in Fetcher : pc[p] = "idle" /\ Sound(p)
  BY DEF Inv, ScfInv, OneSource
<1>4. versions \in Seq(SUBSET Ids) /\ UpdatedAt \in Times /\ Rows \in SUBSET Ids
  BY <1>3, RowsAreIds DEF Types
<1>5. /\ versions' \in Seq(SUBSET Ids) /\ UpdatedAt' = UpdatedAt + 1 /\ Rows' = Rows
      /\ \A i \in 1 .. UpdatedAt : versions'[i] = versions[i]
  BY <1>1, <1>4 DEF UpdatedAt, Rows
<1>6. UpdatedAt' \in Times /\ UpdatedAt \in Nat  BY <1>1, <1>4, <1>5, Bounds DEF Times
<1>7. Types'  BY <1>1, <1>2, <1>3, <1>5, <1>6 DEF Types
<1>8. \A p \in Fetcher : Sound(p)'
  <2> TAKE p \in Fetcher
  <2>1. UnderWay(p)'  BY <1>2, <1>3 DEF UnderWay
  <2>2. ASSUME keyset' PROVE Paging(p)' /\ Complete(p)' /\ Disjoint(p)'
    <3>1. Disjoint(p)  BY <1>1, <1>3, <2>2 DEF Sound
    <3> QED BY <1>2, <1>3, <3>1 DEF Paging, Complete, Disjoint
  <2> QED BY <2>1, <2>2 DEF Sound
<1>9. Records'
  <2>1. ASSUME keyset', NEW f \in finished PROVE Exact(f)'
    <3>1. Exact(f)  BY <1>1, <1>3, <2>1 DEF Records
    <3>2. 1 .. UpdatedAt \subseteq 1 .. UpdatedAt'  BY <1>5, <1>6
    <3> QED BY <1>5, <3>1, <3>2 DEF Exact, Fetched
  <2>2. OfFinished'  BY <1>1, <1>2, <1>3 DEF Records, OfFinished
  <2> QED BY <1>2, <2>1, <2>2 DEF Records
<1>10. ScfInv'
  <2>1. OneSource'  BY <1>1, <1>2 DEF ScfInv, OneSource
  <2>2. \A p \in Fetcher : Writing(scf[p]) /\ FewLost(scf[p])  BY DEF ScfInv
  <2>3. \A p \in Fetcher : Writing(scf[p])'  BY <1>1, <2>2 DEF Writing, RawPages
  <2>4. \A p \in Fetcher : FewLost(scf[p])'
    BY <1>1, <1>5, <2>2 DEF FewLost, Missed
  <2> QED BY <1>1, <2>1, <2>3, <2>4 DEF ScfInv
<1> QED BY <1>7, <1>8, <1>9, <1>10 DEF Inv

----------------------------------------------------------------------------
(* Every step.                                                             *)

\* A step that is none of a fetch from SeeClickFix, nor of the requests.
LEMMA ScfStands ==
    ASSUME ScfInv, UNCHANGED <<source, scf>>,
           source = "nyc311" \/ UNCHANGED <<versions, keyset, pc>>
    PROVE  ScfInv'
<1>1. \A p \in Fetcher : Writing(scf[p]) /\ FewLost(scf[p])  BY DEF ScfInv
<1>2. \A p \in Fetcher : Writing(scf[p])'  BY <1>1 DEF Writing, RawPages
<1>3. OneSource'  BY DEF ScfInv, OneSource
<1>4. \A p \in Fetcher : FewLost(scf[p])'
  <2>1. CASE source = "nyc311"
    <3>1. \A p \in Fetcher : scf[p].pc = "idle"  BY <2>1 DEF ScfInv, OneSource
    <3> QED BY <3>1 DEF FewLost
  <2>2. CASE UNCHANGED <<versions, keyset, pc>>
    BY <1>1, <2>2 DEF FewLost, Missed, Rows
  <2> QED BY <2>1, <2>2
<1> QED BY <1>2, <1>3, <1>4 DEF ScfInv

\* The invariants of both sources together are inductive.
LEMMA FetchNext ==
    Inv /\ ScfInv /\ [NextFetch]_all_vars => Inv' /\ ScfInv'
<1> SUFFICES ASSUME Inv, ScfInv, [NextFetch]_all_vars PROVE Inv' /\ ScfInv'
  OBVIOUS
<1>1. CASE FromSocrata
  <2>1. source = "nyc311" /\ Next /\ UNCHANGED <<source, scf>>
    BY <1>1 DEF FromSocrata, scf_vars
  <2>2. Inv'  BY <2>1, NextInv
  <2> QED BY <2>1, <2>2, ScfStands
<1>2. CASE UNCHANGED all_vars
  <2>1. UNCHANGED vars /\ UNCHANGED <<source, scf>>  BY <1>2 DEF all_vars, scf_vars
  <2>2. Inv'  BY <2>1, StutterInv
  <2>3. UNCHANGED <<versions, keyset, pc>>  BY <2>1 DEF vars, fetch_vars
  <2> QED BY <2>1, <2>2, <2>3, ScfStands
<1>3. CASE FromScf
  <2>1. source = "westchester"  BY <1>3 DEF FromScf
  <2>2. CASE ScfChange  BY <2>1, <2>2, ScfChangeInv
  <2>3. ASSUME NEW r \in Rows, Reassign(r) PROVE Inv' /\ ScfInv'
    BY <2>1, <2>3, ReassignInv
  <2>4. ASSUME NEW p \in Fetcher, ScfBegin(p) \/ ScfStep(p) \/ ScfCrash(p)
        PROVE  Inv' /\ ScfInv'
    BY <2>1, <2>4, ScfBeginInv, ScfCreateDirsInv, ScfPageInv, ScfWritePageInv,
       ScfDescribeInv, ScfFinishInv, ScfTroubleInv DEF ScfStep
  <2>5. CASE Open /\ UNCHANGED <<source, scf_vars>>
    <3>1. Inv'  BY <2>5, OpenInv
    <3>2. UNCHANGED <<versions, keyset, pc, source, scf>>
      BY <2>5, OpenFacts DEF Inv, scf_vars
    <3> QED BY <3>1, <3>2, ScfStands
  <2>6. CASE RemoveDir /\ UNCHANGED <<source, scf_vars>>
    <3>1. Inv'
      <4>1. Next  BY <2>6 DEF Next
      <4> QED BY <4>1, NextInv
    <3>2. UNCHANGED <<versions, keyset, pc, source, scf>>
      BY <2>6 DEF RemoveDir, fetch_vars, scf_vars
    <3> QED BY <3>1, <3>2, ScfStands
  <2> QED BY <1>3, <2>2, <2>3, <2>4, <2>5, <2>6 DEF FromScf, Open
<1> QED BY <1>1, <1>2, <1>3 DEF NextFetch

----------------------------------------------------------------------------
(* What source.json accounts for.                                          *)

\* The requests seen so far: each answered, kept or skipped, and otherwise
\* counted as a duplicate, once for every time it was answered again.
Counted(s) ==
    /\ s.kept \subseteq s.seen /\ s.seen = Fetched(s.responses)
    /\ Cardinality(s.seen) = Cardinality(s.kept) + s.skipped
    /\ Answered(s.responses) = Cardinality(s.kept) + s.skipped + s.duplicates

AllCounted == \A p \in Fetcher : Counted(scf[p])

\* Sizes of the responses, by number.
Sizes(responses) == [i \in DOMAIN responses |-> Cardinality(responses[i])]

LEMMA AnsweredIsSum ==
    ASSUME NEW ps \in Seq(SUBSET Ids)
    PROVE  /\ Numbered(Sizes(ps), DOMAIN ps)
           /\ \E f : Sums(Sizes(ps), DOMAIN ps, f) /\ Answered(ps) = f[DOMAIN ps]
<1> DEFINE z == Sizes(ps)
           D == DOMAIN ps
<1>1. IsFiniteSet(D)
  <2>1. Len(ps) \in Nat /\ D = 1 .. Len(ps)  OBVIOUS
  <2> QED BY <2>1, FS_Interval
<1>2. Numbered(z, D)
  <2>1. \A i \in D : ps[i] \in SUBSET Ids  OBVIOUS
  <2>2. \A i \in D : Cardinality(ps[i]) \in Nat  BY <2>1, FiniteIds
  <2> QED BY <1>1, <2>2 DEF Numbered, Sizes
<1>3. Answered(ps) = (CHOOSE f : Sums(z, D, f))[D]
  <2>1. DOMAIN z = D /\ Answered(ps) = SumFunction(z)  BY DEF Sizes, Answered
  <2>2. SumFunction(z) = (CHOOSE f : Sums(z, DOMAIN z, f))[DOMAIN z]
    <3> HIDE DEF z
    <3> QED BY DEF SumFunction, SumFunctionOnSet, FoldFunctionOnSet, MapThenFoldSet, Sums, SumOver
  <2> QED BY <2>1, <2>2
<1>4. \E f : Sums(z, D, f)  BY <1>1, SumsExist
<1>5. Sums(z, D, CHOOSE f : Sums(z, D, f))  BY <1>4
<1> QED BY <1>2, <1>3, <1>5

\* One more response has its requests more.
LEMMA AnsweredMore ==
    ASSUME NEW ps \in Seq(SUBSET Ids), NEW page \in SUBSET Ids
    PROVE  /\ Answered(Append(ps, page)) = Answered(ps) + Cardinality(page)
           /\ Answered(ps) \in Int
<1> DEFINE qs == Append(ps, page)
           D == DOMAIN ps
           E == DOMAIN qs
           n == Len(ps) + 1
<1>1. /\ qs \in Seq(SUBSET Ids) /\ E = D \cup {n} /\ n \notin D
      /\ qs[n] = page /\ \A i \in D : qs[i] = ps[i]
  <2>1. Len(ps) \in Nat /\ D = 1 .. Len(ps) /\ E = 1 .. Len(ps) + 1  OBVIOUS
  <2>2. E = D \cup {n} /\ n \notin D  BY <2>1
  <2> QED BY <2>1, <2>2
<1> HIDE DEF qs, D, E, n
<1>2. PICK f : Sums(Sizes(ps), D, f) /\ Answered(ps) = f[D]  BY AnsweredIsSum DEF D
<1>3. PICK g : Sums(Sizes(qs), E, g) /\ Answered(qs) = g[E]
  BY <1>1, AnsweredIsSum DEF E
<1>4. Numbered(Sizes(ps), D) /\ Numbered(Sizes(qs), E)  BY <1>1, AnsweredIsSum DEF D, E
<1>5. f[D] = g[D]
  <2> DEFINE h == [i \in D |-> i]
  <2>1. Renumbers(h, Sizes(ps), D, Sizes(qs), E)
    BY <1>1 DEF Renumbers, Sizes, D, E
  <2>2. \A x : x \in D <=> \E i \in D : x = h[i]  OBVIOUS
  <2> HIDE DEF h
  <2> QED BY <1>2, <1>3, <1>4, <2>1, <2>2, SumsMoved
<1>6. AddsUp(Sizes(ps), D, f) /\ AddsUp(Sizes(qs), E, g)
  BY <1>2, <1>3, <1>4, SumsAdd
<1>7. g[E] = Sizes(qs)[n] + g[E \ {n}]  BY <1>1, <1>6 DEF AddsUp
<1>8. E \ {n} = D /\ Sizes(qs)[n] = Cardinality(page)  BY <1>1 DEF Sizes, E
<1>9. f[D] \in Int /\ Cardinality(page) \in Nat
  BY <1>6, FiniteIds DEF AddsUp
<1>10. Answered(qs) = Answered(ps) + Cardinality(page)
  <2>1. Answered(qs) = Cardinality(page) + f[D]  BY <1>3, <1>5, <1>7, <1>8
  <2> QED BY <1>2, <1>9, <2>1
<1> QED BY <1>2, <1>9, <1>10 DEF qs

LEMMA AnsweredNone == Answered(<< >>) = 0
<1>1. << >> \in Seq(SUBSET Ids) /\ DOMAIN << >> = {}  OBVIOUS
<1>2. PICK f : Sums(Sizes(<< >>), {}, f) /\ Answered(<< >>) = f[{}]
  BY <1>1, AnsweredIsSum
<1>3. f[{}] = SumOver(Sizes(<< >>), f, {})  BY <1>2 DEF Sums
<1> QED BY <1>2, <1>3 DEF SumOver

\* Before the first response.
LEMMA FreshCounted ==
    ASSUME NEW state, NEW now
    PROVE  Counted(Fresh(state, now))
<1> DEFINE s == Fresh(state, now)
<1>1. /\ s.kept = {} /\ s.seen = {} /\ s.responses = << >>
      /\ s.skipped = 0 /\ s.duplicates = 0
  BY DEF Fresh
<1> HIDE DEF s
<1>2. Fetched(<< >>) = {}  BY FetchedMore, << >> \in Seq(SUBSET Ids)
<1>3. Cardinality({}) = 0  BY FS_EmptySet
<1>4. Counted(s)  BY <1>1, <1>2, <1>3, AnsweredNone DEF Counted
<1> QED BY <1>4 DEF s

\* What Counted is about.
SameCounts(t, s) ==
    /\ t.kept = s.kept /\ t.seen = s.seen /\ t.responses = s.responses
    /\ t.skipped = s.skipped /\ t.duplicates = s.duplicates

LEMMA StillCounted ==
    ASSUME NEW s, NEW t, Counted(s), SameCounts(t, s)
    PROVE  Counted(t)
  BY DEF Counted, SameCounts

\* A response is accounted for, whatever was handed over meanwhile.
LEMMA AnswerCounted ==
    ASSUME NEW s \in ScfFetches, Counted(s), NEW answer \in SUBSET Ids, NEW t,
           t.responses = Append(s.responses, answer),
           t.seen = Take(s, answer).seen, t.kept = Take(s, answer).kept,
           t.skipped = Take(s, answer).skipped,
           t.duplicates = Take(s, answer).duplicates
    PROVE  Counted(t)
<1> DEFINE fresh == answer \ s.seen
           again == answer \cap s.seen
           ours == fresh \ outside
           others == fresh \cap outside
<1>1. /\ s.seen \in SUBSET Ids /\ s.kept \in SUBSET Ids
      /\ s.skipped \in Nat /\ s.duplicates \in Nat
      /\ s.responses \in Seq(SUBSET Ids)
  BY DEF ScfFetches
<1>2. /\ t.seen = s.seen \cup fresh /\ t.kept = s.kept \cup ours
      /\ t.skipped = s.skipped + Cardinality(others)
      /\ t.duplicates = s.duplicates + Cardinality(again)
  BY DEF Take, ScfFetches
<1>3. \A S \in SUBSET Ids : IsFiniteSet(S) /\ Cardinality(S) \in Nat  BY FiniteIds
<1>4. /\ fresh \in SUBSET Ids /\ again \in SUBSET Ids
      /\ ours \in SUBSET Ids /\ others \in SUBSET Ids
  OBVIOUS
<1>5. \A S, T \in SUBSET Ids :
        S \cap T = {} => Cardinality(S \cup T) = Cardinality(S) + Cardinality(T)
  <2> TAKE S, T \in SUBSET Ids
  <2> HAVE S \cap T = {}
  <2>1. Cardinality(S \cap T) = 0  BY FS_EmptySet
  <2>2. Cardinality(S \cup T) = Cardinality(S) + Cardinality(T) - Cardinality(S \cap T)
    BY <1>3, FS_Union
  <2>3. Cardinality(S) \in Nat /\ Cardinality(T) \in Nat  BY <1>3
  <2> QED BY <2>1, <2>2, <2>3
<1>6. /\ fresh = ours \cup others /\ ours \cap others = {}
      /\ answer = fresh \cup again /\ fresh \cap again = {}
      /\ s.seen \cap fresh = {} /\ s.kept \cap ours = {}
  BY DEF Counted
<1>7. t.kept \subseteq t.seen  BY <1>2 DEF Counted
<1>8. t.seen = Fetched(t.responses)
  <2>1. Fetched(t.responses) = s.seen \cup answer  BY <1>1, FetchedMore DEF Counted
  <2> QED BY <1>2, <2>1
<1> HIDE DEF fresh, again, ours, others
<1>9. /\ Cardinality(fresh) = Cardinality(ours) + Cardinality(others)
      /\ Cardinality(answer) = Cardinality(fresh) + Cardinality(again)
      /\ Cardinality(t.seen) = Cardinality(s.seen) + Cardinality(fresh)
      /\ Cardinality(t.kept) = Cardinality(s.kept) + Cardinality(ours)
  <2>1. Cardinality(fresh) = Cardinality(ours) + Cardinality(others)
    BY <1>4, <1>5, <1>6
  <2>2. Cardinality(answer) = Cardinality(fresh) + Cardinality(again)
    BY <1>4, <1>5, <1>6
  <2>3. Cardinality(s.seen \cup fresh) = Cardinality(s.seen) + Cardinality(fresh)
    BY <1>1, <1>4, <1>5, <1>6
  <2>4. Cardinality(s.kept \cup ours) = Cardinality(s.kept) + Cardinality(ours)
    BY <1>1, <1>4, <1>5, <1>6
  <2> QED BY <1>2, <2>1, <2>2, <2>3, <2>4
<1>10. /\ Cardinality(ours) \in Nat /\ Cardinality(others) \in Nat
       /\ Cardinality(again) \in Nat /\ Cardinality(s.kept) \in Nat
  BY <1>1, <1>3, <1>4
<1>11. Answered(t.responses) = Answered(s.responses) + Cardinality(answer)
  BY <1>1, AnsweredMore
<1>12. /\ Cardinality(s.seen) = Cardinality(s.kept) + s.skipped
       /\ Answered(s.responses) = Cardinality(s.kept) + s.skipped + s.duplicates
  BY DEF Counted
<1>13. Cardinality(t.seen) = Cardinality(t.kept) + t.skipped
  BY <1>1, <1>2, <1>9, <1>10, <1>12
<1>14. Answered(t.responses) = Cardinality(t.kept) + t.skipped + t.duplicates
  BY <1>1, <1>2, <1>9, <1>10, <1>11, <1>12
<1> QED BY <1>7, <1>8, <1>13, <1>14 DEF Counted

\* One fetch moves on.
LEMMA OneCounted ==
    ASSUME AllCounted, scf \in [Fetcher -> ScfFetches], NEW p \in Fetcher, NEW s,
           scf' = [scf EXCEPT ![p] = s], Counted(s)
    PROVE  AllCounted'
<1>1. scf'[p] = s /\ \A q \in Fetcher \ {p} : scf'[q] = scf[q]  OBVIOUS
<1>2. \A q \in Fetcher : Counted(scf'[q])  BY <1>1 DEF AllCounted
<1> QED BY <1>2 DEF AllCounted, Counted

\* A page is answered, or refused.
LEMMA ScfPageCounted ==
    ASSUME Inv, ScfInv, AllCounted, NEW p \in Fetcher, ScfPage(p)
    PROVE  AllCounted'
<1> DEFINE s == scf[p]
           answer == Chunk(Rows, Asked(s.page), PageSize)
           taken == [Take(s, answer) EXCEPT !.responses = Append(@, answer),
                                            !.attempt = 1]
<1>1. s \in ScfFetches /\ Counted(s) /\ scf \in [Fetcher -> ScfFetches]
  BY DEF ScfInv, AllCounted
<1>2. answer \in SUBSET Ids
  <2>1. Rows \in SUBSET Ids  BY RowsAreIds DEF Inv, Types
  <2> QED BY <2>1 DEF Chunk
<1>3. PICK t : /\ scf' = [scf EXCEPT ![p] = t]
               /\ \/ t = [s EXCEPT !.pc = "stopped"]
                  \/ t = [taken EXCEPT !.page = @ + 1]
                  \/ t = [taken EXCEPT !.pc = "write"]
  BY DEF ScfPage, Becomes
<1> HIDE DEF answer, s
<1>4. CASE t = [s EXCEPT !.pc = "stopped"]
  <2>1. SameCounts(t, s)  BY <1>1, <1>4 DEF ScfFetches, SameCounts
  <2> QED BY <1>1, <1>3, <2>1, StillCounted, OneCounted
<1>5. CASE t = [taken EXCEPT !.page = @ + 1] \/ t = [taken EXCEPT !.pc = "write"]
  <2>1. PICK u \in ScfFetches : u = Take(s, answer) /\ u.responses = s.responses
    BY <1>1, <1>2, TakeFacts
  <2>2. /\ t.responses = Append(s.responses, answer) /\ t.seen = u.seen
        /\ t.kept = u.kept /\ t.skipped = u.skipped /\ t.duplicates = u.duplicates
    BY <1>5, <2>1 DEF ScfFetches
  <2>3. Counted(t)  BY <1>1, <1>2, <2>1, <2>2, AnswerCounted
  <2> QED BY <1>1, <1>3, <2>3, OneCounted
<1> QED BY <1>3, <1>4, <1>5

\* The other steps of a fetch.
LEMMA ScfStepCounted ==
    ASSUME Inv, ScfInv, AllCounted, NEW p \in Fetcher,
           ScfBegin(p) \/ ScfStep(p) \/ ScfCrash(p)
    PROVE  AllCounted'
<1>1. CASE ScfPage(p)  BY <1>1, ScfPageCounted
<1>2. CASE ScfCreateDirs(p)
  <2>1. scf' = [scf EXCEPT ![p] = Fresh("page", Rows)]
    BY <1>2 DEF ScfCreateDirs, Becomes
  <2> QED BY <2>1, FreshCounted, OneCounted DEF ScfInv
<1>3. CASE ~ ScfPage(p) /\ ~ ScfCreateDirs(p)
  <2>1. PICK s \in ScfFetches : s = scf[p]  BY DEF ScfInv
  <2>2. \E t : scf' = [scf EXCEPT ![p] = t] /\ SameCounts(t, s)
    <3>1. CASE ScfBegin(p) \/ ScfFinish(p)
      <4>1. PICK x : scf' = [scf EXCEPT ![p] = [s EXCEPT !.pc = x]]
        BY <2>1, <3>1 DEF ScfBegin, ScfFinish
      <4>2. SameCounts([s EXCEPT !.pc = x], s)  BY DEF ScfFetches, SameCounts
      <4> QED BY <4>1, <4>2
    <3>2. CASE ScfWritePage(p)
      <4>1. CASE s.kept = {}
        <5>1. scf' = [scf EXCEPT ![p] = [s EXCEPT !.pc = "stopped"]]
          BY <2>1, <3>2, <4>1 DEF ScfWritePage, Becomes
        <5>2. SameCounts([s EXCEPT !.pc = "stopped"], s)  BY DEF ScfFetches, SameCounts
        <5> QED BY <5>1, <5>2
      <4>2. CASE s.kept # {}
        <5> DEFINE i == s.written + 1
                   x == IF i = Len(RawPages(s)) THEN "describe" ELSE s.pc
                   t == [s EXCEPT !.written = i, !.pc = x]
        <5>1. scf' = [scf EXCEPT ![p] = t]
          BY <2>1, <3>2, <4>2 DEF ScfWritePage, Becomes
        <5> HIDE DEF i, x
        <5>2. SameCounts(t, s)  BY DEF ScfFetches, SameCounts
        <5> QED BY <5>1, <5>2
      <4> QED BY <4>1, <4>2
    <3>3. CASE ScfDescribe(p) \/ ScfTransient(p) \/ ScfFatal(p) \/ ScfCrash(p)
      <4>1. PICK t : /\ scf' = [scf EXCEPT ![p] = t]
                     /\ \/ \E x : t = [s EXCEPT !.pc = x]
                        \/ \E x : t = [s EXCEPT !.attempt = x]
        BY <2>1, <3>3 DEF ScfDescribe, ScfTransient, ScfFatal, ScfCrash, Becomes
      <4>2. SameCounts(t, s)  BY <4>1 DEF ScfFetches, SameCounts
      <4> QED BY <4>1, <4>2
    <3> QED BY <1>3, <3>1, <3>2, <3>3 DEF ScfStep
  <2>3. PICK t : scf' = [scf EXCEPT ![p] = t] /\ SameCounts(t, s)  BY <2>2
  <2>4. Counted(t)  BY <2>1, <2>3, StillCounted DEF AllCounted
  <2> QED BY <2>3, <2>4, OneCounted DEF ScfInv
<1> QED BY <1>1, <1>2, <1>3

LEMMA CountedNext ==
    Inv /\ ScfInv /\ AllCounted /\ [NextFetch]_all_vars => AllCounted'
<1> SUFFICES ASSUME Inv, ScfInv, AllCounted, [NextFetch]_all_vars PROVE AllCounted'
  OBVIOUS
<1>1. CASE scf' = scf  BY <1>1 DEF AllCounted, Counted
<1>2. CASE ScfChange
  <2>1. scf \in [Fetcher -> ScfFetches]  BY DEF ScfInv
  <2>2. \A p \in Fetcher : SameCounts(scf'[p], scf[p])
    <3> TAKE p \in Fetcher
    <3>1. PICK s \in ScfFetches : s = scf[p]  BY <2>1
    <3>2. PICK a, b : scf'[p] = [s EXCEPT !.present = a, !.removals = b]
      BY <1>2, <3>1 DEF ScfChange
    <3> QED BY <3>1, <3>2 DEF ScfFetches, SameCounts
  <2>3. \A p \in Fetcher : Counted(scf'[p])  BY <2>2, StillCounted DEF AllCounted
  <2> QED BY <2>3 DEF AllCounted, Counted
<1>3. CASE \E p \in Fetcher : ScfBegin(p) \/ ScfStep(p) \/ ScfCrash(p)
  BY <1>3, ScfStepCounted
<1>4. scf' = scf \/ ScfChange
        \/ \E p \in Fetcher : ScfBegin(p) \/ ScfStep(p) \/ ScfCrash(p)
  BY DEF NextFetch, FromSocrata, FromScf, Reassign, scf_vars, all_vars
<1> QED BY <1>1, <1>2, <1>3, <1>4

----------------------------------------------------------------------------
(* What holds of every fetch, whichever source it asks, whoever else writes *)
(* to the directory or dies doing so.                                      *)

\* The invariant of both parts.
THEOREM FetchInvariant == FetchSpec => [](Inv /\ ScfInv)
  BY ScfInit, FetchNext, PTL DEF FetchSpec

\* The portal, the directory and both kinds of process keep their types; a
\* fetch makes at most max_attempts tries of a request (get_with_retry).
THEOREM FetchTypeCorrect == FetchSpec => []TypeOK
<1>1. Inv /\ ScfInv => TypeOK  BY InvGuarantees
<1> QED BY <1>1, FetchInvariant, PTL

\* However Socrata's rows change and requests fail, a fetch skips no row that
\* was in scope throughout (keyset paging, socrata.rs).
THEOREM FetchSkipsNothing == FetchSpec => []NothingSkipped
<1>1. Inv /\ ScfInv => NothingSkipped  BY InvGuarantees
<1> QED BY <1>1, FetchInvariant, PTL

\* ... and has no row on two pages.
THEOREM FetchRepeatsNothing == FetchSpec => []NothingRepeated
<1>1. Inv /\ ScfInv => NothingRepeated  BY InvGuarantees
<1> QED BY <1>1, FetchInvariant, PTL

\* A record whose two rowsUpdatedAt agree is the dataset of that time
\* (FetchRecord, raw.rs).
THEOREM QuietFetchesAreExact == FetchSpec => []QuietFetchIsExact
<1>1. Inv /\ ScfInv => QuietFetchIsExact  BY InvGuarantees
<1> QED BY <1>1, FetchInvariant, PTL

\* What RawDir::open accepts is one finished fetch, of either source, whole.
THEOREM BuildsOpenOneFetch == FetchSpec => []OpenedIsOneFetch
<1>1. Inv /\ ScfInv => OpenedIsOneFetch  BY InvGuarantees
<1> QED BY <1>1, FetchInvariant, PTL

\* Paging SeeClickFix by number loses no more requests than went while it ran,
\* for every page size, number of requests and order of what happens.
THEOREM ScfLosesAtMostRemovals == FetchSpec => []LosesAtMostRemovals
<1>1. Inv /\ ScfInv => LosesAtMostRemovals
  BY DEF ScfInv, FewLost, LosesAtMostRemovals, Paged
<1> QED BY <1>1, FetchInvariant, PTL

\* source.json accounts for every answer of SeeClickFix once, whatever came,
\* went or was handed to another organization meanwhile (seeclickfix::fetch).
THEOREM ScfAccountsForAll == FetchSpec => []SourceAccountsForAll
<1>1. InitFetch => AllCounted
  <2> SUFFICES ASSUME InitFetch, NEW p \in Fetcher PROVE Counted(scf[p])
    BY DEF AllCounted
  <2>1. scf[p] = Fresh("idle", {})  BY DEF InitFetch
  <2> QED BY <2>1, FreshCounted
<1>2. AllCounted => SourceAccountsForAll
  BY DEF AllCounted, Counted, SourceAccountsForAll, Fetched
<1> QED BY <1>1, <1>2, CountedNext, FetchInvariant, PTL DEF FetchSpec
===============================================================================
