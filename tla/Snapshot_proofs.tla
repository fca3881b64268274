--------------------------- MODULE Snapshot_proofs ---------------------------
(***************************************************************************)
(* A snapshot is what its raw directory says, and is published whole.      *)
(*                                                                         *)
(* Cleaning: for any records, in any order and on pages of any size, the   *)
(* rows, the dictionary, the rejects and the log are those that the        *)
(* records ask for by themselves.                                          *)
(*                                                                         *)
(* Building: builds that crash anywhere and builds of other content cannot *)
(* spoil a snapshot directory, for any builds and any number of attempts.  *)
(***************************************************************************)
EXTENDS Clean, SnapshotBuild, NaturalSets, SequenceTheorems, TLAPS

----------------------------------------------------------------------------
(* Cleaning: where the records read are.                                   *)

RecordAt(loc) == pages[loc[1]][loc[2]]

Locs == {loc \in Nat \X Nat : loc[1] \in DOMAIN pages /\ loc[2] \in DOMAIN pages[loc[1]]}

\* Every source row is on one place of one page, or still to be read.
PagesInv ==
    /\ pages \in Seq(Seq(DOMAIN Raw)) /\ Len(pages) # 0
    /\ left \subseteq DOMAIN Raw /\ IsFiniteSet(left) /\ IsFiniteSet(Read)
    /\ \A loc \in Locs : RecordAt(loc) \notin left
    /\ \A a, b \in Locs : RecordAt(a) = RecordAt(b) => a = b

\* The places that there are.
LEMMA LocsOf ==
    ASSUME PagesInv
    PROVE  /\ \A p \in Nat, i \in Nat :
                 <<p, i>> \in Locs <=> p \in 1 .. Len(pages) /\ i \in 1 .. Len(pages[p])
           /\ \A loc \in Locs : loc \in Nat \X Nat /\ loc = <<loc[1], loc[2]>>
           /\ \A loc \in Locs : RecordAt(loc) \in DOMAIN Raw
<1>1. DOMAIN pages = 1 .. Len(pages)  BY DEF PagesInv
<1>2. \A p \in 1 .. Len(pages) :
         pages[p] \in Seq(DOMAIN Raw) /\ DOMAIN pages[p] = 1 .. Len(pages[p])
  BY DEF PagesInv
<1>3. \A loc \in Locs : loc \in Nat \X Nat /\ loc = <<loc[1], loc[2]>>
  BY DEF Locs
<1>4. \A p \in Nat, i \in Nat :
         <<p, i>> \in Locs <=> p \in 1 .. Len(pages) /\ i \in 1 .. Len(pages[p])
  BY <1>1, <1>2 DEF Locs
<1>5. \A loc \in Locs : RecordAt(loc) \in DOMAIN Raw
  BY <1>1, <1>2 DEF Locs, RecordAt
<1> QED BY <1>3, <1>4, <1>5

LEMMA ReadAt ==
    ASSUME PagesInv
    PROVE  \A n : n \in Read <=> \E loc \in Locs : n = RecordAt(loc)
<1>1. ASSUME NEW n, n \in Read PROVE \E loc \in Locs : n = RecordAt(loc)
  <2>1. PICK p \in DOMAIN pages : \E i \in DOMAIN pages[p] : n = pages[p][i]
    BY <1>1 DEF Read
  <2>2. PICK i \in DOMAIN pages[p] : n = pages[p][i]  BY <2>1
  <2>3. p \in Nat /\ i \in Nat  BY <2>1, <2>2 DEF PagesInv
  <2>4. <<p, i>> \in Locs /\ RecordAt(<<p, i>>) = n
    BY <2>1, <2>2, <2>3 DEF Locs, RecordAt
  <2> QED BY <2>4
<1>2. ASSUME NEW loc \in Locs PROVE RecordAt(loc) \in Read
  BY DEF Locs, RecordAt, Read
<1> QED BY <1>1, <1>2

\* Where Stage finds the next record.
NextLoc ==
    LET last == Len(pages)
    IN  IF Len(pages[last]) = size THEN <<last + 1, 1>>
        ELSE <<last, Len(pages[last]) + 1>>

LEMMA StagePages ==
    ASSUME PagesInv, NEW n \in DOMAIN Raw, Stage(n), NEW here, here = NextLoc
    PROVE  /\ pages' \in Seq(Seq(DOMAIN Raw)) /\ Len(pages') # 0
           /\ here \in Nat \X Nat /\ here \notin Locs
           /\ \A loc : loc \in Locs' <=> loc \in Locs \/ loc = here
           /\ RecordAt(here)' = n
           /\ \A loc \in Locs : RecordAt(loc)' = RecordAt(loc)
<1> DEFINE last == Len(pages)
           m == Len(pages[last])
<1>1. /\ pages \in Seq(Seq(DOMAIN Raw)) /\ last \in Nat \ {0} /\ last \in 1 .. Len(pages)
      /\ DOMAIN pages = 1 .. last
  BY DEF PagesInv
<1>2. \A p \in 1 .. last : pages[p] \in Seq(DOMAIN Raw) /\ Len(pages[p]) \in Nat
                           /\ DOMAIN pages[p] = 1 .. Len(pages[p])
  BY <1>1
<1>3. m \in Nat  BY <1>1, <1>2
<1>4. PICK p, i :
         /\ here = <<p, i>> /\ p \in Nat /\ i \in Nat /\ here \notin Locs
         /\ pages' \in Seq(Seq(DOMAIN Raw)) /\ Len(pages') # 0
         /\ p \in DOMAIN pages' /\ i \in DOMAIN pages'[p] /\ pages'[p][i] = n
         /\ \A q, j \in Nat :
               q \in DOMAIN pages' /\ j \in DOMAIN pages'[q] =>
                  \/ q = p /\ j = i
                  \/ q \in DOMAIN pages /\ j \in DOMAIN pages[q]
         /\ \A q \in DOMAIN pages : \A j \in DOMAIN pages[q] :
               /\ q \in DOMAIN pages' /\ j \in DOMAIN pages'[q]
               /\ pages'[q][j] = pages[q][j]
  <2>1. CASE m = size
    <3>1. pages' = Append(pages, <<n>>) /\ here = <<last + 1, 1>>
      BY <2>1 DEF Stage, NextLoc
    <3>2. <<n>> \in Seq(DOMAIN Raw) /\ DOMAIN <<n>> = {1} /\ <<n>>[1] = n  OBVIOUS
    <3>3. /\ pages' \in Seq(Seq(DOMAIN Raw)) /\ Len(pages') = last + 1
          /\ \A p \in 1 .. last : pages'[p] = pages[p]
          /\ pages'[last + 1] = <<n>>
      BY <1>1, <3>1, <3>2
    <3>4. DOMAIN pages' = 1 .. last + 1  BY <3>3
    <3>5. here \notin Locs  BY <1>1, <3>1 DEF Locs
    <3>6. \A q \in 1 .. last + 1 : q = last + 1 \/ q \in 1 .. last  BY <1>1
    <3>7. last + 1 \in 1 .. last + 1 /\ \A q \in 1 .. last : q \in 1 .. last + 1
      BY <1>1
    <3> HIDE DEF last, m
    <3> WITNESS last + 1, 1
    <3> QED BY <1>1, <3>1, <3>2, <3>3, <3>4, <3>5, <3>6, <3>7
  <2>2. CASE m # size
    <3>1. /\ pages' = [pages EXCEPT ![last] = Append(@, n)] /\ here = <<last, m + 1>>
      BY <2>2 DEF Stage, NextLoc
    <3>2. /\ Append(pages[last], n) \in Seq(DOMAIN Raw)
          /\ DOMAIN Append(pages[last], n) = 1 .. m + 1
          /\ Append(pages[last], n)[m + 1] = n
          /\ \A j \in 1 .. m : Append(pages[last], n)[j] = pages[last][j]
      BY <1>1, <1>2, <1>3
    <3>3. /\ pages' \in Seq(Seq(DOMAIN Raw)) /\ Len(pages') = last
          /\ \A p \in 1 .. last : p # last => pages'[p] = pages[p]
          /\ pages'[last] = Append(pages[last], n)
      BY <1>1, <3>1, <3>2
    <3>4. DOMAIN pages' = 1 .. last  BY <3>3
    <3>5. here \notin Locs
      <4>1. DOMAIN pages[last] = 1 .. m  BY <1>1, <1>2
      <4>2. m + 1 \notin 1 .. m  BY <1>3
      <4> QED BY <3>1, <4>1, <4>2 DEF Locs
    <3>6. DOMAIN pages[last] = 1 .. m /\ m + 1 \in 1 .. m + 1 /\ last + 0 = last
          /\ (\A j \in 1 .. m + 1 : j = m + 1 \/ j \in 1 .. m)
          /\ (\A j \in 1 .. m : j \in 1 .. m + 1)
      BY <1>1, <1>2, <1>3
    <3>7. m + 1 \in Nat  BY <1>3
    <3> HIDE DEF last, m
    <3> WITNESS last, m + 1
    <3> QED BY <1>1, <3>1, <3>2, <3>3, <3>4, <3>5, <3>6, <3>7
  <2> QED BY <2>1, <2>2
<1>5. here[1] = p /\ here[2] = i  BY <1>4
<1>6. \A loc : loc \in Locs' <=> loc \in Locs \/ loc = here
  <2>1. ASSUME NEW loc, loc \in Locs' PROVE loc \in Locs \/ loc = here
    BY <1>4, <2>1 DEF Locs
  <2>2. ASSUME NEW loc \in Locs PROVE loc \in Locs'  BY <1>4 DEF Locs
  <2>3. here \in Locs'  BY <1>4, <1>5 DEF Locs
  <2> QED BY <2>1, <2>2, <2>3
<1>7. RecordAt(here)' = n  BY <1>4, <1>5 DEF RecordAt
<1>8. \A loc \in Locs : RecordAt(loc)' = RecordAt(loc)  BY <1>4 DEF RecordAt, Locs
<1> QED BY <1>4, <1>6, <1>7, <1>8

(***************************************************************************)
(* What is staged of them.                                                 *)
(***************************************************************************)

StagedRow == [loc : Nat \X Nat, key : Int, created : Scalar, closed : Scalar,
              text : Nat \cup {Absent}, location : (Scalar \X Scalar) \cup {Absent},
              value_fp : {Selected(c) : c \in Record}, record_fp : Int]

\* The record that a row was staged for.
Of(r) == Raw[RecordAt(staging.rows[r].loc)]

\* A text's id, in a table of texts.
IsId(values, id, v) ==
    IF v = Absent THEN id = Absent ELSE id \in DOMAIN values /\ values[id] = v

\* The row of a record without its id.
IsRowOf(row, c) ==
    /\ row.key = c.key /\ c.key \in Int /\ row.created = c.created
    /\ row.closed = Value(c, "closed") /\ row.location = Value(c, "location")
    /\ row.value_fp = Selected(c) /\ row.record_fp = Fingerprint(c)

RowsInv ==
    /\ staging.rows \in Seq(StagedRow)
    /\ \A r \in Positions :
          /\ staging.rows[r].loc \in Locs
          /\ IsRowOf(staging.rows[r], Of(r))
    /\ \A r, s \in Positions : staging.rows[r].loc = staging.rows[s].loc => r = s
    /\ \A loc \in Locs : Raw[RecordAt(loc)].key \notin Unread =>
          \E r \in Positions : staging.rows[r].loc = loc

TextsInv ==
    /\ staging.values \in Seq(Nat)
    /\ \A i, j \in DOMAIN staging.values :
          staging.values[i] = staging.values[j] => i = j
    /\ \A r \in Positions :
          IsId(staging.values, staging.rows[r].text, Value(Of(r), "text"))

LogInv ==
    \A e : e \in staging.log <=>
        \E r \in Positions, column \in Columns, rule \in ValueRules :
            /\ Fires(Of(r), column, rule)
            /\ e = [row |-> r, column |-> column, rule |-> rule,
                    raw_value |-> Field(Of(r), column)]

RejectsInv ==
    \A p : p \in staging.rejects <=>
        \E loc \in Locs :
            /\ Raw[RecordAt(loc)].key \in Unread
            /\ p = [loc |-> loc, rule |-> "InvalidKey", raw_key |-> Raw[RecordAt(loc)].key]

NoneStops == \A loc \in Locs : ~ Stops(Raw[RecordAt(loc)])

StagingInv ==
    /\ staging = [rows |-> staging.rows, values |-> staging.values,
                  log |-> staging.log, rejects |-> staging.rejects]
    /\ RowsInv /\ TextsInv /\ LogInv /\ RejectsInv /\ NoneStops

Stopped == cleaned = [ok |-> FALSE]

CleanInv == PagesInv /\ (Stopped \/ StagingInv)

\* What the values of a record can be, if it is staged.
LEMMA RecordTypes ==
    ASSUME NEW n \in DOMAIN Raw
    PROVE  /\ Raw[n] \in Record /\ Fingerprint(Raw[n]) \in Int
           /\ Raw[n].key \notin Unread /\ ~ Stops(Raw[n]) =>
                 /\ Raw[n].key \in Int
                 /\ Raw[n].text \in Text \cup {Absent}
                 /\ Value(Raw[n], "text") \in Nat \cup {Absent}
           /\ Value(Raw[n], "closed") \in Scalar
           /\ Value(Raw[n], "location") \in (Scalar \X Scalar) \cup {Absent}
<1>1. Raw[n] \in Record /\ Fingerprint(Raw[n]) \in Int  BY CleanAssumption
<1> DEFINE c == Raw[n]
<1> HIDE DEF c
<1>2. c \in Record  BY <1>1 DEF c
<1>3. c.key \notin Unread /\ ~ Stops(c) => c.key \in Int
  BY <1>2 DEF Record, Scalar, Stops, Unread
<1>4. Value(c, "closed") \in Scalar
  BY <1>2 DEF Value, Record, Scalar, Unread
<1>5. ASSUME c.key \notin Unread, ~ Stops(c)
      PROVE  c.text \in Text \cup {Absent} /\ Value(c, "text") \in Nat \cup {Absent}
  <2>1. c.text # NonScalar  BY <1>5 DEF Stops
  <2>2. c.text \in Text \cup {Absent}  BY <1>2, <2>1 DEF Record
  <2>3. c.text \in Text => c.text.value \in Nat  BY DEF Text
  <2> QED BY <2>2, <2>3 DEF Value
<1>6. Value(c, "location") \in (Scalar \X Scalar) \cup {Absent}
  BY <1>2 DEF Value, Record
<1> QED BY <1>1, <1>3, <1>4, <1>5, <1>6 DEF c

\* The rest of PagesInv: the record read is one of those left.
LEMMA PagesInvStage ==
    ASSUME PagesInv, NEW n \in DOMAIN Raw, Stage(n)
    PROVE  PagesInv'
<1>1. PICK loc0 : loc0 = NextLoc  OBVIOUS
<1>2. /\ pages' \in Seq(Seq(DOMAIN Raw)) /\ Len(pages') # 0
      /\ loc0 \notin Locs
      /\ \A loc : loc \in Locs' <=> loc \in Locs \/ loc = loc0
      /\ RecordAt(loc0)' = n
      /\ \A loc \in Locs : RecordAt(loc)' = RecordAt(loc)
  BY <1>1, StagePages
<1>3. n \in left /\ left' = left \ {n} /\ left \subseteq DOMAIN Raw /\ IsFiniteSet(left)
  BY DEF Stage, PagesInv
<1>4. left' \subseteq DOMAIN Raw /\ IsFiniteSet(left')  BY <1>3, FS_Subset
<1>5. /\ \A loc \in Locs : RecordAt(loc) \notin left
      /\ \A a, b \in Locs : RecordAt(a) = RecordAt(b) => a = b
  BY DEF PagesInv
<1> HIDE DEF Locs, RecordAt
<1>6. \A loc \in Locs' : RecordAt(loc)' \notin left'
  <2> TAKE loc \in Locs'
  <2>1. CASE loc = loc0  BY <1>2, <1>3, <2>1
  <2>2. CASE loc \in Locs  BY <1>2, <1>3, <1>5, <2>2
  <2> QED BY <1>2, <2>1, <2>2
<1>7. ASSUME NEW a \in Locs', NEW b \in Locs', RecordAt(a)' = RecordAt(b)' PROVE a = b
  <2>1. ASSUME NEW loc \in Locs PROVE RecordAt(loc)' # n  BY <1>2, <1>3, <1>5
  <2>2. CASE a = loc0 /\ b = loc0  BY <2>2
  <2>3. CASE a = loc0 /\ b \in Locs  BY <1>2, <1>7, <2>1, <2>3
  <2>4. CASE a \in Locs /\ b = loc0  BY <1>2, <1>7, <2>1, <2>4
  <2>5. CASE a \in Locs /\ b \in Locs  BY <1>2, <1>7, <1>5, <2>5
  <2> QED BY <1>2, <2>2, <2>3, <2>4, <2>5
<1>8. IsFiniteSet(Read')
  <2>1. \A m : m \in Read' <=> \E loc \in Locs' : m = RecordAt(loc)'
    <3>1. ASSUME NEW m, m \in Read' PROVE \E loc \in Locs' : m = RecordAt(loc)'
      <4>1. PICK p \in DOMAIN pages' : \E i \in DOMAIN pages'[p] : m = pages'[p][i]
        BY <3>1 DEF Read
      <4>2. PICK i \in DOMAIN pages'[p] : m = pages'[p][i]  BY <4>1
      <4>3. p \in Nat /\ i \in Nat  BY <1>2, <4>1, <4>2
      <4>4. <<p, i>> \in Locs' /\ RecordAt(<<p, i>>)' = m
        BY <4>1, <4>2, <4>3 DEF Locs, RecordAt
      <4> QED BY <4>4
    <3>2. ASSUME NEW loc \in Locs' PROVE RecordAt(loc)' \in Read'
      BY DEF Locs, RecordAt, Read
    <3> QED BY <3>1, <3>2
  <2>2. Read' \subseteq Read \cup {n}  BY <1>2, <2>1, ReadAt
  <2>3. IsFiniteSet(Read \cup {n})  BY FS_AddElement DEF PagesInv
  <2> QED BY <2>2, <2>3, FS_Subset
<1> QED BY <1>2, <1>4, <1>6, <1>7, <1>8 DEF PagesInv

\* What a record adds to what is staged.
Entries(c, position) ==
    {[row |-> position, column |-> e[1], rule |-> e[2],
      raw_value |-> Field(c, e[1])] :
         e \in {x \in Columns \X ValueRules : Fires(c, x[1], x[2])}}

LEMMA StagedIs ==
    ASSUME NEW c, NEW loc
    PROVE  LET t == Value(c, "text")
               row == [loc |-> loc, key |-> c.key, created |-> c.created,
                       closed |-> Value(c, "closed"),
                       text |-> IF t = Absent THEN Absent
                                ELSE Intern(staging.values, t),
                       location |-> Value(c, "location"),
                       value_fp |-> Selected(c), record_fp |-> Fingerprint(c)]
           IN  Staged(c, loc) =
                 IF c.key \in Unread
                 THEN [staging EXCEPT !.rejects = @ \cup
                         {[loc |-> loc, rule |-> "InvalidKey", raw_key |-> c.key]}]
                 ELSE [rows |-> Append(staging.rows, row),
                       values |-> Interned(staging.values, t),
                       log |-> staging.log \cup Entries(c, Len(staging.rows) + 1),
                       rejects |-> staging.rejects]
  BY DEF Staged, Entries

\* A text met gets an id, and the ids given before stay.
LEMMA InternOne ==
    ASSUME NEW values \in Seq(Nat), NEW v \in Nat \cup {Absent}, NEW id,
           \A i, j \in DOMAIN values : values[i] = values[j] => i = j,
           id = IF v = Absent THEN Absent ELSE Intern(values, v)
    PROVE  /\ Interned(values, v) \in Seq(Nat)
           /\ \A i, j \in DOMAIN Interned(values, v) :
                 Interned(values, v)[i] = Interned(values, v)[j] => i = j
           /\ IsId(Interned(values, v), id, v) /\ id \in Nat \cup {Absent}
           /\ \A i \in DOMAIN values : i \in DOMAIN Interned(values, v)
                                      /\ Interned(values, v)[i] = values[i]
<1>1. Absent \notin Nat  BY CleanAssumption
<1>2. Len(values) \in Nat /\ DOMAIN values = 1 .. Len(values)  OBVIOUS
<1>3. CASE v = Absent  BY <1>3 DEF Interned, IsId
<1>4. CASE v # Absent /\ \E i \in DOMAIN values : values[i] = v
  <2>1. id \in DOMAIN values /\ values[id] = v /\ id = Intern(values, v)
    BY <1>4 DEF Intern
  <2>2. id <= Len(values) /\ id \in Nat  BY <1>2, <2>1
  <2>3. Interned(values, v) = values  BY <2>1, <2>2 DEF Interned
  <2> QED BY <1>4, <2>1, <2>2, <2>3 DEF IsId
<1>5. CASE v # Absent /\ ~ \E i \in DOMAIN values : values[i] = v
  <2>1. id = Len(values) + 1 /\ id = Intern(values, v)  BY <1>5 DEF Intern
  <2>2. Interned(values, v) = Append(values, v)
    <3>1. ~ (Intern(values, v) <= Len(values))  BY <1>2, <2>1
    <3> QED BY <1>5, <3>1 DEF Interned
  <2>3. v \in Nat  BY <1>5
  <2> DEFINE w == Append(values, v)
  <2>4. /\ w \in Seq(Nat) /\ DOMAIN w = 1 .. Len(values) + 1
        /\ w[Len(values) + 1] = v /\ \A i \in 1 .. Len(values) : w[i] = values[i]
    BY <2>3
  <2> HIDE DEF w
  <2>5. \A i \in DOMAIN w : i \in DOMAIN values \/ i = Len(values) + 1
    BY <1>2, <2>4
  <2>6. \A i, j \in DOMAIN w : w[i] = w[j] => i = j
    BY <1>2, <1>5, <2>4, <2>5
  <2>7. \A i \in DOMAIN values : i \in DOMAIN w  BY <1>2, <2>4
  <2>8. id \in DOMAIN w /\ w[id] = v /\ id \in Nat  BY <1>2, <2>1, <2>4
  <2> QED BY <1>2, <1>5, <2>2, <2>4, <2>6, <2>7, <2>8 DEF w, IsId
<1> QED BY <1>3, <1>4, <1>5

\* A row that stays is of the record it was of.
LEMMA RowStays ==
    ASSUME StagingInv, NEW r \in Positions, staging'.rows[r] = staging.rows[r],
           \A loc \in Locs : RecordAt(loc)' = RecordAt(loc)
    PROVE  Of(r)' = Of(r)
<1>1. staging.rows[r].loc \in Locs  BY DEF StagingInv, RowsInv
<1>2. RecordAt(staging.rows[r].loc)'
        = pages'[(staging'.rows[r].loc)[1]][(staging'.rows[r].loc)[2]]
  BY DEF RecordAt
<1> DEFINE loc == staging.rows[r].loc
<1>3. PICK l \in Locs : l = loc  BY <1>1
<1>4. RecordAt(l)' = RecordAt(l)  BY <1>3
<1> QED BY <1>3, <1>4 DEF Of, RecordAt

\* A record without a key is noted as a reject.
LEMMA StageRejected ==
    ASSUME PagesInv, StagingInv, NEW n \in DOMAIN Raw, Stage(n), ~ Stops(Raw[n]),
           Raw[n].key \in Unread
    PROVE  StagingInv'
<1>1. PICK here : here = NextLoc  OBVIOUS
<1>2. /\ here \notin Locs /\ \A loc : loc \in Locs' <=> loc \in Locs \/ loc = here
      /\ RecordAt(here)' = n /\ \A loc \in Locs : RecordAt(loc)' = RecordAt(loc)
  BY <1>1, StagePages
<1> DEFINE c == Raw[n]
           p0 == [loc |-> here, rule |-> "InvalidKey", raw_key |-> c.key]
<1>3. staging' = [staging EXCEPT !.rejects = @ \cup {p0}]
  <2>1. staging' = Staged(c, here)  BY <1>1 DEF Stage, NextLoc
  <2> QED BY <2>1, StagedIs
<1>4. /\ staging' = [rows |-> staging.rows, values |-> staging.values,
                     log |-> staging.log, rejects |-> staging.rejects \cup {p0}]
  BY <1>3 DEF StagingInv
<1>5. /\ staging'.rows = staging.rows /\ staging'.values = staging.values
      /\ staging'.log = staging.log /\ staging'.rejects = staging.rejects \cup {p0}
  BY <1>4
<1>6. Positions' = Positions  BY <1>5 DEF Positions
<1>7. \A r \in Positions : Of(r)' = Of(r)  BY <1>2, <1>5, RowStays
<1> HIDE DEF Positions, Locs
<1>8. RowsInv'
  <2>1. \A r \in Positions' : /\ staging'.rows[r].loc \in Locs'
                               /\ IsRowOf(staging'.rows[r], Of(r)')
    BY <1>2, <1>5, <1>6, <1>7 DEF StagingInv, RowsInv
  <2>2. \A loc \in Locs' : Raw[RecordAt(loc)'].key \notin Unread =>
           \E r \in Positions' : staging'.rows[r].loc = loc
    BY <1>2, <1>5, <1>6 DEF StagingInv, RowsInv
  <2> QED BY <1>5, <1>6, <2>1, <2>2 DEF StagingInv, RowsInv, IsRowOf
<1>9. TextsInv'
  BY <1>5, <1>6, <1>7 DEF StagingInv, TextsInv, IsId
<1>10. LogInv'
  BY <1>5, <1>6, <1>7 DEF StagingInv, LogInv
<1>11. RejectsInv'
  <2>1. Raw[RecordAt(here)'].key \in Unread  BY <1>2
  <2>2. \A p : p \in staging'.rejects <=> p \in staging.rejects \/ p = p0  BY <1>5
  <2>3. \A loc \in Locs : Raw[RecordAt(loc)'] = Raw[RecordAt(loc)]  BY <1>2
  <2> SUFFICES ASSUME NEW p
               PROVE  p \in staging'.rejects <=>
                        \E loc \in Locs' :
                          /\ Raw[RecordAt(loc)'].key \in Unread
                          /\ p = [loc |-> loc, rule |-> "InvalidKey",
                                  raw_key |-> Raw[RecordAt(loc)'].key]
    BY DEF RejectsInv
  <2>4. p \in staging.rejects <=>
          \E loc \in Locs :
            /\ Raw[RecordAt(loc)].key \in Unread
            /\ p = [loc |-> loc, rule |-> "InvalidKey", raw_key |-> Raw[RecordAt(loc)].key]
    BY DEF StagingInv, RejectsInv
  <2>5. p = p0 <=> /\ Raw[RecordAt(here)'].key \in Unread
                   /\ p = [loc |-> here, rule |-> "InvalidKey",
                           raw_key |-> Raw[RecordAt(here)'].key]
    BY <1>2, <2>1
  <2> HIDE DEF RecordAt, p0
  <2> QED BY <1>2, <2>2, <2>3, <2>4, <2>5
<1>12. NoneStops'  BY <1>2 DEF StagingInv, NoneStops
<1>13. staging' = [rows |-> staging'.rows, values |-> staging'.values,
                   log |-> staging'.log, rejects |-> staging'.rejects]
  BY <1>4, <1>5
<1> QED BY <1>8, <1>9, <1>10, <1>11, <1>12, <1>13 DEF StagingInv

\* A record with a key gets the next position.
LEMMA StageRow ==
    ASSUME PagesInv, StagingInv, NEW n \in DOMAIN Raw, Stage(n), ~ Stops(Raw[n]),
           Raw[n].key \notin Unread
    PROVE  StagingInv'
<1>1. PICK here : here = NextLoc  OBVIOUS
<1>2. /\ here \notin Locs /\ \A loc : loc \in Locs' <=> loc \in Locs \/ loc = here
      /\ RecordAt(here)' = n /\ \A loc \in Locs : RecordAt(loc)' = RecordAt(loc)
      /\ here \in Nat \X Nat
  BY <1>1, StagePages
<1>3. PICK m : m = Len(staging.rows) + 1  OBVIOUS
<1> DEFINE c == Raw[n]
           t == Value(c, "text")
           id == IF t = Absent THEN Absent ELSE Intern(staging.values, t)
           row == [loc |-> here, key |-> c.key, created |-> c.created,
                   closed |-> Value(c, "closed"), text |-> id,
                   location |-> Value(c, "location"),
                   value_fp |-> Selected(c), record_fp |-> Fingerprint(c)]
<1>4. /\ staging' = [rows |-> Append(staging.rows, row),
                     values |-> Interned(staging.values, t),
                     log |-> staging.log \cup Entries(c, m),
                     rejects |-> staging.rejects]
  <2>1. staging' = Staged(c, here)  BY <1>1 DEF Stage, NextLoc
  <2> QED BY <1>3, <2>1, StagedIs
<1>5. /\ c \in Record /\ Fingerprint(c) \in Int /\ c.key \in Int
      /\ t \in Nat \cup {Absent} /\ Value(c, "closed") \in Scalar
      /\ Value(c, "location") \in (Scalar \X Scalar) \cup {Absent}
  BY RecordTypes
<1>6. /\ Interned(staging.values, t) \in Seq(Nat)
      /\ \A i, j \in DOMAIN Interned(staging.values, t) :
            Interned(staging.values, t)[i] = Interned(staging.values, t)[j] => i = j
      /\ IsId(Interned(staging.values, t), id, t) /\ id \in Nat \cup {Absent}
      /\ \A i \in DOMAIN staging.values :
            /\ i \in DOMAIN Interned(staging.values, t)
            /\ Interned(staging.values, t)[i] = staging.values[i]
  <2>1. /\ staging.values \in Seq(Nat)
        /\ \A i, j \in DOMAIN staging.values :
              staging.values[i] = staging.values[j] => i = j
    BY DEF StagingInv, TextsInv
  <2> HIDE DEF t
  <2> QED BY <1>5, <2>1, InternOne
<1>7. row \in StagedRow /\ IsRowOf(row, c) /\ row.loc = here /\ row.text = id
  <2>1. c.created \in Scalar  BY <1>5 DEF Record
  <2> HIDE DEF c, id
  <2> QED BY <1>2, <1>5, <1>6, <2>1 DEF StagedRow, IsRowOf
<1> HIDE DEF row, id
<1>8. /\ staging'.rows = Append(staging.rows, row)
      /\ staging'.values = Interned(staging.values, t)
      /\ staging'.log = staging.log \cup Entries(c, m)
      /\ staging'.rejects = staging.rejects
  BY <1>4
<1>9. /\ staging'.rows \in Seq(StagedRow) /\ m \in Nat \ {0}
      /\ Positions' = Positions \cup {m} /\ m \notin Positions
      /\ staging'.rows[m] = row
      /\ \A r \in Positions : staging'.rows[r] = staging.rows[r]
  <2>1. staging.rows \in Seq(StagedRow)  BY DEF StagingInv, RowsInv
  <2>2. Len(staging.rows) \in Nat /\ Len(staging'.rows) = m /\ m \in Nat \ {0}
    BY <1>3, <1>7, <1>8, <2>1
  <2>3. Positions = 1 .. Len(staging.rows) /\ Positions' = 1 .. m
    BY <2>2 DEF Positions
  <2>4. 1 .. m = (1 .. Len(staging.rows)) \cup {m} /\ m \notin 1 .. Len(staging.rows)
    BY <1>3, <2>2
  <2> QED BY <1>3, <1>7, <1>8, <2>1, <2>2, <2>3, <2>4
<1>10. \A r \in Positions : Of(r)' = Of(r)  BY <1>2, <1>9, RowStays
<1>11. Of(m)' = c
  <2>1. staging'.rows[m].loc = here  BY <1>7, <1>9
  <2>2. pages'[here[1]][here[2]] = n  BY <1>2 DEF RecordAt
  <2> QED BY <2>1, <2>2 DEF Of, RecordAt
<1> HIDE DEF Positions, Locs
<1>12. RowsInv'
  <2>1. \A r \in Positions' : /\ staging'.rows[r].loc \in Locs'
                               /\ IsRowOf(staging'.rows[r], Of(r)')
    BY <1>2, <1>7, <1>9, <1>10, <1>11 DEF StagingInv, RowsInv
  <2>2. \A r, s \in Positions' : staging'.rows[r].loc = staging'.rows[s].loc => r = s
    <3>1. \A r \in Positions : staging.rows[r].loc \in Locs
      BY DEF StagingInv, RowsInv
    <3>2. \A r, s \in Positions : staging.rows[r].loc = staging.rows[s].loc => r = s
      BY DEF StagingInv, RowsInv
    <3>3. staging'.rows[m].loc \notin Locs  BY <1>2, <1>7, <1>9
    <3>4. \A r \in Positions : staging'.rows[r].loc = staging.rows[r].loc  BY <1>9
    <3> SUFFICES ASSUME NEW r \in Positions', NEW s \in Positions',
                        staging'.rows[r].loc = staging'.rows[s].loc
                 PROVE  r = s
      OBVIOUS
    <3>5. CASE r = m /\ s = m  BY <3>5
    <3>6. CASE r = m /\ s \in Positions  BY <3>1, <3>3, <3>4, <3>6
    <3>7. CASE r \in Positions /\ s = m  BY <3>1, <3>3, <3>4, <3>7
    <3>8. CASE r \in Positions /\ s \in Positions  BY <3>2, <3>4, <3>8
    <3> QED BY <1>9, <3>5, <3>6, <3>7, <3>8
  <2>3. \A loc \in Locs' : Raw[RecordAt(loc)'].key \notin Unread =>
           \E r \in Positions' : staging'.rows[r].loc = loc
    <3> SUFFICES ASSUME NEW loc \in Locs', Raw[RecordAt(loc)'].key \notin Unread
                 PROVE  \E r \in Positions' : staging'.rows[r].loc = loc
      OBVIOUS
    <3>1. CASE loc = here  BY <1>7, <1>9, <3>1
    <3>2. CASE loc \in Locs
      <4>1. \E r \in Positions : staging.rows[r].loc = loc
        BY <1>2, <3>2 DEF StagingInv, RowsInv
      <4> QED BY <1>9, <4>1
    <3> QED BY <1>2, <3>1, <3>2
  <2> QED BY <1>9, <2>1, <2>2, <2>3 DEF RowsInv, IsRowOf
<1>13. TextsInv'
  <2>1. \A r \in Positions' :
           IsId(staging'.values, staging'.rows[r].text, Value(Of(r)', "text"))
    <3>1. IsId(staging'.values, staging'.rows[m].text, Value(Of(m)', "text"))
      BY <1>6, <1>7, <1>8, <1>9, <1>11
    <3>2. \A r \in Positions :
             IsId(staging.values, staging.rows[r].text, Value(Of(r), "text"))
      BY DEF StagingInv, TextsInv
    <3>3. \A r \in Positions :
             IsId(staging'.values, staging'.rows[r].text, Value(Of(r)', "text"))
      <4> TAKE r \in Positions
      <4>1. IsId(staging.values, staging.rows[r].text, Value(Of(r), "text"))
        BY <3>2
      <4>2. Value(Of(r)', "text") = Value(Of(r), "text")  BY <1>10
      <4>3. staging'.rows[r].text = staging.rows[r].text  BY <1>9
      <4> HIDE DEF t
      <4>4. \A id0, v : IsId(staging.values, id0, v) => IsId(staging'.values, id0, v)
        BY <1>6, <1>8 DEF IsId
      <4> QED BY <4>1, <4>2, <4>3, <4>4
    <3> QED BY <1>9, <3>1, <3>3
  <2> QED BY <1>6, <1>8, <2>1 DEF TextsInv, IsId
<1>14. LogInv'
  <2> HIDE DEF c
  <2>1. \A e : e \in Entries(c, m) <=>
           \E column \in Columns, rule \in ValueRules :
              /\ Fires(c, column, rule)
              /\ e = [row |-> m, column |-> column, rule |-> rule,
                      raw_value |-> Field(c, column)]
    <3> SUFFICES ASSUME NEW e
                 PROVE  e \in Entries(c, m) <=>
                          \E column \in Columns, rule \in ValueRules :
                            /\ Fires(c, column, rule)
                            /\ e = [row |-> m, column |-> column, rule |-> rule,
                                    raw_value |-> Field(c, column)]
      OBVIOUS
    <3>1. ASSUME e \in Entries(c, m)
          PROVE  \E column \in Columns, rule \in ValueRules :
                    /\ Fires(c, column, rule)
                    /\ e = [row |-> m, column |-> column, rule |-> rule,
                            raw_value |-> Field(c, column)]
      <4>1. PICK x \in Columns \X ValueRules :
               /\ Fires(c, x[1], x[2])
               /\ e = [row |-> m, column |-> x[1], rule |-> x[2],
                       raw_value |-> Field(c, x[1])]
        BY <3>1 DEF Entries
      <4>2. x[1] \in Columns /\ x[2] \in ValueRules  OBVIOUS
      <4> QED BY <4>1, <4>2
    <3>2. ASSUME NEW column \in Columns, NEW rule \in ValueRules,
                 Fires(c, column, rule)
          PROVE  [row |-> m, column |-> column, rule |-> rule,
                  raw_value |-> Field(c, column)] \in Entries(c, m)
      <4>1. <<column, rule>> \in {x \in Columns \X ValueRules : Fires(c, x[1], x[2])}
        BY <3>2
      <4> QED BY <4>1 DEF Entries
    <3> QED BY <3>1, <3>2
  <2>2. \A e : e \in staging'.log <=> e \in staging.log \/ e \in Entries(c, m)
    BY <1>8
  <2>3. \A e : e \in staging'.log <=>
        \E r \in Positions' : \E column \in Columns, rule \in ValueRules :
            /\ Fires(Of(r)', column, rule)
            /\ e = [row |-> r, column |-> column, rule |-> rule,
                    raw_value |-> Field(Of(r)', column)]
    <3> SUFFICES ASSUME NEW e
                 PROVE  e \in staging'.log <=>
                          \E r \in Positions' : \E column \in Columns, rule \in ValueRules :
                            /\ Fires(Of(r)', column, rule)
                            /\ e = [row |-> r, column |-> column, rule |-> rule,
                                    raw_value |-> Field(Of(r)', column)]
      OBVIOUS
    <3> DEFINE Noted(d, r) == \E column \in Columns, rule \in ValueRules :
                   /\ Fires(d, column, rule)
                   /\ e = [row |-> r, column |-> column, rule |-> rule,
                           raw_value |-> Field(d, column)]
    <3>1. e \in staging.log <=> \E r \in Positions : Noted(Of(r), r)
      BY DEF StagingInv, LogInv
    <3>2. e \in Entries(c, m) <=> Noted(c, m)  BY <2>1
    <3> HIDE DEF Noted
    <3>3. (\E r \in Positions' : Noted(Of(r)', r))
            <=> Noted(c, m) \/ \E r \in Positions : Noted(Of(r), r)
      BY <1>9, <1>10, <1>11
    <3>4. e \in staging'.log <=> \E r \in Positions' : Noted(Of(r)', r)
      BY <2>2, <3>1, <3>2, <3>3
    <3> QED BY <3>4 DEF Noted
  <2> QED BY <2>3 DEF LogInv
<1>15. RejectsInv'
  <2>1. \A loc \in Locs : Raw[RecordAt(loc)'] = Raw[RecordAt(loc)]  BY <1>2
  <2>2. Raw[RecordAt(here)'].key \notin Unread  BY <1>2
  <2> HIDE DEF RecordAt, c
  <2> QED BY <1>2, <1>8, <2>1, <2>2 DEF StagingInv, RejectsInv
<1>16. NoneStops'  BY <1>2 DEF StagingInv, NoneStops
<1>17. staging' = [rows |-> staging'.rows, values |-> staging'.values,
                   log |-> staging'.log, rejects |-> staging'.rejects]
  BY <1>4, <1>8
<1> QED BY <1>12, <1>13, <1>14, <1>15, <1>16, <1>17 DEF StagingInv

----------------------------------------------------------------------------
(* The invariant of cleaning.                                              *)

LEMMA StartCleanInv == CleanInit => CleanInv
<1> SUFFICES ASSUME CleanInit PROVE CleanInv
  OBVIOUS
<1>1. /\ pages = << << >> >> /\ Len(pages) = 1 /\ DOMAIN pages = {1}
      /\ pages[1] = << >> /\ DOMAIN pages[1] = {}
  BY DEF CleanInit
<1>2. \A loc : loc \notin Locs  BY <1>1 DEF Locs
<1>3. PagesInv
  <2>1. << >> \in Seq(DOMAIN Raw)  OBVIOUS
  <2>2. pages \in Seq(Seq(DOMAIN Raw))  BY <1>1, <2>1
  <2>3. left \subseteq DOMAIN Raw /\ IsFiniteSet(left)
    BY CleanAssumption DEF CleanInit
  <2>4. Read = {}  BY <1>1 DEF Read
  <2>5. IsFiniteSet(Read)  BY <2>4, FS_EmptySet
  <2> QED BY <1>1, <1>2, <2>2, <2>3, <2>5 DEF PagesInv
<1>4. /\ staging.rows = << >> /\ staging.values = << >> /\ staging.log = {}
      /\ staging.rejects = {}
  BY DEF CleanInit
<1>5. Positions = {}  BY <1>4 DEF Positions
<1>6. RowsInv  BY <1>2, <1>4, <1>5 DEF RowsInv
<1>7. TextsInv  BY <1>4, <1>5 DEF TextsInv
<1>8. LogInv  BY <1>4, <1>5 DEF LogInv
<1>9. RejectsInv  BY <1>2, <1>4 DEF RejectsInv
<1>10. NoneStops  BY <1>2 DEF NoneStops
<1>11. staging = [rows |-> staging.rows, values |-> staging.values,
                  log |-> staging.log, rejects |-> staging.rejects]
  BY DEF CleanInit
<1> QED BY <1>3, <1>6, <1>7, <1>8, <1>9, <1>10, <1>11 DEF CleanInv, StagingInv

\* Finish changes nothing that the invariant is about.
LEMMA SameCleanInv ==
    ASSUME CleanInv, UNCHANGED <<left, pages, staging>>,
           Stopped => Stopped'
    PROVE  CleanInv'
<1>1. PagesInv'  BY DEF CleanInv, PagesInv, Read, Locs, RecordAt
<1>2. pages' = pages /\ staging' = staging  OBVIOUS
<1>3. Positions' = Positions /\ Locs' = Locs /\ \A loc : RecordAt(loc)' = RecordAt(loc)
  BY <1>2 DEF Positions, Locs, RecordAt
<1>4. \A r : Of(r)' = Of(r)  BY <1>2 DEF Of, RecordAt
<1>5. RowsInv => RowsInv'  BY <1>2, <1>3, <1>4 DEF RowsInv, IsRowOf
<1>6. TextsInv => TextsInv'  BY <1>2, <1>3, <1>4 DEF TextsInv, IsId
<1>7. LogInv => LogInv'  BY <1>2, <1>3, <1>4 DEF LogInv
<1>8. RejectsInv => RejectsInv'  BY <1>2 DEF RejectsInv, Locs, RecordAt
<1>9. NoneStops => NoneStops'  BY <1>2 DEF NoneStops, Locs, RecordAt
<1>10. StagingInv => StagingInv'
  BY <1>2, <1>5, <1>6, <1>7, <1>8, <1>9 DEF StagingInv
<1> QED BY <1>1, <1>10 DEF CleanInv

LEMMA StepCleanInv == CleanInv /\ [CleanNext]_cleanVars => CleanInv'
<1> SUFFICES ASSUME CleanInv, [CleanNext]_cleanVars PROVE CleanInv'
  OBVIOUS
<1>1. CASE Finish
  <2>1. ~ Stopped  BY <1>1, CleanAssumption DEF Finish, Stopped
  <2> QED BY <1>1, <2>1, SameCleanInv DEF Finish
<1>2. ASSUME NEW n \in DOMAIN Raw, Stage(n) PROVE CleanInv'
  <2>1. PagesInv'  BY <1>2, PagesInvStage DEF CleanInv
  <2>2. ~ Stopped  BY <1>2, CleanAssumption DEF Stage, Stopped
  <2>3. PagesInv /\ StagingInv  BY <2>2 DEF CleanInv
  <2>4. CASE Stops(Raw[n])
    <3>1. Stopped'  BY <1>2, <2>4 DEF Stage, Stopped
    <3> QED BY <2>1, <3>1 DEF CleanInv
  <2>5. CASE ~ Stops(Raw[n]) /\ Raw[n].key \in Unread
    BY <1>2, <2>1, <2>3, <2>5, StageRejected DEF CleanInv
  <2>6. CASE ~ Stops(Raw[n]) /\ Raw[n].key \notin Unread
    BY <1>2, <2>1, <2>3, <2>6, StageRow DEF CleanInv
  <2> QED BY <2>4, <2>5, <2>6
<1>3. CASE UNCHANGED cleanVars
  <2>1. UNCHANGED <<left, pages, staging>> /\ (Stopped => Stopped')
    BY <1>3 DEF cleanVars, Stopped
  <2> QED BY <2>1, SameCleanInv
<1> QED BY <1>1, <1>2, <1>3 DEF CleanNext

LEMMA CleanInvHolds == CleanSpec => []CleanInv
<1> QED BY StartCleanInv, StepCleanInv, PTL DEF CleanSpec

----------------------------------------------------------------------------
(* Rows and the source rows they were staged for.                          *)

Src(r) == RecordAt(staging.rows[r].loc)

\* The rows are of the records with a key, one of each.
LEMMA SourceOf ==
    ASSUME PagesInv, StagingInv
    PROVE  /\ \A r \in Positions :
                 /\ Src(r) \in Keyed /\ Of(r) = Raw[Src(r)]
                 /\ IsRowOf(staging.rows[r], Of(r)) /\ ~ Stops(Of(r))
           /\ \A r, s \in Positions : Src(r) = Src(s) => r = s
           /\ \A n \in Keyed : \E r \in Positions : n = Src(r)
           /\ \A n \in Read : n \in DOMAIN Raw
<1>1. /\ \A n : n \in Read <=> \E loc \in Locs : n = RecordAt(loc)
      /\ \A loc \in Locs : RecordAt(loc) \in DOMAIN Raw
  BY ReadAt, LocsOf
<1>2. /\ \A r \in Positions : /\ staging.rows[r].loc \in Locs
                              /\ IsRowOf(staging.rows[r], Of(r))
      /\ \A r, s \in Positions : staging.rows[r].loc = staging.rows[s].loc => r = s
      /\ \A loc \in Locs : Raw[RecordAt(loc)].key \notin Unread =>
            \E r \in Positions : staging.rows[r].loc = loc
      /\ \A loc \in Locs : ~ Stops(Raw[RecordAt(loc)])
  BY DEF StagingInv, RowsInv, NoneStops
<1>3. \A a, b \in Locs : RecordAt(a) = RecordAt(b) => a = b  BY DEF PagesInv
<1>4. \A v \in Unread : v \notin Int  BY CleanAssumption DEF Unread
<1>5. ASSUME NEW r \in Positions
      PROVE  /\ Src(r) \in Keyed /\ Of(r) = Raw[Src(r)]
             /\ IsRowOf(staging.rows[r], Of(r)) /\ ~ Stops(Of(r))
  <2>1. Of(r) = Raw[Src(r)]  BY DEF Of, Src
  <2>2. Src(r) \in Read /\ ~ Stops(Raw[Src(r)])  BY <1>1, <1>2 DEF Src
  <2>3. Of(r).key \in Int  BY <1>2 DEF IsRowOf
  <2>4. Src(r) \in Keyed  BY <1>4, <2>1, <2>2, <2>3 DEF Keyed
  <2> QED BY <1>2, <2>1, <2>2, <2>4
<1>6. ASSUME NEW r \in Positions, NEW s \in Positions, Src(r) = Src(s) PROVE r = s
  BY <1>2, <1>3, <1>6 DEF Src
<1>7. ASSUME NEW n \in Keyed PROVE \E r \in Positions : n = Src(r)
  <2>1. n \in Read /\ Raw[n].key \notin Unread  BY DEF Keyed
  <2>2. PICK loc \in Locs : n = RecordAt(loc)  BY <1>1, <2>1
  <2>3. PICK r \in Positions : staging.rows[r].loc = loc  BY <1>2, <2>1, <2>2
  <2> QED BY <2>2, <2>3 DEF Src
<1> QED BY <1>1, <1>5, <1>6, <1>7

LEMMA FieldsOf ==
    ASSUME PagesInv, StagingInv, NEW r \in Positions
    PROVE  /\ Of(r) \in Record /\ Of(r).key \in Int
           /\ Of(r).created \in Int \/ Of(r).created \in Unread
           /\ staging.rows[r].key = Of(r).key
           /\ staging.rows[r].created = Of(r).created
           /\ staging.rows[r].closed = Value(Of(r), "closed")
           /\ staging.rows[r].location = Value(Of(r), "location")
           /\ staging.rows[r].value_fp = Selected(Of(r))
           /\ staging.rows[r].record_fp = Fingerprint(Of(r))
           /\ Fingerprint(Of(r)) \in Int
           /\ IsId(staging.values, staging.rows[r].text, Value(Of(r), "text"))
<1>1. /\ Src(r) \in DOMAIN Raw /\ Of(r) = Raw[Src(r)]
      /\ IsRowOf(staging.rows[r], Of(r)) /\ ~ Stops(Of(r))
  BY SourceOf DEF Keyed
<1>2. Of(r) \in Record /\ Fingerprint(Of(r)) \in Int  BY <1>1, CleanAssumption
<1>3. Of(r).key \in Int /\ Of(r).key \notin Unread
  BY <1>1, CleanAssumption DEF IsRowOf, Unread
<1>4. Of(r).created \in Scalar /\ Of(r).created # NonScalar
  BY <1>1, <1>2, <1>3 DEF Record, Stops
<1>5. IsId(staging.values, staging.rows[r].text, Value(Of(r), "text"))
  BY DEF StagingInv, TextsInv
<1> QED BY <1>1, <1>2, <1>3, <1>4, <1>5 DEF IsRowOf, Scalar, Unread

\* Source rows of one key.
LEMMA SameKeys ==
    ASSUME NEW m \in Keyed, NEW n \in Keyed, Raw[m].key = Raw[n].key
    PROVE  /\ SameKey(m) = SameKey(n) /\ m \in SameKey(n) /\ n \in SameKey(m)
           /\ Agree(m) <=> Agree(n)
           /\ Fingerprint(Raw[m]) = Fingerprint(Raw[n]) => (TheOne(m) <=> TheOne(n))
           /\ Agree(m) => Selected(Raw[m]) = Selected(Raw[n])
<1>1. SameKey(m) = SameKey(n) /\ m \in SameKey(n) /\ n \in SameKey(m)
  BY DEF SameKey
<1>2. Agree(m) => Selected(Raw[m]) = Selected(Raw[n])  BY <1>1 DEF Agree
<1>3. Agree(n) => Selected(Raw[m]) = Selected(Raw[n])  BY <1>1 DEF Agree
<1>4. Agree(m) <=> Agree(n)  BY <1>1, <1>2, <1>3 DEF Agree
<1>5. Fingerprint(Raw[m]) = Fingerprint(Raw[n]) => (TheOne(m) <=> TheOne(n))
  BY <1>1 DEF TheOne
<1> QED BY <1>1, <1>2, <1>4, <1>5

\* The questions that finish asks of copies, asked of the records.
LEMMA CopiesOf ==
    ASSUME PagesInv, StagingInv, NEW r \in Positions
    PROVE  /\ \A x \in Positions :
                 /\ x \in Copies(r) <=> Src(x) \in SameKey(Src(r))
                 /\ x \in Copies(r) <=> Of(x).key = Of(r).key
           /\ Copies(r) \subseteq Positions /\ r \in Copies(r)
           /\ Agree(Src(r)) <=> \A x \in Copies(r) :
                 staging.rows[x].value_fp = staging.rows[r].value_fp
           /\ TheOne(Src(r)) <=> \A x \in Copies(r) :
                 staging.rows[r].record_fp <= staging.rows[x].record_fp
<1>1. /\ \A x \in Positions : Src(x) \in Keyed /\ Of(x) = Raw[Src(x)]
      /\ \A n \in Keyed : \E x \in Positions : n = Src(x)
  BY SourceOf
<1>2. \A x \in Positions :
         /\ staging.rows[x].key = Of(x).key
         /\ staging.rows[x].value_fp = Selected(Of(x))
         /\ staging.rows[x].record_fp = Fingerprint(Of(x))
  BY FieldsOf
<1> HIDE DEF Positions
<1>3. \A x \in Positions : /\ x \in Copies(r) <=> Src(x) \in SameKey(Src(r))
                           /\ x \in Copies(r) <=> Of(x).key = Of(r).key
  BY <1>1, <1>2 DEF Copies, SameKey
<1>4. Copies(r) \subseteq Positions /\ r \in Copies(r)  BY DEF Copies
<1>5. \A n \in SameKey(Src(r)) : \E x \in Copies(r) : n = Src(x)
  BY <1>1, <1>3 DEF SameKey
<1>6. Agree(Src(r)) <=> \A x \in Copies(r) :
         staging.rows[x].value_fp = staging.rows[r].value_fp
  BY <1>1, <1>2, <1>3, <1>4, <1>5 DEF Agree
<1>7. TheOne(Src(r)) <=> \A x \in Copies(r) :
         staging.rows[r].record_fp <= staging.rows[x].record_fp
  BY <1>1, <1>2, <1>3, <1>4, <1>5 DEF TheOne
<1> QED BY <1>3, <1>4, <1>6, <1>7

----------------------------------------------------------------------------
(* The copies that are kept.                                               *)

\* One copy is kept of each key, and it is the one of its records.
LEMMA KeptOne ==
    ASSUME PagesInv, StagingInv, NEW keep \in SUBSET Positions, Kept(keep)
    PROVE  /\ \A r \in keep : TheOne(Src(r))
           /\ \A r, s \in keep : Of(r).key = Of(s).key => r = s
           /\ \A r \in Positions : \E k \in keep :
                 /\ Of(k).key = Of(r).key
                 /\ TheOne(Src(r)) => Of(k) = Of(r)
<1>1. \A r \in Positions :
         /\ \A x \in Positions : x \in Copies(r) <=> Of(x).key = Of(r).key
         /\ Copies(r) \subseteq Positions /\ r \in Copies(r)
         /\ TheOne(Src(r)) <=> \A x \in Copies(r) :
               staging.rows[r].record_fp <= staging.rows[x].record_fp
  BY CopiesOf
<1>2. \A r \in Positions : \E k \in keep :
         /\ Copies(r) \cap keep = {k}
         /\ \A x \in Copies(r) :
               staging.rows[k].record_fp <= staging.rows[x].record_fp
  BY DEF Kept
<1>3. \A r, s \in keep : Of(r).key = Of(s).key => r = s
  BY <1>1, <1>2
<1>4. ASSUME NEW r \in keep PROVE TheOne(Src(r))
  BY <1>1, <1>2
<1>5. ASSUME NEW r \in Positions
      PROVE  \E k \in keep : /\ Of(k).key = Of(r).key
                             /\ TheOne(Src(r)) => Of(k) = Of(r)
  <2>1. PICK k \in keep :
           /\ Copies(r) \cap keep = {k}
           /\ \A x \in Copies(r) :
                 staging.rows[k].record_fp <= staging.rows[x].record_fp
    BY <1>2
  <2>2. k \in Copies(r) /\ Of(k).key = Of(r).key  BY <1>1, <2>1
  <2>3. ASSUME TheOne(Src(r)) PROVE Of(k) = Of(r)
    <3>1. staging.rows[r].record_fp <= staging.rows[k].record_fp
      BY <1>1, <2>2, <2>3
    <3>2. staging.rows[k].record_fp <= staging.rows[r].record_fp  BY <1>1, <2>1
    <3>3. /\ staging.rows[r].record_fp = Fingerprint(Of(r)) /\ Fingerprint(Of(r)) \in Int
          /\ staging.rows[k].record_fp = Fingerprint(Of(k)) /\ Fingerprint(Of(k)) \in Int
      BY FieldsOf
    <3>4. Fingerprint(Of(r)) = Fingerprint(Of(k))  BY <3>1, <3>2, <3>3
    <3>5. /\ Of(r) = Raw[Src(r)] /\ Src(r) \in DOMAIN Raw
          /\ Of(k) = Raw[Src(k)] /\ Src(k) \in DOMAIN Raw
      BY SourceOf DEF Keyed
    <3> QED BY <3>4, <3>5, CleanAssumption
  <2> QED BY <2>2, <2>3
<1> QED BY <1>3, <1>4, <1>5

\* The rows that Status admits.
LEMMA AdmittedIs ==
    ASSUME PagesInv, StagingInv, NEW keep \in SUBSET Positions, NEW r
    PROVE  r \in Admitted(keep) <=> r \in keep /\ Agree(Src(r)) /\ InScope(Of(r))
<1>1. CASE r \notin Positions  BY <1>1 DEF Admitted
<1>2. CASE r \in Positions
  <2>1. /\ staging.rows[r].created = Of(r).created
        /\ Of(r).created \in Int \/ Of(r).created \in Unread
    BY <1>2, FieldsOf
  <2>2. Agree(Src(r)) <=> \A x \in Copies(r) :
           staging.rows[x].value_fp = staging.rows[r].value_fp
    BY <1>2, CopiesOf
  <2>3. Low \in Int /\ High \in Int  BY CleanAssumption
  <2>4. InScope(Of(r)) <=>
           /\ staging.rows[r].created \notin Unread
           /\ ~ (staging.rows[r].created < Low \/ staging.rows[r].created >= High)
    BY <2>1, <2>3 DEF InScope
  <2>5. Status(keep, r) = "Admitted" <=>
           /\ r \in keep
           /\ \A x \in Copies(r) :
                 staging.rows[x].value_fp = staging.rows[r].value_fp
           /\ staging.rows[r].created \notin Unread
           /\ ~ (staging.rows[r].created < Low \/ staging.rows[r].created >= High)
    BY DEF Status
  <2> QED BY <1>2, <2>2, <2>4, <2>5 DEF Admitted
<1> QED BY <1>1, <1>2

\* They are the snapshot's records, one of each key.
LEMMA SnapshotIs ==
    ASSUME PagesInv, StagingInv, NEW keep \in SUBSET Positions, Kept(keep)
    PROVE  /\ \A r \in Admitted(keep) : Of(r) \in Snapshot
           /\ \A c \in Snapshot : \E r \in Admitted(keep) : c = Of(r)
           /\ \A r, s \in Admitted(keep) : Of(r).key = Of(s).key => r = s
           /\ Admitted(keep) \subseteq Positions
<1>1. /\ \A r \in Positions : Src(r) \in Keyed /\ Of(r) = Raw[Src(r)]
      /\ \A n \in Keyed : \E r \in Positions : n = Src(r)
  BY SourceOf
<1>2. /\ \A r \in keep : TheOne(Src(r))
      /\ \A r, s \in keep : Of(r).key = Of(s).key => r = s
      /\ \A r \in Positions : \E k \in keep :
            /\ Of(k).key = Of(r).key
            /\ TheOne(Src(r)) => Of(k) = Of(r)
  BY KeptOne
<1>3. \A r : r \in Admitted(keep) <=> r \in keep /\ Agree(Src(r)) /\ InScope(Of(r))
  BY AdmittedIs
<1>4. ASSUME NEW r \in Admitted(keep) PROVE Of(r) \in Snapshot
  <2>1. r \in Positions /\ r \in keep  BY <1>3
  <2>2. Src(r) \in {x \in Keyed : Agree(x) /\ TheOne(x) /\ InScope(Raw[x])}
    BY <1>1, <1>2, <1>3, <2>1
  <2> QED BY <1>1, <2>1, <2>2 DEF Snapshot
<1>5. ASSUME NEW c \in Snapshot PROVE \E r \in Admitted(keep) : c = Of(r)
  <2>1. PICK n \in Keyed : Agree(n) /\ TheOne(n) /\ InScope(Raw[n]) /\ c = Raw[n]
    BY DEF Snapshot
  <2>2. PICK r \in Positions : n = Src(r)  BY <1>1
  <2>3. PICK k \in keep : Of(k) = Of(r)  BY <1>2, <2>1, <2>2
  <2>4. Agree(Src(k))
    <3>1. Src(k) \in Keyed /\ Raw[Src(k)].key = Raw[n].key
      BY <1>1, <2>2, <2>3
    <3> QED BY <2>1, <3>1, SameKeys
  <2>5. Of(r) = c  BY <1>1, <2>1, <2>2
  <2> QED BY <1>3, <2>1, <2>3, <2>4, <2>5
<1> QED BY <1>2, <1>3, <1>4, <1>5

----------------------------------------------------------------------------
(* The rows in order.                                                      *)

Before(a, b) == a.created < b.created \/ (a.created = b.created /\ a.key < b.key)

\* The order of rows, and of records.
RowBefore == {pair \in Positions \X Positions :
                 Before(staging.rows[pair[1]], staging.rows[pair[2]])}

RecordBefore == {pair \in Snapshot \X Snapshot : Before(pair[1], pair[2])}

RecordOrder == Ranked(Snapshot, LAMBDA a, b : Before(a, b))

LEMMA AdmittedOrders ==
    ASSUME PagesInv, StagingInv, NEW keep \in SUBSET Positions, Kept(keep)
    PROVE  /\ IsFiniteSet(Admitted(keep)) /\ Orders(RowBefore, Admitted(keep))
           /\ Asymmetric(RecordBefore, Snapshot)
           /\ \A x, y \in Admitted(keep) :
                 <<x, y>> \in RowBefore => <<Of(x), Of(y)>> \in RecordBefore
<1>1. /\ \A r \in Admitted(keep) : Of(r) \in Snapshot
      /\ \A c \in Snapshot : \E r \in Admitted(keep) : c = Of(r)
      /\ \A r, s \in Admitted(keep) : Of(r).key = Of(s).key => r = s
      /\ Admitted(keep) \subseteq Positions
  BY SnapshotIs
<1>2. \A r \in Admitted(keep) :
         /\ staging.rows[r].created = Of(r).created /\ staging.rows[r].key = Of(r).key
         /\ Of(r).created \in Int /\ Of(r).key \in Int
  BY <1>1, FieldsOf, AdmittedIs DEF InScope
<1>3. IsFiniteSet(Admitted(keep))
  <2>1. Len(staging.rows) \in Nat  BY DEF StagingInv, RowsInv
  <2>2. IsFiniteSet(1 .. Len(staging.rows))  BY <2>1, FS_Interval
  <2> QED BY <1>1, <2>2, FS_Subset DEF Positions
<1>4. \A x, y \in Admitted(keep) :
         <<x, y>> \in RowBefore <=> Before(staging.rows[x], staging.rows[y])
  BY <1>1 DEF RowBefore
<1>5. \A a, b \in Snapshot : <<a, b>> \in RecordBefore <=> Before(a, b)
  BY DEF RecordBefore
<1>6. \A c \in Snapshot : c.created \in Int /\ c.key \in Int
  BY <1>1, <1>2
<1>7. Asymmetric(RecordBefore, Snapshot)
  BY <1>5, <1>6 DEF Asymmetric, Before
<1>8. \A x, y \in Admitted(keep) :
         <<x, y>> \in RowBefore => <<Of(x), Of(y)>> \in RecordBefore
  BY <1>1, <1>2, <1>4, <1>5 DEF Before
<1>9. Orders(RowBefore, Admitted(keep))
  <2>1. Asymmetric(RowBefore, Admitted(keep))
    BY <1>2, <1>4 DEF Asymmetric, Before
  <2>2. \A x, y \in Admitted(keep) :
           x = y \/ <<x, y>> \in RowBefore \/ <<y, x>> \in RowBefore
    <3> TAKE x, y \in Admitted(keep)
    <3>1. x = y \/ Of(x).key # Of(y).key  BY <1>1
    <3>2. /\ Of(x).created \in Int /\ Of(y).created \in Int
          /\ Of(x).key \in Int /\ Of(y).key \in Int
      BY <1>2
    <3>3. x = y \/ Before(staging.rows[x], staging.rows[y])
                \/ Before(staging.rows[y], staging.rows[x])
      BY <1>2, <3>1, <3>2 DEF Before
    <3> QED BY <1>4, <3>3
  <2>3. \A x, y, z \in Admitted(keep) :
           <<x, y>> \in RowBefore /\ <<y, z>> \in RowBefore => <<x, z>> \in RowBefore
    BY <1>2, <1>4 DEF Before
  <2> QED BY <2>1, <2>2, <2>3 DEF Orders
<1> QED BY <1>3, <1>7, <1>8, <1>9

LEMMA RowOrderRanked ==
    ASSUME NEW keep, Admitted(keep) \subseteq Positions
    PROVE  RowOrder(keep) = RankedIn(Admitted(keep), RowBefore)
<1>1. \A x \in Admitted(keep) :
         Earlier(x, Admitted(keep), RowBefore)
           = {y \in Admitted(keep) : Before(staging.rows[y], staging.rows[x])}
  BY DEF Earlier, RowBefore
<1>2. RowOrder(keep) =
         [i \in 0 .. Cardinality(Admitted(keep)) - 1 |->
             CHOOSE x \in Admitted(keep) :
                 Cardinality({y \in Admitted(keep) :
                                 Before(staging.rows[y], staging.rows[x])}) = i]
  BY DEF RowOrder, Ranked, Before
<1>3. \A i :
         (CHOOSE x \in Admitted(keep) :
             Cardinality({y \in Admitted(keep) :
                             Before(staging.rows[y], staging.rows[x])}) = i)
         = CHOOSE x \in Admitted(keep) :
               Cardinality(Earlier(x, Admitted(keep), RowBefore)) = i
  BY <1>1
<1> QED BY <1>2, <1>3 DEF RankedIn

LEMMA RecordOrderRanked == RecordOrder = RankedIn(Snapshot, RecordBefore)
<1>1. \A x \in Snapshot : Earlier(x, Snapshot, RecordBefore)
                            = {y \in Snapshot : Before(y, x)}
  BY DEF Earlier, RecordBefore
<1>2. \A i :
         (CHOOSE x \in Snapshot : Cardinality({y \in Snapshot : Before(y, x)}) = i)
         = CHOOSE x \in Snapshot :
               Cardinality(Earlier(x, Snapshot, RecordBefore)) = i
  BY <1>1
<1>3. RecordOrder =
         [i \in 0 .. Cardinality(Snapshot) - 1 |->
             CHOOSE x \in Snapshot : Cardinality({y \in Snapshot : Before(y, x)}) = i]
  BY DEF RecordOrder, Ranked
<1>4. RankedIn(Snapshot, RecordBefore) =
         [i \in 0 .. Cardinality(Snapshot) - 1 |->
             CHOOSE x \in Snapshot :
                 Cardinality(Earlier(x, Snapshot, RecordBefore)) = i]
  BY DEF RankedIn
<1> QED BY ONLY <1>2, <1>3, <1>4

\* Rows in order are the snapshot's records in order.
LEMMA OrdersAgree ==
    ASSUME PagesInv, StagingInv, NEW keep \in SUBSET Positions, Kept(keep)
    PROVE  /\ Lists(RowOrder(keep), Cardinality(Admitted(keep)), Admitted(keep),
                    RowBefore)
           /\ DOMAIN RowOrder(keep) = DOMAIN RecordOrder
           /\ \A i \in DOMAIN RowOrder(keep) :
                 /\ RowOrder(keep)[i] \in Admitted(keep)
                 /\ RecordOrder[i] = Of(RowOrder(keep)[i])
           /\ \A i, j \in DOMAIN RowOrder(keep) :
                 RowOrder(keep)[i] = RowOrder(keep)[j] => i = j
           /\ \A r \in Admitted(keep) : \E i \in DOMAIN RowOrder(keep) :
                 RowOrder(keep)[i] = r
           /\ DOMAIN RowOrder(keep) = 0 .. Cardinality(Admitted(keep)) - 1
<1> DEFINE m == Cardinality(Admitted(keep))
           f == RowOrder(keep)
           P == Admitted(keep)
           a == [r \in P |-> Of(r)]
           g == [i \in 0 .. m - 1 |-> Of(f[i])]
<1>1. /\ IsFiniteSet(Admitted(keep)) /\ Orders(RowBefore, Admitted(keep))
      /\ Asymmetric(RecordBefore, Snapshot)
      /\ \A x, y \in Admitted(keep) :
            <<x, y>> \in RowBefore => <<Of(x), Of(y)>> \in RecordBefore
  BY AdmittedOrders
<1>2. /\ \A r \in Admitted(keep) : Of(r) \in Snapshot
      /\ \A c \in Snapshot : \E r \in Admitted(keep) : c = Of(r)
      /\ Admitted(keep) \subseteq Positions
  BY SnapshotIs
<1>3. f = RankedIn(Admitted(keep), RowBefore)  BY <1>2, RowOrderRanked
<1>4. Lists(f, m, Admitted(keep), RowBefore)
  <2>1. Lists(RankedIn(Admitted(keep), RowBefore), Cardinality(Admitted(keep)),
              Admitted(keep), RowBefore)
    BY <1>1, RankedLists
  <2> QED BY <1>3, <2>1
<1> HIDE DEF f
<1>5. /\ f \in [0 .. m - 1 -> P] /\ m \in Nat
      /\ \A x \in P : \E i \in 0 .. m - 1 : f[i] = x
  BY <1>4 DEF Lists
<1>6. /\ \A x \in P : a[x] \in Snapshot
      /\ \A z \in Snapshot : \E x \in P : z = a[x]
      /\ \A x, y \in P :
            <<x, y>> \in RowBefore => <<a[x], a[y]>> \in RecordBefore
  BY <1>1, <1>2
<1>7. g \in [0 .. m - 1 -> Snapshot] /\ \A i \in 0 .. m - 1 : g[i] = a[f[i]]
  BY <1>2, <1>5
<1> HIDE DEF a, g, m, P
<1>8. Lists(f, m, P, RowBefore)  BY <1>4 DEF P, m
<1>9. Lists(g, m, Snapshot, RecordBefore)
  BY ONLY <1>5, <1>6, <1>7, <1>8, ListsImage
<1>10. g = RecordOrder  BY <1>1, <1>9, ListsUnique, RecordOrderRanked
<1>11. \A i, j \in 0 .. m - 1 : f[i] = f[j] => i = j
  <2>1. Asymmetric(RowBefore, P)  BY <1>1 DEF Orders, P
  <2> QED BY <1>8, <2>1, ListsInjective
<1>12. DOMAIN f = 0 .. m - 1 /\ DOMAIN g = 0 .. m - 1  BY <1>5, <1>7
<1>13. \A i \in DOMAIN f : f[i] \in P /\ RecordOrder[i] = Of(f[i])
  BY <1>5, <1>7, <1>10, <1>12 DEF a
<1> QED BY <1>4, <1>5, <1>10, <1>11, <1>12, <1>13 DEF f, m, P

----------------------------------------------------------------------------
(* The dictionary.                                                         *)

Ids(keep) == {staging.rows[r].text : r \in Admitted(keep)} \ {Absent}

TextIds == DOMAIN staging.values

IdBefore == {pair \in TextIds \X TextIds :
                staging.values[pair[1]] < staging.values[pair[2]]}

LEMMA IdsOf ==
    ASSUME PagesInv, StagingInv, NEW keep \in SUBSET Positions, Kept(keep)
    PROVE  /\ IsFiniteSet(Ids(keep)) /\ Orders(IdBefore, Ids(keep))
           /\ \A id \in Ids(keep) : /\ id \in DOMAIN staging.values
                                    /\ staging.values[id] \in Texts
           /\ \A v \in Texts : \E id \in Ids(keep) : v = staging.values[id]
           /\ Texts \subseteq Int
           /\ \A i, j \in Ids(keep) : staging.values[i] = staging.values[j] => i = j
<1>1. /\ \A r \in Admitted(keep) : Of(r) \in Snapshot
      /\ \A c \in Snapshot : \E r \in Admitted(keep) : c = Of(r)
      /\ Admitted(keep) \subseteq Positions
  BY SnapshotIs
<1>2. \A r \in Admitted(keep) :
         IsId(staging.values, staging.rows[r].text, Value(Of(r), "text"))
  BY <1>1, FieldsOf
<1>3. /\ staging.values \in Seq(Nat)
      /\ \A i, j \in DOMAIN staging.values :
            staging.values[i] = staging.values[j] => i = j
      /\ \A i \in DOMAIN staging.values : staging.values[i] \in Nat
      /\ DOMAIN staging.values = 1 .. Len(staging.values)
      /\ Len(staging.values) \in Nat
  BY DEF StagingInv, TextsInv
<1>4. Absent \notin Nat  BY CleanAssumption
<1>5. ASSUME NEW id \in Ids(keep)
      PROVE  id \in DOMAIN staging.values /\ staging.values[id] \in Texts
  <2>1. PICK r \in Admitted(keep) : id = staging.rows[r].text /\ id # Absent
    BY DEF Ids
  <2>2. /\ id \in DOMAIN staging.values
        /\ staging.values[id] = Value(Of(r), "text")
        /\ Value(Of(r), "text") # Absent
    BY <1>2, <2>1 DEF IsId
  <2> QED BY <1>1, <2>2 DEF Texts
<1>6. ASSUME NEW v \in Texts
      PROVE  \E id \in Ids(keep) : v = staging.values[id]
  <2>1. PICK c \in Snapshot : v = Value(c, "text") /\ v # Absent  BY DEF Texts
  <2>2. PICK r \in Admitted(keep) : c = Of(r)  BY <1>1
  <2>3. /\ staging.rows[r].text \in DOMAIN staging.values
        /\ staging.values[staging.rows[r].text] = v
    BY <1>2, <2>1, <2>2 DEF IsId
  <2>4. staging.rows[r].text \in Ids(keep)  BY <1>3, <1>4, <2>3 DEF Ids
  <2> QED BY <2>3, <2>4
<1>7. Ids(keep) \subseteq 1 .. Len(staging.values)  BY <1>3, <1>5
<1>8. IsFiniteSet(Ids(keep))
  <2>1. IsFiniteSet(1 .. Len(staging.values))  BY <1>3, FS_Interval
  <2> QED BY <1>7, <2>1, FS_Subset
<1>9. \A x, y \in Ids(keep) :
         <<x, y>> \in IdBefore <=> staging.values[x] < staging.values[y]
  <2>1. \A x \in Ids(keep) : x \in TextIds  BY <1>5 DEF TextIds
  <2> HIDE DEF Ids
  <2> QED BY <2>1 DEF IdBefore
<1>10. \A x \in Ids(keep) : staging.values[x] \in Int  BY <1>3, <1>5
<1>11. \A i, j \in Ids(keep) : staging.values[i] = staging.values[j] => i = j
  BY <1>3, <1>5
<1>12. Orders(IdBefore, Ids(keep))
  <2> HIDE DEF Ids
  <2> QED BY <1>9, <1>10, <1>11 DEF Orders, Asymmetric
<1>13. Texts \subseteq Int  BY <1>6, <1>10
<1> QED BY <1>5, <1>6, <1>8, <1>11, <1>12, <1>13

LEMMA DictionaryRanked ==
    ASSUME NEW keep, Ids(keep) \subseteq DOMAIN staging.values
    PROVE  DictionaryIds(keep) = RankedIn(Ids(keep), IdBefore)
<1> DEFINE S == Ids(keep)
<1>1. DictionaryIds(keep) =
         [i \in 0 .. Cardinality(S) - 1 |->
             CHOOSE x \in S :
                 Cardinality({y \in S : staging.values[y] < staging.values[x]}) = i]
  BY DEF DictionaryIds, Ranked, Ids
<1> HIDE DEF S
<1>2. S \subseteq DOMAIN staging.values  BY DEF S
<1>3. \A x \in S : Earlier(x, S, IdBefore)
                     = {y \in S : staging.values[y] < staging.values[x]}
  <2>1. \A x \in S : x \in TextIds  BY <1>2 DEF TextIds
  <2> QED BY <2>1 DEF Earlier, IdBefore
<1>4. \A i :
         (CHOOSE x \in S :
             Cardinality({y \in S : staging.values[y] < staging.values[x]}) = i)
         = CHOOSE x \in S : Cardinality(Earlier(x, S, IdBefore)) = i
  BY <1>3
<1>5. RankedIn(S, IdBefore) =
         [i \in 0 .. Cardinality(S) - 1 |->
             CHOOSE x \in S : Cardinality(Earlier(x, S, IdBefore)) = i]
  BY DEF RankedIn
<1>6. DictionaryIds(keep) = RankedIn(S, IdBefore)
  <2> DEFINE A(x, i) == Cardinality({y \in S : staging.values[y] < staging.values[x]}) = i
             B(x, i) == Cardinality(Earlier(x, S, IdBefore)) = i
  <2>1. DictionaryIds(keep) = [i \in 0 .. Cardinality(S) - 1 |-> CHOOSE x \in S : A(x, i)]
    BY <1>1
  <2>2. RankedIn(S, IdBefore) = [i \in 0 .. Cardinality(S) - 1 |-> CHOOSE x \in S : B(x, i)]
    BY <1>5
  <2>3. \A i : (CHOOSE x \in S : A(x, i)) = CHOOSE x \in S : B(x, i)
    BY <1>4
  <2> HIDE DEF A, B
  <2> QED BY <2>1, <2>2, <2>3
<1> QED BY <1>6 DEF S

\* The dictionary lists the snapshot's texts, and a text has one place in it.
LEMMA DictionaryAgrees ==
    ASSUME PagesInv, StagingInv, NEW keep \in SUBSET Positions, Kept(keep)
    PROVE  /\ DOMAIN DictionaryIds(keep) = DOMAIN Ascending(Texts)
           /\ \A i \in DOMAIN DictionaryIds(keep) :
                 Ascending(Texts)[i] = staging.values[DictionaryIds(keep)[i]]
           /\ \A id \in Ids(keep) :
                 /\ PlaceOf(DictionaryIds(keep), id) \in DOMAIN DictionaryIds(keep)
                 /\ DictionaryIds(keep)[PlaceOf(DictionaryIds(keep), id)] = id
                 /\ PlaceOf(DictionaryIds(keep), id)
                       = PlaceOf(Ascending(Texts), staging.values[id])
           /\ DOMAIN DictionaryIds(keep) \subseteq Int
<1> DEFINE S == Ids(keep)
           m == Cardinality(S)
           f == DictionaryIds(keep)
           a == [id \in S |-> staging.values[id]]
           g == [i \in 0 .. m - 1 |-> staging.values[f[i]]]
<1>1. /\ IsFiniteSet(S) /\ Orders(IdBefore, S)
      /\ \A id \in S : id \in DOMAIN staging.values /\ staging.values[id] \in Texts
      /\ \A v \in Texts : \E id \in S : v = staging.values[id]
      /\ Texts \subseteq Int
      /\ \A i, j \in S : staging.values[i] = staging.values[j] => i = j
  BY IdsOf
<1>2. f = RankedIn(S, IdBefore)  BY <1>1, DictionaryRanked
<1>3. Lists(f, m, S, IdBefore)
  <2>1. Lists(RankedIn(S, IdBefore), Cardinality(S), S, IdBefore)
    BY <1>1, RankedLists
  <2> QED BY <1>2, <2>1
<1> HIDE DEF f, S
<1>4. f \in [0 .. m - 1 -> S] /\ m \in Nat /\ \A x \in S : \E i \in 0 .. m - 1 : f[i] = x
  BY <1>3 DEF Lists
<1>5. /\ \A x \in S : a[x] \in Texts
      /\ \A z \in Texts : \E x \in S : z = a[x]
      /\ \A x, y \in S : <<x, y>> \in IdBefore => <<a[x], a[y]>> \in Less
  <2>1. \A x, y \in S : <<x, y>> \in IdBefore => staging.values[x] < staging.values[y]
    BY DEF IdBefore
  <2>2. \A x \in S : a[x] = staging.values[x] /\ a[x] \in Int  BY <1>1
  <2> QED BY <1>1, <2>1, <2>2 DEF Less
<1>6. g \in [0 .. m - 1 -> Texts] /\ \A i \in 0 .. m - 1 : g[i] = a[f[i]]
  BY <1>1, <1>4
<1>7. \A i \in 0 .. m - 1 : g[i] = staging.values[f[i]]  OBVIOUS
<1> HIDE DEF a, g, m
<1>8. Lists(g, m, Texts, Less)  BY ONLY <1>3, <1>4, <1>5, <1>6, ListsImage
<1>9. g = Ascending(Texts)
  <2>1. Texts \in SUBSET Int  BY <1>1
  <2> QED BY <1>8, <2>1, AscendingUnique
<1>10. DOMAIN f = 0 .. m - 1 /\ DOMAIN g = 0 .. m - 1 /\ 0 .. m - 1 \subseteq Int
  BY <1>4, <1>6
<1>11. ASSUME NEW id \in S
       PROVE  /\ PlaceOf(f, id) \in DOMAIN f /\ f[PlaceOf(f, id)] = id
              /\ PlaceOf(f, id) = PlaceOf(g, staging.values[id])
  <2>1. PICK i \in DOMAIN f : f[i] = id  BY <1>4, <1>10
  <2>2. PlaceOf(f, id) \in DOMAIN f /\ f[PlaceOf(f, id)] = id
    BY <2>1 DEF PlaceOf
  <2>3. \A j \in DOMAIN f : f[j] = id <=> g[j] = staging.values[id]
    BY <1>1, <1>4, <1>7, <1>10
  <2>4. (CHOOSE j \in DOMAIN f : f[j] = id)
          = CHOOSE j \in DOMAIN g : g[j] = staging.values[id]
    BY <1>10, <2>3
  <2> QED BY <2>2, <2>4 DEF PlaceOf
<1>12. \A i \in DOMAIN f : g[i] = staging.values[f[i]]  BY <1>7, <1>10
<1>13. /\ DOMAIN f = DOMAIN Ascending(Texts) /\ DOMAIN f \subseteq Int
       /\ \A i \in DOMAIN f : Ascending(Texts)[i] = staging.values[f[i]]
       /\ \A id \in S :
             /\ PlaceOf(f, id) \in DOMAIN f /\ f[PlaceOf(f, id)] = id
             /\ PlaceOf(f, id) = PlaceOf(Ascending(Texts), staging.values[id])
  BY <1>9, <1>10, <1>11, <1>12
<1> QED BY <1>13 DEF f, S

----------------------------------------------------------------------------
(* The rows.                                                               *)

LEMMA RowsAgree ==
    ASSUME PagesInv, StagingInv, NEW keep \in SUBSET Positions, Kept(keep)
    PROVE  [i \in DOMAIN RowOrder(keep) |-> Row(keep, RowOrder(keep)[i])]
             = SnapshotRows
<1> DEFINE RecordRow(c) ==
              [key |-> c.key, created |-> c.created,
               closed |-> Value(c, "closed"),
               code |-> IF Value(c, "text") = Absent THEN Absent
                        ELSE PlaceOf(Ascending(Texts), Value(c, "text")),
               location |-> Value(c, "location")]
<1>1. SnapshotRows = [i \in DOMAIN RecordOrder |-> RecordRow(RecordOrder[i])]
  BY DEF SnapshotRows, RecordOrder, Before
<1>2. /\ DOMAIN RowOrder(keep) = DOMAIN RecordOrder
      /\ \A i \in DOMAIN RowOrder(keep) :
            /\ RowOrder(keep)[i] \in Admitted(keep)
            /\ RecordOrder[i] = Of(RowOrder(keep)[i])
  BY OrdersAgree
<1>3. Admitted(keep) \subseteq Positions  BY SnapshotIs
<1>4. ASSUME NEW r \in Admitted(keep) PROVE Row(keep, r) = RecordRow(Of(r))
  <2>1. /\ staging.rows[r].key = Of(r).key /\ staging.rows[r].created = Of(r).created
        /\ staging.rows[r].closed = Value(Of(r), "closed")
        /\ staging.rows[r].location = Value(Of(r), "location")
        /\ IsId(staging.values, staging.rows[r].text, Value(Of(r), "text"))
    BY <1>3, FieldsOf
  <2>2. (IF staging.rows[r].text = Absent THEN Absent
         ELSE PlaceOf(DictionaryIds(keep), staging.rows[r].text))
        = IF Value(Of(r), "text") = Absent THEN Absent
          ELSE PlaceOf(Ascending(Texts), Value(Of(r), "text"))
    <3>1. CASE Value(Of(r), "text") = Absent  BY <2>1, <3>1 DEF IsId
    <3>2. CASE Value(Of(r), "text") # Absent
      <4>1. /\ staging.rows[r].text \in DOMAIN staging.values
            /\ staging.values[staging.rows[r].text] = Value(Of(r), "text")
        BY <2>1, <3>2 DEF IsId
      <4>2. staging.rows[r].text # Absent
        <5>1. DOMAIN staging.values \subseteq Int  BY DEF StagingInv, TextsInv
        <5> QED BY <4>1, <5>1, CleanAssumption
      <4>3. staging.rows[r].text \in Ids(keep)  BY <4>2 DEF Ids
      <4>4. PlaceOf(DictionaryIds(keep), staging.rows[r].text)
              = PlaceOf(Ascending(Texts), staging.values[staging.rows[r].text])
        BY <4>3, DictionaryAgrees
      <4> QED BY <3>2, <4>1, <4>2, <4>4
    <3> QED BY <3>1, <3>2
  <2> QED BY <2>1, <2>2 DEF Row
<1> HIDE DEF RecordRow
<1>5. \A i \in DOMAIN RowOrder(keep) :
         Row(keep, RowOrder(keep)[i]) = RecordRow(RecordOrder[i])
  BY <1>2, <1>4
<1> QED BY <1>1, <1>2, <1>5

----------------------------------------------------------------------------
(* The rejects.                                                            *)

LocOf(n) == CHOOSE loc \in Locs : RecordAt(loc) = n

RowOf(n) == CHOOSE r \in Positions : Src(r) = n

\* The rule a source row falls under.
RuleOf(keep, n) ==
    IF Raw[n].key \in Unread THEN "InvalidKey" ELSE Status(keep, RowOf(n))

PendingOf(keep, n) ==
    [loc |-> LocOf(n), rule |-> RuleOf(keep, n), raw_key |-> Raw[n].key]

Reject(keep, n) ==
    [raw_unique_key |-> Raw[n].key, rule |-> RuleOf(keep, n), raw_record |-> Raw[n]]

LEMMA PlacesOf ==
    ASSUME PagesInv, StagingInv
    PROVE  /\ \A n \in Read : LocOf(n) \in Locs /\ RecordAt(LocOf(n)) = n
           /\ \A loc \in Locs : RecordAt(loc) \in Read /\ LocOf(RecordAt(loc)) = loc
           /\ \A n \in Keyed : RowOf(n) \in Positions /\ Src(RowOf(n)) = n
           /\ \A r \in Positions : /\ RowOf(Src(r)) = r
                                   /\ LocOf(Src(r)) = staging.rows[r].loc
<1>1. \A n : n \in Read <=> \E loc \in Locs : n = RecordAt(loc)  BY ReadAt
<1>2. \A a, b \in Locs : RecordAt(a) = RecordAt(b) => a = b  BY DEF PagesInv
<1>3. /\ \A r, s \in Positions : Src(r) = Src(s) => r = s
      /\ \A n \in Keyed : \E r \in Positions : n = Src(r)
      /\ \A r \in Positions : Src(r) \in Keyed
  BY SourceOf
<1>4. \A n \in Read : LocOf(n) \in Locs /\ RecordAt(LocOf(n)) = n
  BY <1>1 DEF LocOf
<1>5. \A loc \in Locs : RecordAt(loc) \in Read /\ LocOf(RecordAt(loc)) = loc
  BY <1>1, <1>2, <1>4
<1>6. \A n \in Keyed : RowOf(n) \in Positions /\ Src(RowOf(n)) = n
  <2> TAKE n \in Keyed
  <2>1. \E r \in Positions : Src(r) = n  BY <1>3
  <2> QED BY <2>1 DEF RowOf
<1>7. \A r \in Positions : RowOf(Src(r)) = r  BY <1>3, <1>6
<1>8. \A r \in Positions : LocOf(Src(r)) = staging.rows[r].loc
  BY <1>5 DEF Src, StagingInv, RowsInv
<1> QED BY <1>4, <1>5, <1>6, <1>7, <1>8

\* A source row's rule, by what its key's records say.
LEMMA RuleIs ==
    ASSUME PagesInv, StagingInv, NEW keep \in SUBSET Positions, NEW n \in Keyed
    PROVE  /\ RuleOf(keep, n) = Status(keep, RowOf(n))
           /\ ~ Agree(n) => RuleOf(keep, n) = "DuplicateConflicting"
           /\ Agree(n) /\ RowOf(n) \notin keep => RuleOf(keep, n) = "DuplicateIdentical"
           /\ Agree(n) /\ RowOf(n) \in keep =>
                 RuleOf(keep, n) =
                    IF Raw[n].created \in Unread THEN "InvalidCreated"
                    ELSE IF ~ InScope(Raw[n]) THEN "OutsideScope"
                    ELSE "Admitted"
<1> DEFINE r == RowOf(n)
<1>1. r \in Positions /\ Src(r) = n /\ Of(r) = Raw[n]  BY PlacesOf, SourceOf
<1> HIDE DEF r
<1>2. RuleOf(keep, n) = Status(keep, r)  BY DEF RuleOf, Keyed, r
<1>3. Agree(n) <=> ~ \E x \in Copies(r) :
         staging.rows[x].value_fp # staging.rows[r].value_fp
  BY <1>1, CopiesOf
<1>4. /\ staging.rows[r].created = Raw[n].created
      /\ Raw[n].created \in Int \/ Raw[n].created \in Unread
  BY <1>1, FieldsOf
<1>5. Low \in Int /\ High \in Int  BY CleanAssumption
<1>6. Raw[n].created \notin Unread =>
         (~ InScope(Raw[n]) <=> staging.rows[r].created < Low
                                \/ staging.rows[r].created >= High)
  BY <1>4, <1>5 DEF InScope
<1>7. ~ Agree(n) => Status(keep, r) = "DuplicateConflicting"  BY <1>3 DEF Status
<1>8. Agree(n) /\ r \notin keep => Status(keep, r) = "DuplicateIdentical"
  BY <1>3 DEF Status
<1>9. Agree(n) /\ r \in keep =>
         Status(keep, r) = IF Raw[n].created \in Unread THEN "InvalidCreated"
                           ELSE IF ~ InScope(Raw[n]) THEN "OutsideScope"
                           ELSE "Admitted"
  BY <1>3, <1>4, <1>6 DEF Status
<1> QED BY <1>2, <1>7, <1>8, <1>9 DEF r

\* The rejects are of the source rows that aren't admitted, one of each.
LEMMA PendingIs ==
    ASSUME PagesInv, StagingInv, NEW keep \in SUBSET Positions
    PROVE  /\ \A p : p \in Pending(keep) <=>
                 \E n \in Read : RuleOf(keep, n) # "Admitted" /\ p = PendingOf(keep, n)
           /\ \A n \in Read : Resolved(PendingOf(keep, n)) = Reject(keep, n)
           /\ \A m, n \in Read : PendingOf(keep, m) = PendingOf(keep, n) => m = n
<1>1. /\ \A n \in Read : LocOf(n) \in Locs /\ RecordAt(LocOf(n)) = n
      /\ \A loc \in Locs : RecordAt(loc) \in Read /\ LocOf(RecordAt(loc)) = loc
      /\ \A n \in Keyed : RowOf(n) \in Positions /\ Src(RowOf(n)) = n
      /\ \A r \in Positions : RowOf(Src(r)) = r /\ LocOf(Src(r)) = staging.rows[r].loc
  BY PlacesOf
<1>2. \A r \in Positions : /\ Src(r) \in Keyed /\ Of(r) = Raw[Src(r)]
                           /\ staging.rows[r].key = Of(r).key
  BY SourceOf, FieldsOf
<1>3. \A p : p \in staging.rejects <=>
         \E loc \in Locs :
            /\ Raw[RecordAt(loc)].key \in Unread
            /\ p = [loc |-> loc, rule |-> "InvalidKey", raw_key |-> Raw[RecordAt(loc)].key]
  BY DEF StagingInv, RejectsInv
<1>4. ASSUME NEW p, p \in Pending(keep)
      PROVE  \E n \in Read : RuleOf(keep, n) # "Admitted" /\ p = PendingOf(keep, n)
  <2>1. CASE p \in staging.rejects
    <3>1. PICK loc \in Locs :
             /\ Raw[RecordAt(loc)].key \in Unread
             /\ p = [loc |-> loc, rule |-> "InvalidKey", raw_key |-> Raw[RecordAt(loc)].key]
      BY <1>3, <2>1
    <3>2. RuleOf(keep, RecordAt(loc)) = "InvalidKey"  BY <3>1 DEF RuleOf
    <3>3. RecordAt(loc) \in Read /\ LocOf(RecordAt(loc)) = loc  BY <1>1
    <3> QED BY <3>1, <3>2, <3>3 DEF PendingOf
  <2>2. CASE p \notin staging.rejects
    <3>1. PICK r \in Positions \ Admitted(keep) :
             p = [loc |-> staging.rows[r].loc, rule |-> Status(keep, r),
                  raw_key |-> staging.rows[r].key]
      BY <1>4, <2>2 DEF Pending
    <3>2. Src(r) \in Read /\ Raw[Src(r)].key \notin Unread  BY <1>2 DEF Keyed
    <3>3. RuleOf(keep, Src(r)) = Status(keep, r)  BY <1>1, <3>2 DEF RuleOf
    <3>4. Status(keep, r) # "Admitted"  BY <3>1 DEF Admitted
    <3>5. p = PendingOf(keep, Src(r))  BY <1>1, <1>2, <3>1, <3>3 DEF PendingOf
    <3> QED BY <3>2, <3>3, <3>4, <3>5
  <2> QED BY <2>1, <2>2
<1>5. ASSUME NEW n \in Read, RuleOf(keep, n) # "Admitted"
      PROVE  PendingOf(keep, n) \in Pending(keep)
  <2>1. CASE Raw[n].key \in Unread
    <3>1. /\ LocOf(n) \in Locs /\ RecordAt(LocOf(n)) = n
          /\ RuleOf(keep, n) = "InvalidKey"
      BY <1>1, <2>1 DEF RuleOf
    <3>2. PendingOf(keep, n) = [loc |-> LocOf(n), rule |-> "InvalidKey",
                                raw_key |-> Raw[RecordAt(LocOf(n))].key]
      BY <3>1 DEF PendingOf
    <3>3. PendingOf(keep, n) \in staging.rejects  BY <1>3, <2>1, <3>1, <3>2
    <3> QED BY <3>3 DEF Pending
  <2>2. CASE Raw[n].key \notin Unread
    <3>1. PICK r \in Positions : r = RowOf(n) /\ Src(r) = n
      BY <1>1, <2>2 DEF Keyed
    <3>2. RuleOf(keep, n) = Status(keep, r)  BY <2>2, <3>1 DEF RuleOf
    <3>3. r \in Positions \ Admitted(keep)  BY <1>5, <3>2 DEF Admitted
    <3>4. PendingOf(keep, n) = [loc |-> staging.rows[r].loc, rule |-> Status(keep, r),
                                raw_key |-> staging.rows[r].key]
      BY <1>1, <1>2, <3>1, <3>2 DEF PendingOf
    <3> QED BY <3>3, <3>4 DEF Pending
  <2> QED BY <2>1, <2>2
<1>6. ASSUME NEW n \in Read PROVE Resolved(PendingOf(keep, n)) = Reject(keep, n)
  <2>1. pages[LocOf(n)[1]][LocOf(n)[2]] = n  BY <1>1 DEF RecordAt
  <2> QED BY <2>1 DEF Resolved, PendingOf, Reject
<1>7. ASSUME NEW m \in Read, NEW n \in Read, PendingOf(keep, m) = PendingOf(keep, n)
      PROVE  m = n
  <2>1. LocOf(m) = LocOf(n)  BY <1>7 DEF PendingOf
  <2> QED BY <1>1, <2>1
<1> QED BY <1>4, <1>5, <1>6, <1>7

\* The rejects of source rows that have one thing in common.
LEMMA CountPending ==
    ASSUME PagesInv, StagingInv, NEW keep \in SUBSET Positions, NEW Q
    PROVE  LET sources == {n \in Read : /\ RuleOf(keep, n) # "Admitted"
                                        /\ Reject(keep, n) \in Q}
               pending == {p \in Pending(keep) : Resolved(p) \in Q}
           IN  /\ IsFiniteSet(sources) /\ IsFiniteSet(pending)
               /\ Cardinality(pending) = Cardinality(sources)
               /\ Cardinality(pending) \in Nat
               /\ Cardinality(pending) <= Cardinality(Read)
<1> DEFINE A == {n \in Read : RuleOf(keep, n) # "Admitted" /\ Reject(keep, n) \in Q}
           B == {p \in Pending(keep) : Resolved(p) \in Q}
           h == [n \in A |-> PendingOf(keep, n)]
<1>1. IsFiniteSet(Read) /\ A \subseteq Read  BY DEF PagesInv
<1>2. IsFiniteSet(A) /\ Cardinality(A) <= Cardinality(Read) /\ Cardinality(A) \in Nat
  BY <1>1, FS_Subset, FS_CardinalityType
<1>3. /\ \A p : p \in Pending(keep) <=>
            \E n \in Read : RuleOf(keep, n) # "Admitted" /\ p = PendingOf(keep, n)
      /\ \A n \in Read : Resolved(PendingOf(keep, n)) = Reject(keep, n)
      /\ \A m, n \in Read : PendingOf(keep, m) = PendingOf(keep, n) => m = n
  BY PendingIs
<1>4. \A n \in A : h[n] = PendingOf(keep, n) /\ h[n] \in B  BY <1>3
<1>5. \A p \in B : \E n \in A : p = h[n]
  <2> TAKE p \in B
  <2>1. PICK n \in Read : RuleOf(keep, n) # "Admitted" /\ p = PendingOf(keep, n)
    BY <1>3
  <2>2. n \in A  BY <1>3, <2>1
  <2> QED BY <2>1, <2>2
<1>6. \A m, n \in A : h[m] = h[n] => m = n  BY <1>3, <1>4
<1> HIDE DEF A, B, h
<1>7. IsFiniteSet(B) /\ Cardinality(B) = Cardinality(A)
  BY <1>2, <1>4, <1>5, <1>6, CountMapped
<1> QED BY <1>2, <1>7 DEF A, B

\* Source rows that are the same record.
LEMMA SameRecords ==
    ASSUME PagesInv, StagingInv, NEW keep \in SUBSET Positions, Kept(keep),
           NEW c, c \in {Raw[n] : n \in Read}
    PROVE  LET same == {n \in Read : Raw[n] = c}
           IN  \/ /\ Reason(c) \in {"InvalidKey", "DuplicateConflicting",
                                     "DuplicateIdentical"}
                  /\ \A n \in same : RuleOf(keep, n) = Reason(c)
               \/ /\ Reason(c) \in {"InvalidCreated", "OutsideScope", "Admitted"}
                  /\ \E n \in same :
                        /\ RuleOf(keep, n) = Reason(c)
                        /\ \A m \in same \ {n} : RuleOf(keep, m) = "DuplicateIdentical"
<1> DEFINE same == {n \in Read : Raw[n] = c}
<1>1. PICK n0 \in same : TRUE  OBVIOUS
<1>2. CASE c.key \in Unread
  <2>1. Reason(c) = "InvalidKey"  BY <1>2 DEF Reason
  <2>2. \A n \in same : RuleOf(keep, n) = "InvalidKey"  BY <1>2 DEF RuleOf
  <2> QED BY <2>1, <2>2
<1>3. CASE c.key \notin Unread
  <2>1. \A n \in same : n \in Keyed /\ Raw[n] = c  BY <1>3 DEF Keyed
  <2>2. \A n \in Keyed : Raw[n] = c => n \in same  BY DEF Keyed
  <2>3. \A m, n \in same : (Agree(m) <=> Agree(n)) /\ (TheOne(m) <=> TheOne(n))
    BY <2>1, SameKeys
  <2> HIDE DEF same
  <2>4. CASE ~ Agree(n0)
    <3>1. Reason(c) = "DuplicateConflicting"  BY <1>3, <2>1, <2>4 DEF Reason
    <3>2. \A n \in same : RuleOf(keep, n) = "DuplicateConflicting"
      BY <2>1, <2>3, <2>4, RuleIs
    <3> QED BY <3>1, <3>2 DEF same
  <2>5. CASE Agree(n0) /\ ~ TheOne(n0)
    <3>1. Reason(c) = "DuplicateIdentical"
      BY <1>3, <2>1, <2>2, <2>3, <2>5 DEF Reason
    <3>2. \A n \in same : RuleOf(keep, n) = "DuplicateIdentical"
      <4> TAKE n \in same
      <4>1. Agree(n) /\ ~ TheOne(n) /\ n \in Keyed  BY <2>1, <2>3, <2>5
      <4>2. Src(RowOf(n)) = n  BY <4>1, PlacesOf
      <4>3. RowOf(n) \notin keep  BY <4>1, <4>2, KeptOne
      <4> QED BY <4>1, <4>3, RuleIs
    <3> QED BY <3>1, <3>2 DEF same
  <2>6. CASE Agree(n0) /\ TheOne(n0)
    <3>1. \A n \in same : Agree(n) /\ TheOne(n)  BY <2>3, <2>6
    <3>2. Reason(c) = IF c.created \in Unread THEN "InvalidCreated"
                      ELSE IF ~ InScope(c) THEN "OutsideScope"
                      ELSE "Admitted"
      BY <1>3, <2>2, <3>1 DEF Reason
    <3>3. RowOf(n0) \in Positions /\ Src(RowOf(n0)) = n0  BY <2>1, PlacesOf
    <3>4. PICK k \in keep : Of(k) = Of(RowOf(n0))  BY <2>6, <3>3, KeptOne
    <3>5. /\ Src(k) \in Keyed /\ Of(k) = Raw[Src(k)] /\ Of(RowOf(n0)) = Raw[n0]
      BY <3>3, SourceOf
    <3>6. Src(k) \in same  BY <2>1, <2>2, <3>4, <3>5
    <3>7. RowOf(Src(k)) = k  BY PlacesOf
    <3>8. RuleOf(keep, Src(k)) = Reason(c)
      BY <2>1, <3>1, <3>2, <3>6, <3>7, RuleIs
    <3>9. ASSUME NEW m \in same \ {Src(k)}
          PROVE  RuleOf(keep, m) = "DuplicateIdentical"
      <4>1. m \in Keyed /\ Raw[m] = c /\ Agree(m)  BY <2>1, <3>1
      <4>2. RowOf(m) \in Positions /\ Src(RowOf(m)) = m  BY <4>1, PlacesOf
      <4>3. Of(RowOf(m)) = c  BY <4>1, <4>2, SourceOf
      <4>4. Of(k) = c  BY <2>1, <3>4, <3>5
      <4>5. RowOf(m) # k  BY <4>2
      <4>6. RowOf(m) \notin keep  BY <4>3, <4>4, <4>5, KeptOne
      <4> QED BY <4>1, <4>6, RuleIs
    <3>10. Reason(c) \in {"InvalidCreated", "OutsideScope", "Admitted"}  BY <3>2
    <3> QED BY <3>6, <3>8, <3>9, <3>10 DEF same
  <2> QED BY <2>4, <2>5, <2>6
<1> QED BY <1>2, <1>3

\* Rejected counts the source rows that fall under a rule.
LEMMA RejectedCounts ==
    ASSUME PagesInv, StagingInv, NEW keep \in SUBSET Positions, Kept(keep),
           NEW c \in {Raw[n] : n \in Read}, NEW rule \in Rules
    PROVE  Rejected(c, rule) = Cardinality({n \in Read : /\ RuleOf(keep, n) = rule
                                                         /\ Raw[n] = c})
<1> DEFINE same == {n \in Read : Raw[n] = c}
           some == {n \in Read : RuleOf(keep, n) = rule /\ Raw[n] = c}
           one == Reason(c) \in {"InvalidCreated", "OutsideScope", "Admitted"}
<1>1. IsFiniteSet(same)
  <2>1. IsFiniteSet(Read) /\ same \subseteq Read  BY DEF PagesInv
  <2> QED BY <2>1, FS_Subset
<1>2. some = {n \in same : RuleOf(keep, n) = rule}  OBVIOUS
<1>3. Rejected(c, rule) =
         IF one /\ rule = "DuplicateIdentical" THEN Cardinality(same) - 1
         ELSE IF rule # Reason(c) THEN 0
         ELSE IF one THEN 1 ELSE Cardinality(same)
  BY DEF Rejected
<1>4. CASE /\ Reason(c) \in {"InvalidKey", "DuplicateConflicting", "DuplicateIdentical"}
           /\ \A n \in same : RuleOf(keep, n) = Reason(c)
  <2>1. ~ one  BY <1>4
  <2>2. some = IF rule = Reason(c) THEN same ELSE {}  BY <1>2, <1>4
  <2> HIDE DEF same, some, one
  <2> QED BY <1>3, <2>1, <2>2, FS_EmptySet DEF some
<1>5. CASE /\ one
           /\ \E n \in same :
                 /\ RuleOf(keep, n) = Reason(c)
                 /\ \A m \in same \ {n} : RuleOf(keep, m) = "DuplicateIdentical"
  <2>1. PICK n \in same :
           /\ RuleOf(keep, n) = Reason(c)
           /\ \A m \in same \ {n} : RuleOf(keep, m) = "DuplicateIdentical"
    BY <1>5
  <2>2. one /\ Reason(c) # "DuplicateIdentical"  BY <1>5
  <2> HIDE DEF same, one
  <2>3. some = IF rule = "DuplicateIdentical" THEN same \ {n}
               ELSE IF rule = Reason(c) THEN {n} ELSE {}
    BY <1>2, <2>1, <2>2
  <2> HIDE DEF some
  <2>4. Cardinality(same \ {n}) = Cardinality(same) - 1
    BY <1>1, FS_RemoveElement
  <2>5. Cardinality({n}) = 1  BY FS_Singleton
  <2>6. Cardinality({}) = 0  BY FS_EmptySet
  <2>7. Cardinality(some) = Rejected(c, rule)
    BY <1>3, <2>2, <2>3, <2>4, <2>5, <2>6
  <2> QED BY <2>7 DEF some
<1>6. \/ /\ Reason(c) \in {"InvalidKey", "DuplicateConflicting", "DuplicateIdentical"}
         /\ \A n \in same : RuleOf(keep, n) = Reason(c)
      \/ /\ one
         /\ \E n \in same :
               /\ RuleOf(keep, n) = Reason(c)
               /\ \A m \in same \ {n} : RuleOf(keep, m) = "DuplicateIdentical"
  BY SameRecords
<1> QED BY <1>4, <1>5, <1>6

\* How many rejects are e.
Count(rejects, e) == IF e \in DOMAIN rejects THEN rejects[e] ELSE 0

LEMMA RejectsAre ==
    ASSUME PagesInv, StagingInv, NEW keep \in SUBSET Positions
    PROVE  LET bag == BagOf(Pending(keep), Resolved)
           IN  /\ \A e : e \in DOMAIN bag <=> \E p \in Pending(keep) : e = Resolved(p)
               /\ \A e \in DOMAIN bag :
                     bag[e] = Cardinality({p \in Pending(keep) : Resolved(p) = e})
               /\ \A e : Count(bag, e) =
                     Cardinality({n \in Read : /\ RuleOf(keep, n) # "Admitted"
                                               /\ Reject(keep, n) = e})
<1> DEFINE bag == BagOf(Pending(keep), Resolved)
<1>1. bag = [y \in {Resolved(x) : x \in Pending(keep)} |->
                Cardinality({x \in Pending(keep) : Resolved(x) = y})]
  BY DEF BagOf
<1> HIDE DEF bag
<1>2. \A e : e \in DOMAIN bag <=> \E p \in Pending(keep) : e = Resolved(p)
  BY <1>1
<1>3. \A e \in DOMAIN bag :
         bag[e] = Cardinality({p \in Pending(keep) : Resolved(p) = e})
  BY <1>1
<1>4. ASSUME NEW e
      PROVE  Count(bag, e) = Cardinality({n \in Read : /\ RuleOf(keep, n) # "Admitted"
                                                       /\ Reject(keep, n) = e})
  <2> DEFINE A == {n \in Read : RuleOf(keep, n) # "Admitted" /\ Reject(keep, n) = e}
             B == {p \in Pending(keep) : Resolved(p) = e}
  <2>1. Cardinality(B) = Cardinality(A)
    <3>1. /\ A = {n \in Read : RuleOf(keep, n) # "Admitted" /\ Reject(keep, n) \in {e}}
          /\ B = {p \in Pending(keep) : Resolved(p) \in {e}}
      OBVIOUS
    <3> HIDE DEF A, B
    <3> QED BY <3>1, CountPending
  <2>2. Count(bag, e) = Cardinality(B)
    <3>1. CASE e \in DOMAIN bag  BY <1>3, <3>1 DEF Count
    <3>2. CASE e \notin DOMAIN bag
      <4>1. B = {}  BY <1>2, <3>2
      <4> HIDE DEF B
      <4> QED BY <3>2, <4>1, FS_EmptySet DEF Count
    <3> QED BY <3>1, <3>2
  <2> HIDE DEF A, B
  <2>3. Count(bag, e) = Cardinality(A)  BY <2>1, <2>2
  <2> QED BY <2>3 DEF A
<1> QED BY <1>2, <1>3, <1>4 DEF bag

LEMMA RejectsAgree ==
    ASSUME PagesInv, StagingInv, NEW keep \in SUBSET Positions, Kept(keep),
           NEW c \in {Raw[n] : n \in Read}, NEW rule \in Rules
    PROVE  Rejected(c, rule) =
              Count(BagOf(Pending(keep), Resolved),
                    [raw_unique_key |-> c.key, rule |-> rule, raw_record |-> c])
<1> DEFINE e == [raw_unique_key |-> c.key, rule |-> rule, raw_record |-> c]
<1>1. rule # "Admitted"  BY DEF Rules
<1>2. \A n : Reject(keep, n) = e <=> RuleOf(keep, n) = rule /\ Raw[n] = c
  BY DEF Reject
<1> HIDE DEF e
<1>3. {n \in Read : RuleOf(keep, n) # "Admitted" /\ Reject(keep, n) = e}
        = {n \in Read : RuleOf(keep, n) = rule /\ Raw[n] = c}
  BY <1>1, <1>2
<1>4. Count(BagOf(Pending(keep), Resolved), e)
        = Cardinality({n \in Read : RuleOf(keep, n) # "Admitted" /\ Reject(keep, n) = e})
  BY RejectsAre
<1>5. Rejected(c, rule) = Cardinality({n \in Read : RuleOf(keep, n) = rule /\ Raw[n] = c})
  BY RejectedCounts
<1> QED BY <1>3, <1>4, <1>5 DEF e

OfKey(k) == {n \in Read : Raw[n].key = k}

RowsOfKey(rows, k) == {i \in DOMAIN rows : rows[i].key = k}

RejectsOfKey(rejects, k) == {e \in DOMAIN rejects : e.raw_unique_key = k}

\* The source rows of a key are the rows of it and the rejects of it.
LEMMA AllCounted ==
    ASSUME PagesInv, StagingInv, NEW keep \in SUBSET Positions, Kept(keep), NEW k
    PROVE  LET bag == BagOf(Pending(keep), Resolved)
               rows == [i \in DOMAIN RowOrder(keep) |-> Row(keep, RowOrder(keep)[i])]
           IN  Cardinality(OfKey(k)) =
                  Cardinality(RowsOfKey(rows, k))
                  + Cardinality(Spread(RejectsOfKey(bag, k), bag, Cardinality(Read)))
<1> DEFINE bag == BagOf(Pending(keep), Resolved)
           rows == [i \in DOMAIN RowOrder(keep) |-> Row(keep, RowOrder(keep)[i])]
           E == {e \in DOMAIN bag : e.raw_unique_key = k}
           P == {p \in Pending(keep) : Resolved(p) \in E}
           A == {n \in Read : RuleOf(keep, n) # "Admitted" /\ Reject(keep, n) \in E}
           C == {n \in Read : RuleOf(keep, n) = "Admitted" /\ Raw[n].key = k}
           I == {i \in DOMAIN RowOrder(keep) : Row(keep, RowOrder(keep)[i]).key = k}
           X == {x \in E \X (1 .. Cardinality(Read)) : x[2] <= bag[x[1]]}
           g == [p \in P |-> Resolved(p)]
           h == [i \in I |-> Src(RowOrder(keep)[i])]
<1>1. /\ \A e : e \in DOMAIN bag <=> \E p \in Pending(keep) : e = Resolved(p)
      /\ \A e \in DOMAIN bag :
            bag[e] = Cardinality({p \in Pending(keep) : Resolved(p) = e})
  BY RejectsAre
<1> HIDE DEF bag
<1>2. IsFiniteSet(Read) /\ Cardinality(Read) \in Nat
  BY FS_CardinalityType DEF PagesInv
<1>3. /\ IsFiniteSet(A) /\ IsFiniteSet(P) /\ Cardinality(P) = Cardinality(A)
      /\ Cardinality(P) <= Cardinality(Read)
  <2> HIDE DEF E
  <2> QED BY CountPending
<1>4. Cardinality(X) = Cardinality(P)
  <2>1. \A p \in P : g[p] \in E  OBVIOUS
  <2>2. \A e \in E : bag[e] = Cardinality({p \in P : g[p] = e})
    <3> TAKE e \in E
    <3>1. {p \in P : g[p] = e} = {p \in Pending(keep) : Resolved(p) = e}
      OBVIOUS
    <3>2. bag[e] = Cardinality({p \in Pending(keep) : Resolved(p) = e})
      BY <1>1
    <3> QED BY <3>1, <3>2
  <2> HIDE DEF g, E, P
  <2>3. Fibres(P, g, E, bag)  BY <2>1, <2>2 DEF Fibres
  <2>4. Cardinality(Spread(E, bag, Cardinality(Read))) = Cardinality(P)
    BY ONLY <1>2, <1>3, <2>3, CountFibres
  <2> QED BY <2>4 DEF Spread
<1>5. A = {n \in Read : RuleOf(keep, n) # "Admitted" /\ Raw[n].key = k}
  <2>1. ASSUME NEW n \in Read, RuleOf(keep, n) # "Admitted"
        PROVE  Reject(keep, n) \in DOMAIN bag
    <3>1. /\ PendingOf(keep, n) \in Pending(keep)
          /\ Resolved(PendingOf(keep, n)) = Reject(keep, n)
      BY <2>1, PendingIs
    <3> QED BY <1>1, <3>1
  <2>2. \A n : Reject(keep, n).raw_unique_key = Raw[n].key  BY DEF Reject
  <2> QED BY <2>1, <2>2
<1>6. Cardinality(I) = Cardinality(C)
  <2>1. /\ \A i \in DOMAIN RowOrder(keep) : RowOrder(keep)[i] \in Admitted(keep)
        /\ \A i, j \in DOMAIN RowOrder(keep) :
              RowOrder(keep)[i] = RowOrder(keep)[j] => i = j
        /\ \A r \in Admitted(keep) : \E i \in DOMAIN RowOrder(keep) :
              RowOrder(keep)[i] = r
        /\ DOMAIN RowOrder(keep) = 0 .. Cardinality(Admitted(keep)) - 1
    BY OrdersAgree
  <2>2. Admitted(keep) \subseteq Positions  BY SnapshotIs
  <2>3. IsFiniteSet(DOMAIN RowOrder(keep))
    <3>1. IsFiniteSet(Admitted(keep))  BY AdmittedOrders
    <3>2. Cardinality(Admitted(keep)) \in Nat  BY <3>1, FS_CardinalityType
    <3> QED BY <2>1, <3>2, FS_Interval
  <2>4. IsFiniteSet(I)
    <3>1. I \subseteq DOMAIN RowOrder(keep)  OBVIOUS
    <3> HIDE DEF I
    <3> QED BY <2>3, <3>1, FS_Subset
  <2>5. \A r \in Positions :
           /\ Src(r) \in Keyed /\ Src(r) \in Read /\ Of(r) = Raw[Src(r)]
           /\ staging.rows[r].key = Raw[Src(r)].key
           /\ RowOf(Src(r)) = r /\ RuleOf(keep, Src(r)) = Status(keep, r)
           /\ Row(keep, r).key = Raw[Src(r)].key
    <3> TAKE r \in Positions
    <3>1. Src(r) \in Keyed /\ Of(r) = Raw[Src(r)]  BY SourceOf
    <3>2. staging.rows[r].key = Raw[Src(r)].key  BY <3>1, FieldsOf
    <3>3. RowOf(Src(r)) = r  BY PlacesOf
    <3>4. RuleOf(keep, Src(r)) = Status(keep, r)  BY <3>1, <3>3 DEF RuleOf, Keyed
    <3>5. Row(keep, r).key = staging.rows[r].key  BY DEF Row
    <3> QED BY <3>1, <3>2, <3>3, <3>4, <3>5 DEF Keyed
  <2>6. \A r \in Positions : r \in Admitted(keep) <=> RuleOf(keep, Src(r)) = "Admitted"
    BY <2>5 DEF Admitted
  <2>7. \A i \in I : h[i] \in C  BY <2>1, <2>2, <2>5, <2>6
  <2>8. \A n \in C : \E i \in I : n = h[i]
    <3> TAKE n \in C
    <3>1. n \in Keyed  BY DEF RuleOf, Keyed
    <3>2. PICK r \in Positions : r = RowOf(n) /\ Src(r) = n  BY <3>1, PlacesOf
    <3>3. r \in Admitted(keep)  BY <2>6, <3>2
    <3>4. PICK i \in DOMAIN RowOrder(keep) : RowOrder(keep)[i] = r  BY <2>1, <3>3
    <3>5. i \in I  BY <2>5, <3>2, <3>4
    <3> QED BY <3>2, <3>4, <3>5
  <2>9. \A i, j \in I : h[i] = h[j] => i = j
    <3> SUFFICES ASSUME NEW i \in I, NEW j \in I, h[i] = h[j] PROVE i = j
      OBVIOUS
    <3>1. /\ RowOrder(keep)[i] \in Positions /\ RowOrder(keep)[j] \in Positions
          /\ Src(RowOrder(keep)[i]) = Src(RowOrder(keep)[j])
      BY <2>1, <2>2
    <3>2. RowOrder(keep)[i] = RowOrder(keep)[j]  BY <3>1, SourceOf
    <3> QED BY <2>1, <3>2
  <2> HIDE DEF I, C, h
  <2> QED BY <2>4, <2>7, <2>8, <2>9, CountMapped
<1>7. Cardinality({n \in Read : Raw[n].key = k}) = Cardinality(A) + Cardinality(C)
  <2>1. {n \in Read : Raw[n].key = k} = A \cup C /\ A \cap C = {} /\ C \subseteq Read
    BY <1>5
  <2> HIDE DEF A, C
  <2>2. IsFiniteSet(C)  BY <1>2, <2>1, FS_Subset
  <2>3. /\ Cardinality(A \cup C) =
              Cardinality(A) + Cardinality(C) - Cardinality(A \cap C)
        /\ Cardinality(A \cap C) = 0
    BY <1>3, <2>1, <2>2, FS_Union, FS_EmptySet
  <2>4. Cardinality(A) \in Nat /\ Cardinality(C) \in Nat
    BY <1>3, <2>2, FS_CardinalityType
  <2>5. Cardinality(A \cup C) = Cardinality(A) + Cardinality(C)
    BY ONLY <2>3, <2>4
  <2> QED BY ONLY <2>1, <2>5
<1>8. Cardinality(A) \in Nat /\ Cardinality(C) \in Nat
  <2>1. C \subseteq Read  OBVIOUS
  <2> HIDE DEF A, C
  <2> QED BY <1>2, <1>3, <2>1, FS_Subset, FS_CardinalityType
<1>9. Cardinality({n \in Read : Raw[n].key = k}) = Cardinality(I) + Cardinality(X)
  <2> HIDE DEF A, C, I, X, P
  <2> QED BY <1>3, <1>4, <1>6, <1>7, <1>8
<1>10. I = RowsOfKey(rows, k)  BY DEF RowsOfKey
<1>11. X = Spread(RejectsOfKey(bag, k), bag, Cardinality(Read))
  BY DEF Spread, RejectsOfKey
<1> HIDE DEF I, X, rows
<1>12. Cardinality(OfKey(k)) =
          Cardinality(RowsOfKey(rows, k))
          + Cardinality(Spread(RejectsOfKey(bag, k), bag, Cardinality(Read)))
  BY <1>9, <1>10, <1>11 DEF OfKey
<1> QED BY <1>12 DEF bag, rows

----------------------------------------------------------------------------
(* The log.                                                                *)

\* What the snapshot shows of a record's column.
Shown(c, column) ==
    IF column = "text"
    THEN IF Value(c, "text") = Absent THEN Absent
         ELSE [value |-> Value(c, "text"), padded |-> FALSE]
    ELSE Value(c, column)

\* A value that the snapshot doesn't show meets one rule, others none.
LEMMA OneRule ==
    ASSUME NEW c \in Record, c.key \notin Unread, ~ Stops(c), NEW column \in Columns
    PROVE  IF Told(column, Field(c, column), Shown(c, column))
           THEN \A rule \in ValueRules : ~ Fires(c, column, rule)
           ELSE \E rule \in ValueRules :
                   /\ Fires(c, column, rule)
                   /\ \A other \in ValueRules : Fires(c, column, other) => other = rule
<1>1. /\ Absent # Bad /\ Absent \notin Text /\ Absent \notin Scalar \X Scalar
      /\ Absent \notin Int
  BY CleanAssumption
<1>2. CASE column = "closed"
  <2>1. CASE c.closed = Bad
    <3>1. Shown(c, column) = Absent /\ Field(c, column) = Bad
      BY <1>2, <2>1 DEF Shown, Value, Field, Unread
    <3>2. ~ Told(column, Field(c, column), Shown(c, column))
      BY <1>1, <1>2, <3>1 DEF Told
    <3>3. Fires(c, column, "InvalidClosed")  BY <1>2, <2>1 DEF Fires
    <3>4. \A other \in ValueRules : Fires(c, column, other) => other = "InvalidClosed"
      BY <1>2 DEF Fires, ValueRules
    <3> QED BY <3>2, <3>3, <3>4 DEF ValueRules
  <2>2. CASE c.closed # Bad
    <3>1. Shown(c, column) = Field(c, column)
      BY <1>2, <2>2 DEF Shown, Value, Field, Unread
    <3>2. \A rule \in ValueRules : ~ Fires(c, column, rule)
      BY <1>2, <2>2 DEF Fires, ValueRules
    <3> QED BY <3>1, <3>2 DEF Told
  <2> QED BY <2>1, <2>2
<1>3. CASE column = "text"
  <2>1. c.text \in Text \cup {Absent}  BY DEF Record, Stops
  <2>2. CASE c.text = Absent
    <3>1. Shown(c, column) = Absent /\ Field(c, column) = Absent
      BY <1>3, <2>2 DEF Shown, Value, Field
    <3>2. \A rule \in ValueRules : ~ Fires(c, column, rule)
      BY <1>3, <2>2 DEF Fires, ValueRules
    <3> QED BY <3>1, <3>2 DEF Told
  <2>3. CASE c.text # Absent /\ c.text.value = 0
    <3>1. Shown(c, column) = Absent /\ Field(c, column) = c.text
      BY <1>3, <2>3 DEF Shown, Value, Field
    <3>2. ~ Told(column, Field(c, column), Shown(c, column))
      BY <1>3, <2>3, <3>1 DEF Told
    <3>3. Fires(c, column, "EmptyText")  BY <1>3, <2>3 DEF Fires
    <3>4. \A other \in ValueRules : Fires(c, column, other) => other = "EmptyText"
      BY <1>3, <2>3 DEF Fires, ValueRules
    <3> QED BY <3>2, <3>3, <3>4 DEF ValueRules
  <2>4. CASE c.text # Absent /\ c.text.value # 0
    <3>1. c.text \in Text /\ c.text.value \in Nat /\ c.text.padded \in BOOLEAN
          /\ c.text = [value |-> c.text.value, padded |-> c.text.padded]
      BY <2>1, <2>4 DEF Text
    <3>2. Value(c, "text") = c.text.value /\ Value(c, "text") # Absent
      <4>1. Value(c, "text") = c.text.value  BY <2>4 DEF Value
      <4> QED BY <1>1, <3>1, <4>1
    <3>3. /\ Shown(c, column) = [value |-> c.text.value, padded |-> FALSE]
          /\ Field(c, column) = c.text
      BY <1>3, <3>2 DEF Shown, Field
    <3>4. \A rule \in ValueRules : Fires(c, column, rule) <=>
             rule = "Trimmed" /\ c.text.padded
      BY <1>3, <2>4 DEF Fires, ValueRules
    <3>5. Told(column, Field(c, column), Shown(c, column)) <=> ~ c.text.padded
      <4>1. CASE c.text.padded = TRUE
        <5>1. c.text # [value |-> c.text.value, padded |-> FALSE]  BY <4>1
        <5> QED BY <1>3, <3>3, <4>1, <5>1 DEF Told
      <4>2. CASE c.text.padded = FALSE
        <5>1. c.text = [value |-> c.text.value, padded |-> FALSE]  BY <3>1, <4>2
        <5> QED BY <3>3, <4>2, <5>1 DEF Told
      <4> QED BY <3>1, <4>1, <4>2
    <3> QED BY <3>4, <3>5 DEF ValueRules
  <2> QED BY <2>2, <2>3, <2>4
<1>4. CASE column = "location"
  <2>1. c.location \in Scalar \X Scalar /\ c.location # Absent
    BY <1>1 DEF Record
  <2>2. Field(c, column) = c.location /\ Shown(c, column) = Value(c, "location")
    BY <1>4 DEF Field, Shown
  <2>3. \A rule \in ValueRules : Fires(c, column, rule) <=>
           /\ rule = "InvalidLocation" /\ c.location # <<Absent, Absent>>
           /\ Value(c, "location") = Absent
    BY <1>4 DEF Fires, ValueRules
  <2>4. Value(c, "location") = Absent \/ Value(c, "location") = c.location
    BY DEF Value
  <2>5. Told(column, Field(c, column), Shown(c, column)) <=>
           ~ (c.location # <<Absent, Absent>> /\ Value(c, "location") = Absent)
    <3>1. CASE Value(c, "location") = c.location
      BY <2>1, <2>2, <3>1 DEF Told
    <3>2. CASE Value(c, "location") = Absent
      BY <1>4, <2>1, <2>2, <3>2 DEF Told
    <3> QED BY <2>4, <3>1, <3>2
  <2> QED BY <2>3, <2>5 DEF ValueRules
<1> QED BY <1>2, <1>3, <1>4 DEF Columns

\* The entries of a row's final number.
LEMMA LogOfRow ==
    ASSUME PagesInv, StagingInv, NEW keep \in SUBSET Positions, Kept(keep),
           NEW i \in DOMAIN RowOrder(keep), NEW column \in Columns
    PROVE  \A e : e \in LogEntries(keep) /\ e.row_index = i /\ e.column = column <=>
              \E rule \in ValueRules :
                 /\ Fires(Of(RowOrder(keep)[i]), column, rule)
                 /\ e = [row_index |-> i, column |-> column, rule |-> rule,
                         raw_value |-> Field(Of(RowOrder(keep)[i]), column)]
<1> DEFINE r == RowOrder(keep)[i]
<1>1. /\ r \in Admitted(keep)
      /\ \A a, b \in DOMAIN RowOrder(keep) :
            RowOrder(keep)[a] = RowOrder(keep)[b] => a = b
      /\ \A s \in Admitted(keep) : \E a \in DOMAIN RowOrder(keep) :
            RowOrder(keep)[a] = s
  BY OrdersAgree
<1>2. Admitted(keep) \subseteq Positions  BY SnapshotIs
<1>3. \A s \in Admitted(keep) :
         /\ PlaceOf(RowOrder(keep), s) \in DOMAIN RowOrder(keep)
         /\ RowOrder(keep)[PlaceOf(RowOrder(keep), s)] = s
  <2> TAKE s \in Admitted(keep)
  <2>1. \E a \in DOMAIN RowOrder(keep) : RowOrder(keep)[a] = s  BY <1>1
  <2> QED BY <2>1 DEF PlaceOf
<1>4. PlaceOf(RowOrder(keep), r) = i  BY <1>1, <1>3
<1>5. \A s \in Admitted(keep) : PlaceOf(RowOrder(keep), s) = i <=> s = r
  BY <1>1, <1>3, <1>4
<1> HIDE DEF r
<1>6. \A x : x \in staging.log <=>
        \E s \in Positions, col \in Columns, rule \in ValueRules :
            /\ Fires(Of(s), col, rule)
            /\ x = [row |-> s, column |-> col, rule |-> rule,
                    raw_value |-> Field(Of(s), col)]
  BY DEF StagingInv, LogInv
<1>7. ASSUME NEW e, e \in LogEntries(keep), e.row_index = i, e.column = column
      PROVE  \E rule \in ValueRules :
                /\ Fires(Of(r), column, rule)
                /\ e = [row_index |-> i, column |-> column, rule |-> rule,
                        raw_value |-> Field(Of(r), column)]
  <2>1. PICK x \in staging.log :
           /\ x.row \in Admitted(keep)
           /\ e = [row_index |-> PlaceOf(RowOrder(keep), x.row), column |-> x.column,
                   rule |-> x.rule, raw_value |-> x.raw_value]
    BY <1>7 DEF LogEntries
  <2>2. PICK s \in Positions, col \in Columns, rule \in ValueRules :
            /\ Fires(Of(s), col, rule)
            /\ x = [row |-> s, column |-> col, rule |-> rule,
                    raw_value |-> Field(Of(s), col)]
    BY <1>6, <2>1
  <2>3. x.row = s /\ x.column = col /\ x.rule = rule /\ x.raw_value = Field(Of(s), col)
    BY <2>2
  <2>4. e.row_index = PlaceOf(RowOrder(keep), s) /\ e.column = col  BY <2>1, <2>3
  <2>5. s = r /\ col = column  BY <1>5, <1>7, <2>1, <2>3, <2>4
  <2> QED BY <1>4, <2>1, <2>2, <2>3, <2>5
<1>8. ASSUME NEW rule \in ValueRules, Fires(Of(r), column, rule)
      PROVE  LET e == [row_index |-> i, column |-> column, rule |-> rule,
                       raw_value |-> Field(Of(r), column)]
             IN  e \in LogEntries(keep) /\ e.row_index = i /\ e.column = column
  <2> DEFINE x == [row |-> r, column |-> column, rule |-> rule,
                   raw_value |-> Field(Of(r), column)]
             e == [row_index |-> i, column |-> column, rule |-> rule,
                   raw_value |-> Field(Of(r), column)]
  <2>1. r \in Admitted(keep) /\ r \in Positions  BY <1>1, <1>2 DEF r
  <2>2. x \in staging.log  BY <1>6, <1>8, <2>1
  <2>3. /\ x.row = r /\ x.column = column /\ x.rule = rule
        /\ x.raw_value = Field(Of(r), column)
    OBVIOUS
  <2> HIDE DEF x
  <2>4. e = [row_index |-> PlaceOf(RowOrder(keep), x.row), column |-> x.column,
             rule |-> x.rule, raw_value |-> x.raw_value]
    BY <1>4, <2>3 DEF r
  <2>5. e \in LogEntries(keep)  BY <2>1, <2>2, <2>3, <2>4 DEF LogEntries
  <2> QED BY <2>5
<1> QED BY <1>7, <1>8 DEF r

----------------------------------------------------------------------------
(* What cleaning gives.                                                    *)

\* What is said of the source rows read says it of the pages alone.
LEMMA SamePages ==
    ASSUME pages' = pages
    PROVE  /\ Read' = Read /\ Keyed' = Keyed /\ Texts' = Texts
           /\ SnapshotRows' = SnapshotRows
           /\ \A c, rule : Rejected(c, rule)' = Rejected(c, rule)
<1>1. Read' = Read  BY DEF Read
<1>2. Keyed' = Keyed  BY <1>1 DEF Keyed
<1>3. \A n : SameKey(n)' = SameKey(n)  BY <1>2 DEF SameKey
<1>4. \A n : Agree(n)' <=> Agree(n)  BY <1>3 DEF Agree
<1>5. \A n : TheOne(n)' <=> TheOne(n)  BY <1>3 DEF TheOne
<1>6. Snapshot' = Snapshot  BY <1>2, <1>4, <1>5 DEF Snapshot
<1>7. Texts' = Texts  BY <1>6 DEF Texts
<1>8. RecordOrder' = RecordOrder  BY <1>6 DEF RecordOrder, Ranked
<1>9. SnapshotRows' = SnapshotRows
  BY <1>7, <1>8 DEF SnapshotRows, RecordOrder, Before
<1>10. \A c : Reason(c)' = Reason(c)  BY <1>2, <1>4, <1>5 DEF Reason
<1>11. \A c, rule : Rejected(c, rule)' = Rejected(c, rule)
  BY <1>1, <1>10 DEF Rejected
<1> QED BY <1>1, <1>2, <1>7, <1>9, <1>11

LEMMA DictionaryIs ==
    ASSUME PagesInv, StagingInv, NEW keep \in SUBSET Positions, Kept(keep)
    PROVE  [i \in DOMAIN DictionaryIds(keep) |-> staging.values[DictionaryIds(keep)[i]]]
             = Ascending(Texts)
<1>1. /\ DOMAIN DictionaryIds(keep) = DOMAIN Ascending(Texts)
      /\ \A i \in DOMAIN DictionaryIds(keep) :
            Ascending(Texts)[i] = staging.values[DictionaryIds(keep)[i]]
  BY DictionaryAgrees
<1>2. Ascending(Texts) = [i \in DOMAIN Ascending(Texts) |-> Ascending(Texts)[i]]
  BY DEF Ascending, Ranked
<1> QED BY <1>1, <1>2

\* The outcome, for the copies that are kept.
Outcome(keep) ==
    [ok |-> TRUE,
     rows |-> [i \in DOMAIN RowOrder(keep) |-> Row(keep, RowOrder(keep)[i])],
     dictionary |-> [i \in DOMAIN DictionaryIds(keep) |->
                        staging.values[DictionaryIds(keep)[i]]],
     log |-> LogEntries(keep),
     rejects |-> BagOf(Pending(keep), Resolved)]

LEMMA FinishIs ==
    ASSUME CleanInv, Finish
    PROVE  /\ PagesInv /\ StagingInv /\ pages' = pages
           /\ \E keep \in SUBSET Positions :
                 Kept(keep) /\ cleaned' = Outcome(keep)
<1>1. cleaned = Absent /\ pages' = pages  BY DEF Finish
<1>2. ~ Stopped  BY <1>1, CleanAssumption DEF Stopped
<1>3. PICK keep \in SUBSET Positions : Kept(keep) /\ cleaned' = Outcome(keep)
  BY DEF Finish, Outcome
<1> QED BY <1>1, <1>2, <1>3 DEF CleanInv

\* CleanedIsSnapshot of a build that ended.
SnapshotIsOfRecords ==
    Done => /\ cleaned.rows = SnapshotRows
            /\ cleaned.dictionary = Ascending(Texts)
            /\ \A c \in {Raw[n] : n \in Read}, rule \in Rules :
                  Rejected(c, rule) =
                      Count(cleaned.rejects,
                            [raw_unique_key |-> c.key, rule |-> rule, raw_record |-> c])

LEMMA FinishSnapshot ==
    ASSUME CleanInv, Finish
    PROVE  SnapshotIsOfRecords'
<1>1. PICK keep \in SUBSET Positions : Kept(keep) /\ cleaned' = Outcome(keep)
  BY FinishIs
<1>2. PagesInv /\ StagingInv /\ pages' = pages  BY FinishIs
<1>3. /\ cleaned'.rows = [i \in DOMAIN RowOrder(keep) |-> Row(keep, RowOrder(keep)[i])]
      /\ cleaned'.dictionary = [i \in DOMAIN DictionaryIds(keep) |->
                                   staging.values[DictionaryIds(keep)[i]]]
      /\ cleaned'.rejects = BagOf(Pending(keep), Resolved)
  BY <1>1 DEF Outcome
<1>4. cleaned'.rows = SnapshotRows'  BY <1>1, <1>2, <1>3, RowsAgree, SamePages
<1>5. cleaned'.dictionary = Ascending(Texts')
  BY <1>1, <1>2, <1>3, DictionaryIs, SamePages
<1>6. ASSUME NEW c \in {Raw[n] : n \in Read'}, NEW rule \in Rules
      PROVE  Rejected(c, rule)' =
                Count(cleaned'.rejects,
                      [raw_unique_key |-> c.key, rule |-> rule, raw_record |-> c])
  <2>1. Read' = Read /\ Rejected(c, rule)' = Rejected(c, rule)  BY <1>2, SamePages
  <2>2. c \in {Raw[n] : n \in Read}  BY <2>1
  <2> QED BY <1>1, <1>2, <1>3, <2>1, <2>2, RejectsAgree
<1>7. Ascending(Texts)' = Ascending(Texts')  BY DEF Ascending, Ranked
<1> QED BY <1>4, <1>5, <1>6, <1>7 DEF SnapshotIsOfRecords, Count

LEMMA FinishCounted ==
    ASSUME CleanInv, Finish
    PROVE  EveryRecordCounted'
<1>1. PICK keep \in SUBSET Positions : Kept(keep) /\ cleaned' = Outcome(keep)
  BY FinishIs
<1>2. PagesInv /\ StagingInv /\ Read' = Read  BY FinishIs, SamePages
<1>3. /\ cleaned'.rows = [i \in DOMAIN RowOrder(keep) |-> Row(keep, RowOrder(keep)[i])]
      /\ cleaned'.rejects = BagOf(Pending(keep), Resolved)
  BY <1>1 DEF Outcome
<1>4. ASSUME NEW k
      PROVE  Cardinality(OfKey(k)) =
                Cardinality(RowsOfKey(cleaned'.rows, k))
                + Cardinality(Spread(RejectsOfKey(cleaned'.rejects, k),
                                     cleaned'.rejects, Cardinality(Read)))
  BY <1>1, <1>2, <1>3, AllCounted
<1>5. \A k :
         /\ OfKey(k)' = OfKey(k)
         /\ RowsOfKey(cleaned.rows, k)' = RowsOfKey(cleaned'.rows, k)
         /\ Spread(RejectsOfKey(cleaned.rejects, k), cleaned.rejects, Cardinality(Read))'
              = Spread(RejectsOfKey(cleaned'.rejects, k), cleaned'.rejects,
                       Cardinality(Read))
  BY <1>2 DEF OfKey, RowsOfKey, RejectsOfKey, Spread
<1>6. \A k :
         Cardinality(OfKey(k)') =
            Cardinality(RowsOfKey(cleaned.rows, k)')
            + Cardinality(Spread(RejectsOfKey(cleaned.rejects, k), cleaned.rejects,
                                 Cardinality(Read))')
  BY <1>4, <1>5
<1> QED BY ONLY <1>6 DEF EveryRecordCounted, OfKey, RowsOfKey, RejectsOfKey, Spread

LEMMA FinishLog ==
    ASSUME CleanInv, Finish
    PROVE  LogExplainsChanges'
<1>1. PICK keep \in SUBSET Positions : Kept(keep) /\ cleaned' = Outcome(keep)
  BY FinishIs
<1>2. PagesInv /\ StagingInv /\ Keyed' = Keyed  BY FinishIs, SamePages
<1>3. /\ DOMAIN cleaned'.rows = DOMAIN RowOrder(keep)
      /\ \A i \in DOMAIN RowOrder(keep) :
            cleaned'.rows[i] = Row(keep, RowOrder(keep)[i])
      /\ \A i \in DOMAIN DictionaryIds(keep) :
            cleaned'.dictionary[i] = staging.values[DictionaryIds(keep)[i]]
      /\ cleaned'.log = LogEntries(keep)
  BY <1>1 DEF Outcome
<1>4. ASSUME NEW i \in DOMAIN RowOrder(keep)
      PROVE  \E n \in Keyed :
                /\ Raw[n].key = cleaned'.rows[i].key
                /\ \A column \in Columns :
                      LET entries == {e \in cleaned'.log :
                                         e.row_index = i /\ e.column = column}
                      IN  IF Told(column, Field(Raw[n], column),
                                  Decoded(cleaned.rows[i], column)')
                          THEN entries = {}
                          ELSE \E rule \in ValueRules :
                                  entries = {[row_index |-> i, column |-> column,
                                              rule |-> rule,
                                              raw_value |-> Field(Raw[n], column)]}
  <2>1. PICK r \in Positions : r = RowOrder(keep)[i] /\ r \in Admitted(keep)
    BY <1>1, <1>2, OrdersAgree, SnapshotIs
  <2>2. PICK c : c = Of(r)  OBVIOUS
  <2>3. /\ Src(r) \in Keyed /\ c = Raw[Src(r)] /\ ~ Stops(c) /\ c \in Record
        /\ c.key \notin Unread
    BY <1>2, <2>2, SourceOf, FieldsOf DEF Keyed
  <2>4. /\ cleaned'.rows[i].key = c.key
        /\ cleaned'.rows[i].closed = Value(c, "closed")
        /\ cleaned'.rows[i].location = Value(c, "location")
        /\ cleaned'.rows[i].code = IF staging.rows[r].text = Absent THEN Absent
                                   ELSE PlaceOf(DictionaryIds(keep), staging.rows[r].text)
    <3>1. cleaned'.rows[i] = Row(keep, r)  BY <1>3, <2>1
    <3>2. /\ staging.rows[r].key = c.key
          /\ staging.rows[r].closed = Value(c, "closed")
          /\ staging.rows[r].location = Value(c, "location")
      BY <1>2, <2>2, FieldsOf
    <3>3. /\ Row(keep, r).key = c.key
          /\ Row(keep, r).closed = Value(c, "closed")
          /\ Row(keep, r).location = Value(c, "location")
          /\ Row(keep, r).code = IF staging.rows[r].text = Absent THEN Absent
                                 ELSE PlaceOf(DictionaryIds(keep), staging.rows[r].text)
      BY <3>2 DEF Row
    <3> QED BY <3>1, <3>3
  <2>5. IF Value(c, "text") = Absent THEN cleaned'.rows[i].code = Absent
        ELSE /\ cleaned'.rows[i].code # Absent
             /\ cleaned'.dictionary[cleaned'.rows[i].code] = Value(c, "text")
    <3>1. IsId(staging.values, staging.rows[r].text, Value(c, "text"))
      BY <1>2, <2>2, FieldsOf
    <3>2. CASE Value(c, "text") = Absent  BY <2>4, <3>1, <3>2 DEF IsId
    <3>3. CASE Value(c, "text") # Absent
      <4>1. /\ staging.rows[r].text \in DOMAIN staging.values
            /\ staging.values[staging.rows[r].text] = Value(c, "text")
        BY <3>1, <3>3 DEF IsId
      <4>2. staging.rows[r].text # Absent
        <5>1. DOMAIN staging.values \subseteq Int  BY <1>2 DEF StagingInv, TextsInv
        <5> QED BY <4>1, <5>1, CleanAssumption
      <4>3. staging.rows[r].text \in Ids(keep)  BY <2>1, <4>2 DEF Ids
      <4>4. /\ cleaned'.rows[i].code \in DOMAIN DictionaryIds(keep)
            /\ DictionaryIds(keep)[cleaned'.rows[i].code] = staging.rows[r].text
            /\ DOMAIN DictionaryIds(keep) \subseteq Int
        BY <1>1, <1>2, <2>4, <4>2, <4>3, DictionaryAgrees
      <4> QED BY <1>3, <3>3, <4>1, <4>4, CleanAssumption
    <3> QED BY <3>2, <3>3
  <2>6. ASSUME NEW column \in Columns
        PROVE  Decoded(cleaned.rows[i], column)' = Shown(c, column)
    <3>1. CASE column = "text"  BY <2>5, <3>1 DEF Decoded, Shown
    <3>2. CASE column = "closed"  BY <2>4, <3>2 DEF Decoded, Shown, Field
    <3>3. CASE column = "location"  BY <2>4, <3>3 DEF Decoded, Shown, Field
    <3> QED BY <3>1, <3>2, <3>3 DEF Columns
  <2>7. ASSUME NEW column \in Columns
        PROVE  LET entries == {e \in cleaned'.log :
                                  e.row_index = i /\ e.column = column}
               IN  IF Told(column, Field(c, column), Shown(c, column))
                   THEN entries = {}
                   ELSE \E rule \in ValueRules :
                           entries = {[row_index |-> i, column |-> column,
                                       rule |-> rule, raw_value |-> Field(c, column)]}
    <3> DEFINE entries == {e \in cleaned'.log : e.row_index = i /\ e.column = column}
    <3>1. \A e : e \in entries <=>
             \E rule \in ValueRules :
                /\ Fires(c, column, rule)
                /\ e = [row_index |-> i, column |-> column, rule |-> rule,
                        raw_value |-> Field(c, column)]
      BY <1>1, <1>2, <1>3, <2>1, <2>2, LogOfRow
    <3>2. IF Told(column, Field(c, column), Shown(c, column))
          THEN \A rule \in ValueRules : ~ Fires(c, column, rule)
          ELSE \E rule \in ValueRules :
                  /\ Fires(c, column, rule)
                  /\ \A other \in ValueRules : Fires(c, column, other) => other = rule
      BY <2>3, OneRule
    <3> HIDE DEF entries
    <3>3. CASE Told(column, Field(c, column), Shown(c, column))
      <4>1. entries = {}  BY <3>1, <3>2, <3>3
      <4> QED BY <3>3, <4>1 DEF entries
    <3>4. CASE ~ Told(column, Field(c, column), Shown(c, column))
      <4>1. PICK rule \in ValueRules :
               /\ Fires(c, column, rule)
               /\ \A other \in ValueRules : Fires(c, column, other) => other = rule
        BY <3>2, <3>4
      <4>2. entries = {[row_index |-> i, column |-> column, rule |-> rule,
                        raw_value |-> Field(c, column)]}
        BY <3>1, <4>1
      <4> QED BY <3>4, <4>2 DEF entries
    <3> QED BY <3>3, <3>4
  <2>8. PICK n \in Keyed : Raw[n] = c  BY <2>3
  <2> WITNESS n \in Keyed
  <2> QED BY <2>4, <2>6, <2>7, <2>8
<1> QED BY <1>2, <1>3, <1>4 DEF LogExplainsChanges

----------------------------------------------------------------------------
(* The theorems of cleaning.                                               *)

LEMMA DriftedStops ==
    ASSUME NEW n \in DOMAIN Raw
    PROVE  Drifted(Raw[n]) <=> Stops(Raw[n])
<1> DEFINE c == Raw[n]
<1>1. NonScalar \notin Unread  BY CleanAssumption DEF Unread
<1>2. (\E i \in 1 .. 2 : c.location[i] = NonScalar)
        <=> NonScalar = c.location[1] \/ NonScalar = c.location[2]
  OBVIOUS
<1> HIDE DEF c
<1>3. Drifted(c) <=> Stops(c)  BY <1>1, <1>2 DEF Drifted, Stops
<1> QED BY <1>3 DEF c

\* The record that stops the build was fetched; no other that was read does.
LEMMA StopsStep ==
    CleanInv /\ StopsAsFetched /\ [CleanNext]_cleanVars => StopsAsFetched'
<1> SUFFICES ASSUME CleanInv, StopsAsFetched, [CleanNext]_cleanVars
             PROVE  StopsAsFetched'
  OBVIOUS
<1>1. CASE Finish
  <2>1. /\ PagesInv /\ StagingInv /\ pages' = pages
        /\ \E keep \in SUBSET Positions : cleaned' = Outcome(keep)
    BY <1>1, FinishIs
  <2>2. left = {} /\ left' = left /\ Read' = Read  BY <1>1, <2>1 DEF Finish, Read
  <2>3. cleaned'.ok = TRUE  BY <2>1 DEF Outcome
  <2>4. ASSUME NEW n \in Read PROVE ~ Drifted(Raw[n])
    <3>1. PICK loc \in Locs : n = RecordAt(loc)  BY <2>1, ReadAt
    <3>2. n \in DOMAIN Raw  BY <2>1, SourceOf
    <3>3. ~ Stops(Raw[n])  BY <2>1, <3>1 DEF StagingInv, NoneStops
    <3> QED BY <3>2, <3>3, DriftedStops
  <2> QED BY <2>2, <2>3, <2>4 DEF StopsAsFetched, Drifted
<1>2. ASSUME NEW n \in DOMAIN Raw, Stage(n) PROVE StopsAsFetched'
  <2>1. CASE ~ Stops(Raw[n])
    <3>1. cleaned' = Absent  BY <1>2, <2>1 DEF Stage
    <3> QED BY <3>1 DEF StopsAsFetched
  <2>2. CASE Stops(Raw[n])
    <3>1. cleaned' = [ok |-> FALSE]  BY <1>2, <2>2 DEF Stage
    <3>2. PagesInv  BY DEF CleanInv
    <3>3. PICK loc : loc \in Locs' /\ RecordAt(loc)' = n  BY <1>2, <3>2, StagePages
    <3>4. n \in Read'  BY <3>3 DEF Locs, RecordAt, Read
    <3>5. Drifted(Raw[n])  BY <2>2, DriftedStops
    <3> QED BY <3>1, <3>4, <3>5 DEF StopsAsFetched, Drifted
  <2> QED BY <2>1, <2>2
<1>3. CASE UNCHANGED cleanVars
  <2>1. left' = left /\ pages' = pages /\ cleaned' = cleaned  BY <1>3 DEF cleanVars
  <2>2. Read' = Read  BY <2>1 DEF Read
  <2> QED BY <2>1, <2>2 DEF StopsAsFetched, Drifted
<1> QED BY <1>1, <1>2, <1>3 DEF CleanNext

\* Nothing is said before cleaning is done, nor once it has stopped.
LEMMA OnlyFinish ==
    ASSUME [CleanNext]_cleanVars, ~ Finish
    PROVE  ~ Done' \/ UNCHANGED cleanVars
<1>1. ASSUME NEW n \in DOMAIN Raw, Stage(n) PROVE ~ Done'
  <2>1. cleaned' = Absent \/ cleaned' = [ok |-> FALSE]  BY <1>1 DEF Stage
  <2> QED BY <2>1 DEF Done
<1> QED BY <1>1 DEF CleanNext

\* Whatever the order, the pages and the copies kept, what is built is what
\* the records read say by themselves (clean.rs, finish).
THEOREM CleaningIsOfRecords == CleanSpec => []CleanedIsSnapshot
<1>1. CleanInit => StopsAsFetched /\ SnapshotIsOfRecords
  BY DEF CleanInit, StopsAsFetched, SnapshotIsOfRecords, Done
<1>2. CleanInv /\ SnapshotIsOfRecords /\ [CleanNext]_cleanVars => SnapshotIsOfRecords'
  <2> SUFFICES ASSUME CleanInv, SnapshotIsOfRecords, [CleanNext]_cleanVars
               PROVE  SnapshotIsOfRecords'
    OBVIOUS
  <2>1. CASE Finish  BY <2>1, FinishSnapshot
  <2>2. CASE ~ Done'  BY <2>2 DEF SnapshotIsOfRecords
  <2>3. CASE UNCHANGED cleanVars
    <3>1. pages' = pages /\ cleaned' = cleaned  BY <2>3 DEF cleanVars
    <3>2. /\ Read' = Read /\ Texts' = Texts /\ SnapshotRows' = SnapshotRows
          /\ \A c, rule : Rejected(c, rule)' = Rejected(c, rule)
      BY <3>1, SamePages
    <3>3. Ascending(Texts)' = Ascending(Texts)  BY <3>2 DEF Ascending, Ranked
    <3> QED BY <3>1, <3>2, <3>3 DEF SnapshotIsOfRecords, Done, Count
  <2> QED BY <2>1, <2>2, <2>3, OnlyFinish
<1>3. StopsAsFetched /\ SnapshotIsOfRecords => CleanedIsSnapshot
  BY DEF SnapshotIsOfRecords, CleanedIsSnapshot, Count
<1> QED BY <1>1, <1>2, <1>3, StopsStep, CleanInvHolds, PTL DEF CleanSpec

\* EveryRecordCounted of one key.
Counted(k) ==
    Cardinality(OfKey(k)) =
       Cardinality(RowsOfKey(cleaned.rows, k))
       + Cardinality(Spread(RejectsOfKey(cleaned.rejects, k), cleaned.rejects,
                            Cardinality(Read)))

\* Every record read is a row or exactly one reject (clean.rs, finish and
\* resolve_rejects).
THEOREM CleaningCountsAll == CleanSpec => []EveryRecordCounted
<1>1. CleanInit => EveryRecordCounted
  BY DEF CleanInit, EveryRecordCounted, Done
<1>2. CleanInv /\ EveryRecordCounted /\ [CleanNext]_cleanVars => EveryRecordCounted'
  <2> SUFFICES ASSUME CleanInv, EveryRecordCounted, [CleanNext]_cleanVars
               PROVE  EveryRecordCounted'
    OBVIOUS
  <2>1. CASE Finish  BY <2>1, FinishCounted
  <2>2. CASE ~ Done'  BY <2>2 DEF EveryRecordCounted
  <2>3. CASE UNCHANGED cleanVars
    <3>1. pages' = pages /\ cleaned' = cleaned  BY <2>3 DEF cleanVars
    <3>2. Read' = Read  BY <3>1, SamePages
    <3>3. \A k : Counted(k)' <=> Counted(k)
      BY <3>1, <3>2 DEF Counted, OfKey, RowsOfKey, RejectsOfKey, Spread
    <3>4. /\ EveryRecordCounted <=>
                (Done => \A k \in {Raw[n].key : n \in Read} : Counted(k))
          /\ EveryRecordCounted' <=>
                (Done' => \A k \in {Raw[n].key : n \in Read'} : Counted(k)')
      BY ONLY DEF EveryRecordCounted, Counted, OfKey, RowsOfKey, RejectsOfKey, Spread
    <3>5. Done' <=> Done  BY <3>1 DEF Done
    <3> QED BY <3>2, <3>3, <3>4, <3>5
  <2> QED BY <2>1, <2>2, <2>3, OnlyFinish
<1> QED BY <1>1, <1>2, CleanInvHolds, PTL DEF CleanSpec

\* Each change that cleaning makes to a value has one entry in the log, with
\* the row's final number (clean.rs, stage's on_log and finish).
THEOREM CleaningIsLogged == CleanSpec => []LogExplainsChanges
<1>1. CleanInit => LogExplainsChanges
  BY DEF CleanInit, LogExplainsChanges, Done
<1>2. CleanInv /\ LogExplainsChanges /\ [CleanNext]_cleanVars => LogExplainsChanges'
  <2> SUFFICES ASSUME CleanInv, LogExplainsChanges, [CleanNext]_cleanVars
               PROVE  LogExplainsChanges'
    OBVIOUS
  <2>1. CASE Finish  BY <2>1, FinishLog
  <2>2. CASE ~ Done'  BY <2>2 DEF LogExplainsChanges
  <2>3. CASE UNCHANGED cleanVars
    <3>1. pages' = pages /\ cleaned' = cleaned  BY <2>3 DEF cleanVars
    <3>2. Keyed' = Keyed  BY <3>1, SamePages
    <3>3. \A row, column : Decoded(row, column)' = Decoded(row', column)
      BY <3>1 DEF Decoded
    <3> QED BY <3>1, <3>2, <3>3 DEF LogExplainsChanges, Done, Decoded
  <2> QED BY <2>1, <2>2, <2>3, OnlyFinish
<1> QED BY <1>1, <1>2, CleanInvHolds, PTL DEF CleanSpec


----------------------------------------------------------------------------
(***************************************************************************)
(* Building: the invariant.                                                *)
(***************************************************************************)

Directory == [Files -> File \cup {None}]

Steps == {"idle", "check", "clear", "open", "unlink", "rmdir", "mkdir",
          "create", "write", "sizes", "rename"}

TypeInv ==
    /\ dirs \in Seq(Directory)
    /\ names \in [Paths -> 1 .. Len(dirs) \cup {None}]
    /\ pc \in [Builder -> Steps]
    /\ file \in [Builder -> [number : 1 .. 4, dir : 0 .. Len(dirs)]]
    /\ attempts \in [Builder -> Nat]
    /\ result \in [Builder -> {"ok", "error", "none"}]
    /\ overlapped \in SUBSET Hash

\* A directory has one name at most.
OneName ==
    \A p, q \in Paths : Exists(p) /\ names[p] = names[q] => p = q

\* A directory that a build opened has, if any, a name of the build's hash.
OpenedOwn ==
    \A b \in Builder : \A p \in Paths :
        Exists(p) /\ names[p] = file[b].dir => p[2] = HashOf[b]

\* The first n files in the directory of b are there, and all b's.
Complete(b, n) ==
    \A i \in 1 .. n :
        LET f == At(WorkPath(b))[Written[i]]
        IN  f # None /\ f.whole /\ f.writers = {b}

\* How far a build has come that works alone.
Progress(b) ==
    /\ pc[b] \notin {"idle", "check"} => ~ Exists(Final(HashOf[b]))
    /\ pc[b] \notin {"idle", "check", "clear", "mkdir"} => Exists(WorkPath(b))
    /\ pc[b] = "mkdir" => ~ Exists(WorkPath(b))
    /\ pc[b] \in {"unlink", "write"} => file[b].dir = names[WorkPath(b)]
    /\ pc[b] = "rmdir" => \A f \in Files : At(WorkPath(b))[f] = None
    /\ pc[b] \in {"create", "write"} => Complete(b, file[b].number - 1)
    /\ pc[b] = "write" =>
          LET f == At(WorkPath(b))[Written[file[b].number]]
          IN  f # None /\ f.writers = {b} /\ b \in f.open
    /\ pc[b] = "sizes" => file[b].number = 4 /\ Complete(b, 3)
    /\ pc[b] = "rename" => Complete(b, 4)

BuildersOf(h) == {b \in Builder : HashOf[b] = h}

\* What holds of a hash that two builds never worked on at once.
Alone(h) ==
    /\ \A b, c \in BuildersOf(h) : pc[b] # "idle" /\ pc[c] # "idle" => b = c
    /\ Exists(Final(h)) => Verifies(Final(h))
    /\ \A b \in BuildersOf(h) :
          Progress(b) /\ (result[b] # "none" => Exists(Final(h)))

Inv ==
    /\ TypeInv
    /\ OneName
    /\ OpenedOwn
    /\ \A h \in Hash \ overlapped : Alone(h)

----------------------------------------------------------------------------
(* Paths and files.                                                        *)

LEMMA PathFacts ==
    /\ \A h \in Hash : /\ Tmp(h) \in Paths /\ Final(h) \in Paths
                       /\ Tmp(h)[2] = h /\ Final(h)[2] = h
    /\ \A h, g \in Hash : /\ Tmp(h) # Final(g)
                          /\ Tmp(h) = Tmp(g) => h = g
                          /\ Final(h) = Final(g) => h = g
  BY DEF Paths, Tmp, Final

LEMMA WorkPathFacts ==
    ASSUME NEW b \in Builder
    PROVE  HashOf[b] \in Hash /\ WorkPath(b) = Tmp(HashOf[b])
  BY SnapshotBuildAssumption DEF WorkPath

LEMMA WrittenFacts ==
    /\ \A i \in 1 .. 4 : Written[i] \in Files
    /\ \A i, j \in 1 .. 4 : Written[i] = Written[j] => i = j
    /\ \A f \in Files : \E i \in 1 .. 4 : f = Written[i]
    /\ Written[4] = Manifest
<1>1. DOMAIN Written = 1 .. 4  BY DEF Written
<1>2. Files = {Written[i] : i \in 1 .. 4}  BY <1>1 DEF Files, Range
<1> QED BY <1>2 DEF Written, Manifest

LEMMA NoFilesIsDirectory == NoFiles \in Directory
  BY DEF NoFiles, Directory

LEMMA NoneIsNoFile == None \notin File /\ None \notin Nat
  BY SnapshotBuildAssumption DEF File

----------------------------------------------------------------------------
(* Types, names and what was opened.                                       *)

\* An emptied, new or written file leaves every directory a directory.
LEMMA DirectoryPut ==
    ASSUME dirs \in Seq(Directory), NEW d, NEW f \in Files, NEW x,
           d \in 1 .. Len(dirs) => x \in File \cup {None}
    PROVE  /\ [dirs EXCEPT ![d][f] = x] \in Seq(Directory)
           /\ Len([dirs EXCEPT ![d][f] = x]) = Len(dirs)
<1> DEFINE n == Len(dirs)
           new == [dirs EXCEPT ![d][f] = x]
<1>1. n \in Nat /\ dirs \in [1 .. n -> Directory]  OBVIOUS
<1>2. \A i \in 1 .. n : dirs[i] \in Directory  BY <1>1
<1>3. x \in File \cup {None} => \A y \in Directory : [y EXCEPT ![f] = x] \in Directory
  BY DEF Directory
<1>4. new \in [1 .. n -> Directory]  BY <1>1, <1>2, <1>3
<1> QED BY <1>1, <1>4

\* What a build's own pc, file, attempts and result may become.
LEMMA OwnTyped ==
    ASSUME TypeInv, NEW b \in Builder
    PROVE  /\ \A x \in Steps : [pc EXCEPT ![b] = x] \in [Builder -> Steps]
           /\ \A x \in {"ok", "error", "none"} :
                 [result EXCEPT ![b] = x] \in [Builder -> {"ok", "error", "none"}]
  BY DEF TypeInv

\* Types, one name, and opened directories, in one.
Base == TypeInv /\ OneName /\ OpenedOwn

\* Steps that neither name, make nor open anything.
LEMMA BaseQuiet ==
    ASSUME Base, UNCHANGED <<names, dirs, file>>,
           pc' \in [Builder -> Steps], attempts' \in [Builder -> Nat],
           result' \in [Builder -> {"ok", "error", "none"}], overlapped' \in SUBSET Hash
    PROVE  Base'
  BY DEF Base, TypeInv, OneName, OpenedOwn, Exists

LEMMA BaseBegin == ASSUME Base, NEW b \in Builder, Begin(b) PROVE Base'
<1>1. pc' \in [Builder -> Steps] /\ result' \in [Builder -> {"ok", "error", "none"}]
  BY OwnTyped DEF Base, Begin, Goto, Steps
<1>2. attempts' \in [Builder -> Nat]  BY DEF Base, TypeInv, Begin
<1>3. overlapped' \in SUBSET Hash
  <2> DEFINE S == {c \in Builder \ {b} : pc[c] # "idle" /\ HashOf[c] = HashOf[b]}
  <2>1. overlapped' = overlapped \cup {HashOf[c] : c \in S}  BY DEF Begin
  <2>2. S \subseteq Builder  OBVIOUS
  <2> HIDE DEF S
  <2>3. {HashOf[c] : c \in S} \subseteq Hash  BY <2>2, SnapshotBuildAssumption
  <2> QED BY <2>1, <2>3 DEF Base, TypeInv
<1>4. UNCHANGED <<names, dirs, file>>  BY DEF Begin
<1> QED BY <1>1, <1>2, <1>3, <1>4, BaseQuiet

LEMMA BaseChecks ==
    ASSUME Base, NEW b \in Builder, CheckFinal(b) \/ CheckTmp(b) \/ ReadSizes(b)
    PROVE  Base'
<1>1. pc' \in [Builder -> Steps]
  BY OwnTyped DEF Base, CheckFinal, CheckTmp, ReadSizes, Stop, Goto, Steps
<1>2. result' \in [Builder -> {"ok", "error", "none"}]
  BY OwnTyped DEF Base, TypeInv, CheckFinal, CheckTmp, ReadSizes, Stop
<1> QED
  BY <1>1, <1>2, BaseQuiet DEF Base, TypeInv, CheckFinal, CheckTmp, ReadSizes

LEMMA BaseOpenDir == ASSUME Base, NEW b \in Builder, OpenDir(b) PROVE Base'
<1>1. pc' \in [Builder -> Steps]
  BY OwnTyped DEF Base, OpenDir, Stop, Goto, Steps
<1>2. result' \in [Builder -> {"ok", "error", "none"}]
  BY OwnTyped DEF Base, TypeInv, OpenDir, Stop
<1>3. UNCHANGED <<names, dirs, attempts, overlapped>>  BY DEF OpenDir
<1>4. CASE ~ Exists(WorkPath(b))
  BY <1>1, <1>2, <1>3, <1>4, BaseQuiet DEF Base, TypeInv, OpenDir
<1>5. CASE Exists(WorkPath(b))
  <2>1. file' = [file EXCEPT ![b].dir = names[WorkPath(b)]]  BY <1>5 DEF OpenDir
  <2>2. WorkPath(b) \in Paths /\ WorkPath(b)[2] = HashOf[b]
    BY PathFacts, WorkPathFacts
  <2>3. names[WorkPath(b)] \in 1 .. Len(dirs)
    BY <1>5, <2>2 DEF Base, TypeInv, Exists
  <2>4. file' \in [Builder -> [number : 1 .. 4, dir : 0 .. Len(dirs)]]
    <3>1. file \in [Builder -> [number : 1 .. 4, dir : 0 .. Len(dirs)]]
      BY DEF Base, TypeInv
    <3>2. [file[b] EXCEPT !.dir = names[WorkPath(b)]] \in [number : 1 .. 4, dir : 0 .. Len(dirs)]
      BY <2>3, <3>1
    <3> QED BY <2>1, <3>1, <3>2
  <2>5. OpenedOwn'
    <3>1. SUFFICES ASSUME NEW c \in Builder, NEW p \in Paths,
                          Exists(p), names[p] = file'[c].dir
                   PROVE  p[2] = HashOf[c]
      BY <1>3 DEF OpenedOwn, Exists
    <3>2. CASE c = b
      BY <2>1, <2>2, <3>1, <3>2 DEF Base, TypeInv, OneName
    <3>3. CASE c # b
      BY <2>1, <3>1, <3>3 DEF Base, TypeInv, OpenedOwn
    <3> QED BY <3>2, <3>3
  <2> QED BY <1>1, <1>2, <1>3, <2>4, <2>5 DEF Base, TypeInv, OneName, Exists
<1> QED BY <1>4, <1>5

LEMMA BaseUnlink == ASSUME Base, NEW b \in Builder, Unlink(b) PROVE Base'
<1>1. UNCHANGED <<names, file, attempts, result, overlapped>>  BY DEF Unlink
<1>2. pc' \in [Builder -> Steps]  BY OwnTyped DEF Base, Unlink, Goto, Steps
<1>3. dirs \in Seq(Directory)  BY DEF Base, TypeInv
<1>4. dirs' = [dirs EXCEPT ![file[b].dir] = NoFiles]  BY DEF Unlink
<1>5. dirs' \in Seq(Directory) /\ Len(dirs') = Len(dirs)
  <2> DEFINE n == Len(dirs)
  <2>1. n \in Nat /\ dirs \in [1 .. n -> Directory]  BY <1>3
  <2>2. dirs' \in [1 .. n -> Directory]  BY <2>1, <1>4, NoFilesIsDirectory
  <2> QED BY <2>1, <2>2
<1> QED BY <1>1, <1>2, <1>5 DEF Base, TypeInv, OneName, OpenedOwn, Exists

LEMMA BaseRemoveDir == ASSUME Base, NEW b \in Builder, RemoveDir(b) PROVE Base'
<1>1. UNCHANGED <<dirs, file, attempts, overlapped>>  BY DEF RemoveDir
<1>2. pc' \in [Builder -> Steps]  BY OwnTyped DEF Base, RemoveDir, Stop, Goto, Steps
<1>3. result' \in [Builder -> {"ok", "error", "none"}]
  BY OwnTyped DEF Base, TypeInv, RemoveDir, Stop
<1>4. names' = names \/ names' = [names EXCEPT ![WorkPath(b)] = None]
  BY DEF RemoveDir
<1>5. names' \in [Paths -> 1 .. Len(dirs) \cup {None}]
      /\ \A p \in Paths : names'[p] # None => names'[p] = names[p]
  BY <1>4 DEF Base, TypeInv
<1>6. OneName' /\ OpenedOwn'
  BY <1>1, <1>5 DEF Base, OneName, OpenedOwn, Exists
<1> QED BY <1>1, <1>2, <1>3, <1>5, <1>6 DEF Base, TypeInv

LEMMA BaseCreateDir == ASSUME Base, NEW b \in Builder, CreateDir(b) PROVE Base'
<1> DEFINE n == Len(dirs)
           w == WorkPath(b)
<1>1. UNCHANGED <<attempts, result, overlapped>>  BY DEF CreateDir
<1>2. pc' \in [Builder -> Steps]  BY OwnTyped DEF Base, CreateDir, Goto, Steps
<1>3. n \in Nat /\ dirs \in Seq(Directory)  BY DEF Base, TypeInv
<1>4. w \in Paths  BY PathFacts, WorkPathFacts
<1>5. file' = [file EXCEPT ![b] = NoFileOpen]  BY DEF CreateDir
<1>6. names \in [Paths -> 1 .. n \cup {None}]
      /\ file \in [Builder -> [number : 1 .. 4, dir : 0 .. n]]
  BY DEF Base, TypeInv
<1>7. \/ UNCHANGED <<names, dirs>>
      \/ dirs' = Append(dirs, NoFiles) /\ names' = [names EXCEPT ![w] = n + 1]
  BY <1>3, NoFilesIsDirectory DEF CreateDir
<1>8. /\ dirs' \in Seq(Directory) /\ Len(dirs') \in {n, n + 1}
      /\ names' \in [Paths -> 1 .. Len(dirs') \cup {None}]
      /\ \A p \in Paths : names'[p] = names[p] \/ (p = w /\ names'[p] = n + 1)
  <2>1. CASE UNCHANGED <<names, dirs>>  BY <2>1, <1>3, <1>6
  <2>2. CASE dirs' = Append(dirs, NoFiles) /\ names' = [names EXCEPT ![w] = n + 1]
    <3>1. dirs' \in Seq(Directory) /\ Len(dirs') = n + 1
      BY <2>2, <1>3, NoFilesIsDirectory
    <3> HIDE DEF n, w
    <3>2. names' \in [Paths -> 1 .. n + 1 \cup {None}]  BY <2>2, <1>3, <1>4, <1>6
    <3> QED BY <2>2, <3>1, <3>2, <1>6
  <2> QED BY <1>7, <2>1, <2>2
<1>9. file' \in [Builder -> [number : 1 .. 4, dir : 0 .. Len(dirs')]]
  <2>1. \A k \in {n, n + 1} : [number : 1 .. 4, dir : 0 .. n]
                               \subseteq [number : 1 .. 4, dir : 0 .. k]
    BY <1>3
  <2>2. NoFileOpen \in [number : 1 .. 4, dir : 0 .. n]  BY <1>3 DEF NoFileOpen
  <2> HIDE DEF n
  <2>3. file' \in [Builder -> [number : 1 .. 4, dir : 0 .. n]]
    BY <1>5, <1>6, <2>2
  <2> QED BY <2>1, <2>3, <1>8
<1>10. \A p \in Paths : names[p] # n + 1
  BY <1>3, <1>6, NoneIsNoFile
<1>11. OneName'
  BY <1>8, <1>10, <1>3 DEF Base, OneName, Exists
<1>12. OpenedOwn'
  <2>1. SUFFICES ASSUME NEW c \in Builder, NEW p \in Paths,
                        names'[p] # None, names'[p] = file'[c].dir
                 PROVE  p[2] = HashOf[c]
    BY DEF OpenedOwn, Exists
  <2>2. file'[c].dir # n + 1 /\ (file'[c].dir = 0 \/ file'[c].dir = file[c].dir)
    <3>1. CASE c = b  BY <3>1, <1>3, <1>5, <1>6 DEF NoFileOpen
    <3>2. CASE c # b  BY <3>2, <1>3, <1>5, <1>6
    <3> QED BY <3>1, <3>2
  <2>3. names'[p] = names[p]  BY <1>8, <2>1, <2>2
  <2>4. names[p] # 0  BY <1>6, <1>3, NoneIsNoFile
  <2> QED BY <2>1, <2>2, <2>3, <2>4 DEF Base, OpenedOwn, Exists
<1> QED BY <1>1, <1>2, <1>8, <1>9, <1>11, <1>12 DEF Base, TypeInv

LEMMA BaseCreateFile == ASSUME Base, NEW b \in Builder, CreateFile(b) PROVE Base'
<1> DEFINE dir == names[WorkPath(b)]
           name == Written[file[b].number]
           holders == IF dirs[dir][name] = None THEN {} ELSE dirs[dir][name].open
           new == [writers |-> {b}, open |-> holders \cup {b}, whole |-> FALSE]
<1>1. UNCHANGED <<names, attempts, overlapped>>  BY DEF CreateFile
<1>2. pc' \in [Builder -> Steps]
  BY OwnTyped DEF Base, CreateFile, Stop, Goto, Steps
<1>3. result' \in [Builder -> {"ok", "error", "none"}]
  BY OwnTyped DEF Base, TypeInv, CreateFile, Stop
<1>4. CASE ~ Exists(WorkPath(b))
  <2>1. UNCHANGED <<dirs, file>>  BY <1>4 DEF CreateFile
  <2> QED BY <1>1, <1>2, <1>3, <2>1, BaseQuiet DEF Base, TypeInv
<1>5. CASE Exists(WorkPath(b))
  <2>1. dirs' = [dirs EXCEPT ![dir][name] = new] /\ file' = [file EXCEPT ![b].dir = dir]
    BY <1>5 DEF CreateFile
  <2>2. WorkPath(b) \in Paths /\ WorkPath(b)[2] = HashOf[b]
    BY PathFacts, WorkPathFacts
  <2>3. dir \in 1 .. Len(dirs)
    BY <1>5, <2>2 DEF Base, TypeInv, Exists
  <2>4. file \in [Builder -> [number : 1 .. 4, dir : 0 .. Len(dirs)]]
        /\ dirs \in Seq(Directory)
    BY DEF Base, TypeInv
  <2>5. name \in Files  BY <2>4, WrittenFacts
  <2>6. dirs[dir] \in Directory  BY <2>3, <2>4
  <2>7. new \in File
    <3>1. dirs[dir][name] \in File \cup {None}  BY <2>5, <2>6 DEF Directory
    <3>2. holders \in SUBSET Builder  BY <3>1 DEF File
    <3> HIDE DEF holders
    <3> QED BY <3>2 DEF File
  <2> HIDE DEF new, name, dir
  <2>8. dirs' \in Seq(Directory) /\ Len(dirs') = Len(dirs)
    BY <2>1, <2>4, <2>5, <2>7, DirectoryPut
  <2>9. [file[b] EXCEPT !.dir = dir] \in [number : 1 .. 4, dir : 0 .. Len(dirs)]
    BY <2>3, <2>4
  <2>10. file' \in [Builder -> [number : 1 .. 4, dir : 0 .. Len(dirs)]]
    BY <2>1, <2>4, <2>9
  <2>11. OpenedOwn'
    <3>1. SUFFICES ASSUME NEW c \in Builder, NEW p \in Paths,
                          Exists(p), names[p] = file'[c].dir
                   PROVE  p[2] = HashOf[c]
      BY <1>1 DEF OpenedOwn, Exists
    <3>2. CASE c = b
      <4>1. file'[c].dir = dir  BY <2>1, <2>4, <3>2
      <4> QED BY <1>5, <2>2, <3>1, <3>2, <4>1 DEF Base, OneName, dir
    <3>3. CASE c # b
      BY <2>1, <2>4, <3>1, <3>3 DEF Base, OpenedOwn
    <3> QED BY <3>2, <3>3
  <2> QED BY <1>1, <1>2, <1>3, <2>8, <2>10, <2>11 DEF Base, TypeInv, OneName, Exists
<1> QED BY <1>4, <1>5

LEMMA BaseWriteFile == ASSUME Base, NEW b \in Builder, WriteFile(b) PROVE Base'
<1> DEFINE dir == file[b].dir
           name == Written[file[b].number]
           written == dirs[dir][name]
           new == [writers |-> written.writers \cup {b}, open |-> written.open \ {b},
                   whole |-> written.writers \subseteq {b}]
<1>1. UNCHANGED <<names, attempts, result, overlapped>>  BY DEF WriteFile
<1>2. pc' \in [Builder -> Steps]
  <2>1. \/ pc' = [pc EXCEPT ![b] = "rename"]
        \/ pc' = [pc EXCEPT ![b] = IF Written[file[b].number + 1] = Manifest
                                   THEN "sizes" ELSE "create"]
    BY DEF WriteFile, Goto
  <2>2. \E x \in Steps : pc' = [pc EXCEPT ![b] = x]
    BY <2>1, Zenon DEF Steps
  <2> QED BY <2>2, OwnTyped DEF Base
<1>3. file \in [Builder -> [number : 1 .. 4, dir : 0 .. Len(dirs)]]
      /\ dirs \in Seq(Directory)
  BY DEF Base, TypeInv
<1>4. name \in Files  BY <1>3, WrittenFacts
<1>5. written # None /\ dir \in 1 .. Len(dirs) => new \in File
  <2>1. SUFFICES ASSUME written # None, dir \in 1 .. Len(dirs) PROVE new \in File
    OBVIOUS
  <2>2. dirs[dir] \in Directory  BY <1>3, <2>1
  <2>3. written \in File  BY <1>4, <2>1, <2>2 DEF Directory
  <2>4. written.writers \in SUBSET Builder /\ written.open \in SUBSET Builder
    BY <2>3 DEF File
  <2>5. (written.writers \subseteq {b}) \in BOOLEAN  OBVIOUS
  <2> HIDE DEF written
  <2> QED BY <2>4, <2>5 DEF File
<1>6. dirs' = dirs \/ (written # None /\ dirs' = [dirs EXCEPT ![dir][name] = new])
  BY DEF WriteFile
<1>7. dirs' \in Seq(Directory) /\ Len(dirs') = Len(dirs)
  <2> HIDE DEF new, name, dir, written
  <2> QED BY <1>3, <1>4, <1>5, <1>6, DirectoryPut
<1>8. file' = file \/ (name # Manifest /\ file' = [file EXCEPT ![b].number = @ + 1])
  BY DEF WriteFile
<1>9. /\ file' \in [Builder -> [number : 1 .. 4, dir : 0 .. Len(dirs)]]
      /\ \A c \in Builder : file'[c].dir = file[c].dir
  <2>1. CASE file' = file  BY <1>3, <2>1
  <2>2. CASE name # Manifest /\ file' = [file EXCEPT ![b].number = @ + 1]
    <3>1. file[b].number # 4  BY <2>2, WrittenFacts
    <3>2. file[b].number + 1 \in 1 .. 4  BY <1>3, <3>1
    <3> DEFINE next == [file[b] EXCEPT !.number = file[b].number + 1]
    <3>3. next \in [number : 1 .. 4, dir : 0 .. Len(dirs)] /\ next.dir = file[b].dir
      BY <1>3, <3>2
    <3>4. file' = [file EXCEPT ![b] = next]  BY <2>2
    <3> HIDE DEF next
    <3> QED BY <1>3, <3>3, <3>4
  <2> QED BY <1>8, <2>1, <2>2
<1>10. OpenedOwn'  BY <1>1, <1>9 DEF Base, OpenedOwn, Exists
<1> QED BY <1>1, <1>2, <1>7, <1>9, <1>10 DEF Base, TypeInv, OneName, Exists

LEMMA BaseRename == ASSUME Base, NEW b \in Builder, Rename(b) PROVE Base'
<1> DEFINE w == WorkPath(b)
           final == Final(HashOf[b])
<1>1. UNCHANGED <<dirs, file, attempts, overlapped>>  BY DEF Rename
<1>2. pc' \in [Builder -> Steps]  BY OwnTyped DEF Base, Rename, Stop, Goto, Steps
<1>3. result' \in [Builder -> {"ok", "error", "none"}]
  BY OwnTyped DEF Base, Rename, Stop
<1>4. /\ w \in Paths /\ final \in Paths /\ w # final
      /\ w[2] = HashOf[b] /\ final[2] = HashOf[b]
  BY PathFacts, WorkPathFacts
<1>5. names' = names \/ (Exists(w) /\ names' = [names EXCEPT ![w] = None, ![final] = names[w]])
  BY DEF Rename
<1> HIDE DEF w, final
<1>6. names \in [Paths -> 1 .. Len(dirs) \cup {None}]  BY DEF Base, TypeInv
<1>7. names' \in [Paths -> 1 .. Len(dirs) \cup {None}]  BY <1>4, <1>5, <1>6
<1>8. CASE names' = names
  BY <1>1, <1>2, <1>3, <1>8, BaseQuiet DEF Base, TypeInv
<1>9. CASE Exists(w) /\ names' = [names EXCEPT ![w] = None, ![final] = names[w]]
  <2>1. \A p \in Paths :
          /\ p = w => names'[p] = None
          /\ p = final => names'[p] = names[w]
          /\ p # w /\ p # final => names'[p] = names[p]
    BY <1>4, <1>6, <1>9
  <2>2. OneName'  BY <1>4, <2>1 DEF Base, OneName, Exists
  <2>3. OpenedOwn'  BY <1>1, <1>4, <1>9, <2>1 DEF Base, OpenedOwn, Exists
  <2> QED BY <1>1, <1>2, <1>3, <1>7, <2>2, <2>3 DEF Base, TypeInv
<1> QED BY <1>5, <1>8, <1>9

LEMMA BaseCrash == ASSUME Base, NEW b \in Builder, Crash(b) PROVE Base'
<1>1. UNCHANGED <<names, attempts, result, overlapped>>  BY DEF Crash
<1>2. pc' \in [Builder -> Steps]  BY OwnTyped DEF Base, Crash, Goto, Steps
<1>3. file \in [Builder -> [number : 1 .. 4, dir : 0 .. Len(dirs)]]
      /\ dirs \in Seq(Directory) /\ names \in [Paths -> 1 .. Len(dirs) \cup {None}]
      /\ Len(dirs) \in Nat
  BY DEF Base, TypeInv
<1>4. file' = [file EXCEPT ![b] = NoFileOpen]  BY DEF Crash
<1>5. file' \in [Builder -> [number : 1 .. 4, dir : 0 .. Len(dirs)]]
  <2>1. NoFileOpen \in [number : 1 .. 4, dir : 0 .. Len(dirs)]
    BY <1>3 DEF NoFileOpen
  <2> QED BY <1>3, <1>4, <2>1
<1>6. dirs' \in Seq(Directory) /\ Len(dirs') = Len(dirs)
  <2> DEFINE n == Len(dirs)
             Closed(x) == IF x = None THEN None ELSE [x EXCEPT !.open = @ \ {b}]
  <2>1. dirs \in [1 .. n -> Directory] /\ DOMAIN dirs = 1 .. n  BY <1>3
  <2>2. dirs' = [d \in 1 .. n |-> [f \in Files |-> Closed(dirs[d][f])]]
    BY <2>1 DEF Crash
  <2>3. \A x \in File \cup {None} : Closed(x) \in File \cup {None}  BY DEF File
  <2>4. \A d \in 1 .. n : [f \in Files |-> Closed(dirs[d][f])] \in Directory
    <3> HIDE DEF Closed
    <3>1. \A d \in 1 .. n : \A f \in Files : dirs[d][f] \in File \cup {None}
      BY <2>1 DEF Directory
    <3> QED BY <2>3, <3>1 DEF Directory
  <2>5. dirs' \in [1 .. n -> Directory]
    <3> HIDE DEF Closed
    <3> QED BY <2>2, <2>4
  <2> QED BY <1>3, <2>5
<1>7. OpenedOwn'
  <2>1. SUFFICES ASSUME NEW c \in Builder, NEW p \in Paths,
                        Exists(p), names[p] = file'[c].dir
                 PROVE  p[2] = HashOf[c]
    BY <1>1 DEF OpenedOwn, Exists
  <2>2. c # b
    <3>1. SUFFICES ASSUME c = b PROVE FALSE  OBVIOUS
    <3>2. names[p] = 0  BY <1>3, <1>4, <2>1, <3>1 DEF NoFileOpen
    <3> QED BY <1>3, <2>1, <3>2 DEF Exists
  <2> QED BY <1>3, <1>4, <2>1, <2>2 DEF Base, OpenedOwn
<1> QED BY <1>1, <1>2, <1>5, <1>6, <1>7 DEF Base, TypeInv, OneName, Exists

LEMMA BaseStep == ASSUME Base, [Next]_vars PROVE Base'
<1>1. ASSUME NEW b \in Builder, Step(b) PROVE Base'
  BY <1>1, BaseBegin, BaseChecks, BaseOpenDir, BaseUnlink, BaseRemoveDir,
     BaseCreateDir, BaseCreateFile, BaseWriteFile, BaseRename, BaseCrash DEF Step
<1>2. CASE UNCHANGED vars
  BY <1>2 DEF Base, TypeInv, OneName, OpenedOwn, Exists, vars
<1> QED BY <1>1, <1>2 DEF Next

----------------------------------------------------------------------------
(* Builds of other content are out of reach.                               *)

\* To builds of hash h the files of directory d stay as they are.
KeepsFiles(h, d) ==
    \A f \in Files :
        LET old == dirs[d][f]
            new == dirs'[d][f]
        IN  /\ old = None <=> new = None
            /\ old # None => /\ new.writers = old.writers
                             /\ new.whole = old.whole
                             /\ old.open \cap BuildersOf(h) \subseteq new.open

LEMMA VerifiesKept ==
    ASSUME NEW h, NEW p, names'[p] = names[p], KeepsFiles(h, names[p]), Verifies(p)
    PROVE  Verifies(p)'
  BY DEF KeepsFiles, Verifies, At

LEMMA CompleteKept ==
    ASSUME NEW h, NEW b, NEW n \in 0 .. 4,
           names'[WorkPath(b)] = names[WorkPath(b)], KeepsFiles(h, names[WorkPath(b)]),
           Complete(b, n)
    PROVE  Complete(b, n)'
<1>1. \A i \in 1 .. n : Written[i] \in Files  BY WrittenFacts
<1> QED BY <1>1 DEF KeepsFiles, Complete, At

LEMMA ProgressKept ==
    ASSUME Base, NEW h \in Hash, NEW b \in BuildersOf(h), Progress(b),
           pc'[b] = pc[b], file'[b] = file[b],
           names'[Tmp(h)] = names[Tmp(h)], names'[Final(h)] = names[Final(h)],
           Exists(Tmp(h)) => KeepsFiles(h, names[Tmp(h)])
    PROVE  Progress(b)'
<1>1. b \in Builder /\ HashOf[b] = h /\ WorkPath(b) = Tmp(h)
  BY WorkPathFacts DEF BuildersOf
<1>2. file[b].number \in 1 .. 4 /\ file[b].number - 1 \in 0 .. 4
  BY <1>1 DEF Base, TypeInv
<1>3. (pc[b] \notin {"idle", "check"} => ~ Exists(Final(HashOf[b])))'
  BY <1>1 DEF Progress, Exists
<1>4. (pc[b] \notin {"idle", "check", "clear", "mkdir"} => Exists(WorkPath(b)))'
  BY <1>1 DEF Progress, Exists, WorkPath
<1>5. (pc[b] = "mkdir" => ~ Exists(WorkPath(b)))'
  BY <1>1 DEF Progress, Exists, WorkPath
<1>6. (pc[b] \in {"unlink", "write"} => file[b].dir = names[WorkPath(b)])'
  BY <1>1 DEF Progress, WorkPath
<1>7. (pc[b] = "rmdir" => \A f \in Files : At(WorkPath(b))[f] = None)'
  BY <1>1 DEF Progress, WorkPath, At, KeepsFiles
<1>8. (pc[b] \in {"create", "write"} => Complete(b, file[b].number - 1))'
  BY <1>1, <1>2, CompleteKept DEF Progress
<1>9. (pc[b] = "write" =>
          LET f == At(WorkPath(b))[Written[file[b].number]]
          IN  f # None /\ f.writers = {b} /\ b \in f.open)'
  BY <1>1, <1>2, WrittenFacts DEF Progress, WorkPath, At, KeepsFiles
<1>10. (pc[b] = "sizes" => file[b].number = 4 /\ Complete(b, 3))'
  BY <1>1, CompleteKept DEF Progress
<1>11. (pc[b] = "rename" => Complete(b, 4))'
  BY <1>1, CompleteKept DEF Progress
<1> QED BY <1>3, <1>4, <1>5, <1>6, <1>7, <1>8, <1>9, <1>10, <1>11 DEF Progress

LEMMA AloneKept ==
    ASSUME Base, NEW h \in Hash, Alone(h),
           \A c \in BuildersOf(h) :
              pc'[c] = pc[c] /\ file'[c] = file[c] /\ result'[c] = result[c],
           \A p \in {Tmp(h), Final(h)} :
              names'[p] = names[p] /\ (Exists(p) => KeepsFiles(h, names[p]))
    PROVE  Alone(h)'
<1>1. BuildersOf(h)' = BuildersOf(h)  BY DEF BuildersOf
<1>2. \A b, c \in BuildersOf(h) : pc'[b] # "idle" /\ pc'[c] # "idle" => b = c
  BY DEF Alone
<1>3. (Exists(Final(h)) => Verifies(Final(h)))'
  BY VerifiesKept DEF Alone, Exists
<1>4. ASSUME NEW b \in BuildersOf(h)
      PROVE  (Progress(b) /\ (result[b] # "none" => Exists(Final(h))))'
  <2>1. Progress(b) /\ (result[b] # "none" => Exists(Final(h)))  BY DEF Alone
  <2>2. Progress(b)'  BY <2>1, ProgressKept
  <2> QED BY <2>1, <2>2 DEF Exists
<1> QED BY <1>1, <1>2, <1>3, <1>4 DEF Alone

\* A step keeps to the directories of its build's own hash.
LEMMA StepKeepsElsewhere ==
    ASSUME Base, NEW b \in Builder, Step(b), NEW h \in Hash, h # HashOf[b],
           NEW p \in {Tmp(h), Final(h)}
    PROVE  names'[p] = names[p] /\ (Exists(p) => KeepsFiles(h, names[p]))
<1> DEFINE w == WorkPath(b)
           d == names[p]
<1>1. /\ p \in Paths /\ w \in Paths /\ Final(HashOf[b]) \in Paths
      /\ p # w /\ p # Final(HashOf[b]) /\ p[2] = h
  BY PathFacts, WorkPathFacts
<1> HIDE DEF w
<1>2. /\ names \in [Paths -> 1 .. Len(dirs) \cup {None}]
      /\ dirs \in Seq(Directory)
      /\ file \in [Builder -> [number : 1 .. 4, dir : 0 .. Len(dirs)]]
  BY DEF Base, TypeInv
<1>3. names'[p] = names[p]
  <2>1. CASE CreateDir(b) \/ RemoveDir(b) \/ Rename(b)
    BY <1>1, <1>2, <2>1 DEF CreateDir, RemoveDir, Rename, w
  <2>2. CASE ~ (CreateDir(b) \/ RemoveDir(b) \/ Rename(b))
    <3>1. names' = names
      BY <2>2 DEF Step, Begin, CheckFinal, CheckTmp, OpenDir, Unlink, CreateFile,
                  WriteFile, ReadSizes, Crash
    <3> QED BY <3>1
  <2> QED BY <2>1, <2>2
<1>4. ASSUME Exists(p) PROVE KeepsFiles(h, d)
  <2>1. d \in 1 .. Len(dirs) /\ Len(dirs) \in Nat  BY <1>1, <1>2, <1>4 DEF Exists
  <2>2. (dirs'[d] = dirs[d]) => KeepsFiles(h, d)  BY DEF KeepsFiles
  <2>3. d # file[b].dir  BY <1>1, <1>4 DEF Base, OpenedOwn
  <2>4. d # names[w]  BY <1>1, <1>4 DEF Base, OneName
  <2> HIDE DEF d
  <2>5. CASE Unlink(b)  BY <1>2, <2>1, <2>2, <2>3, <2>5 DEF Unlink
  <2>6. CASE CreateDir(b)
    <3>1. dirs' = dirs \/ dirs' = Append(dirs, NoFiles)  BY <2>6 DEF CreateDir
    <3> QED BY <1>2, <2>1, <2>2, <3>1, NoFilesIsDirectory
  <2>7. CASE CreateFile(b)
    <3>1. dirs' = dirs \/ \E f, x : dirs' = [dirs EXCEPT ![names[w]][f] = x]
      BY <2>7 DEF CreateFile, w
    <3>2. DOMAIN dirs = 1 .. Len(dirs)  BY <1>2
    <3>3. dirs'[d] = dirs[d]  BY <2>1, <2>4, <3>1, <3>2
    <3> QED BY <2>2, <3>3
  <2>8. CASE WriteFile(b)
    <3>1. dirs' = dirs \/ \E f, x : dirs' = [dirs EXCEPT ![file[b].dir][f] = x]
      BY <2>8 DEF WriteFile
    <3>2. DOMAIN dirs = 1 .. Len(dirs)  BY <1>2
    <3>3. dirs'[d] = dirs[d]  BY <2>1, <2>3, <3>1, <3>2
    <3> QED BY <2>2, <3>3
  <2>9. CASE Crash(b)
    <3>1. DOMAIN dirs = 1 .. Len(dirs) /\ dirs[d] \in Directory  BY <1>2, <2>1
    <3>2. \A f \in Files : dirs'[d][f] = IF dirs[d][f] = None THEN None
                                         ELSE [dirs[d][f] EXCEPT !.open = @ \ {b}]
      BY <2>1, <2>9, <3>1 DEF Crash
    <3>3. b \notin BuildersOf(h)  BY DEF BuildersOf
    <3>4. ASSUME NEW x \in File
          PROVE  LET y == [x EXCEPT !.open = @ \ {b}]
                 IN  /\ y \in File /\ y # None
                     /\ y.writers = x.writers /\ y.whole = x.whole
                     /\ x.open \cap BuildersOf(h) \subseteq y.open
      <4>1. [x EXCEPT !.open = @ \ {b}] \in File  BY DEF File
      <4> QED BY <3>3, <4>1, NoneIsNoFile DEF File
    <3>5. \A f \in Files : dirs[d][f] \in File \cup {None}  BY <3>1 DEF Directory
    <3>6. ASSUME NEW f \in Files
          PROVE  LET old == dirs[d][f]
                     new == dirs'[d][f]
                 IN  /\ old = None <=> new = None
                     /\ old # None => /\ new.writers = old.writers
                                      /\ new.whole = old.whole
                                      /\ old.open \cap BuildersOf(h) \subseteq new.open
      <4>1. CASE dirs[d][f] = None  BY <3>2, <4>1
      <4>2. CASE dirs[d][f] # None
        <5>1. dirs'[d][f] = [dirs[d][f] EXCEPT !.open = @ \ {b}]  BY <3>2, <4>2
        <5>2. dirs[d][f] \in File  BY <3>5, <4>2
        <5> QED BY <3>4, <4>2, <5>1, <5>2
      <4> QED BY <4>1, <4>2
    <3> QED BY <3>6 DEF KeepsFiles
  <2>10. CASE ~ (Unlink(b) \/ CreateDir(b) \/ CreateFile(b) \/ WriteFile(b) \/ Crash(b))
    <3>1. dirs' = dirs
      BY <2>10 DEF Step, Begin, CheckFinal, CheckTmp, OpenDir, RemoveDir, ReadSizes,
                   Rename
    <3> QED BY <2>2, <3>1
  <2> QED BY <2>5, <2>6, <2>7, <2>8, <2>9, <2>10
<1> QED BY <1>3, <1>4

\* A step changes its own build only.
LEMMA StepIsOwn ==
    ASSUME Base, NEW b \in Builder, Step(b), NEW c \in Builder, c # b
    PROVE  pc'[c] = pc[c] /\ file'[c] = file[c] /\ result'[c] = result[c]
<1>1. /\ pc \in [Builder -> Steps]
      /\ file \in [Builder -> [number : 1 .. 4, dir : 0 .. Len(dirs)]]
      /\ result \in [Builder -> {"ok", "error", "none"}]
  BY DEF Base, TypeInv
<1>2. pc' = pc \/ \E x : pc' = [pc EXCEPT ![b] = x]
  BY Zenon DEF Step, Begin, CheckFinal, CheckTmp, OpenDir, Unlink, RemoveDir, CreateDir,
         CreateFile, WriteFile, ReadSizes, Rename, Crash, Goto, Stop
<1>3. result' = result \/ \E x : result' = [result EXCEPT ![b] = x]
  BY Zenon DEF Step, Begin, CheckFinal, CheckTmp, OpenDir, Unlink, RemoveDir, CreateDir,
         CreateFile, WriteFile, ReadSizes, Rename, Crash, Stop
<1>4. file' = file \/ \E x : file' = [file EXCEPT ![b] = x]
  BY Zenon DEF Step, Begin, CheckFinal, CheckTmp, OpenDir, Unlink, RemoveDir, CreateDir,
         CreateFile, WriteFile, ReadSizes, Rename, Crash
<1> QED BY <1>1, <1>2, <1>3, <1>4

LEMMA AloneElsewhere ==
    ASSUME Base, NEW b \in Builder, Step(b), NEW h \in Hash, h # HashOf[b], Alone(h)
    PROVE  Alone(h)'
<1>1. \A c \in BuildersOf(h) : c \in Builder /\ c # b  BY DEF BuildersOf
<1> QED BY <1>1, StepIsOwn, StepKeepsElsewhere, AloneKept

----------------------------------------------------------------------------
(* A build that works alone gets on.                                       *)

LEMMA OthersIdle ==
    ASSUME NEW b \in Builder, Alone(HashOf[b]), pc[b] # "idle"
    PROVE  \A c \in BuildersOf(HashOf[b]) \ {b} : pc[c] = "idle"
  BY DEF Alone, BuildersOf

LEMMA OwnSuffices ==
    ASSUME Base, NEW b \in Builder, Step(b), NEW h, h = HashOf[b], Alone(h),
           \A c \in BuildersOf(h) \ {b} : pc[c] = "idle",
           Exists(Final(h)) => names'[Final(h)] # None,
           (Exists(Final(h)) => Verifies(Final(h)))',
           Progress(b)',
           (result[b] # "none" => Exists(Final(h)))'
    PROVE  Alone(h)'
<1>1. BuildersOf(h)' = BuildersOf(h) /\ b \in BuildersOf(h)  BY DEF BuildersOf
<1>2. \A c \in BuildersOf(h) \ {b} : pc'[c] = "idle" /\ result'[c] = result[c]
  BY StepIsOwn DEF BuildersOf
<1>3. \A c, d \in BuildersOf(h) : pc'[c] # "idle" /\ pc'[d] # "idle" => c = d
  BY <1>2
<1>4. ASSUME NEW c \in BuildersOf(h)
      PROVE  (Progress(c) /\ (result[c] # "none" => Exists(Final(h))))'
  <2>1. CASE c = b  BY <2>1
  <2>2. CASE c # b
    <3>1. Progress(c)'  BY <1>2, <2>2 DEF Progress
    <3>2. result[c] # "none" => Exists(Final(h))  BY DEF Alone
    <3> QED BY <1>2, <2>2, <3>1, <3>2 DEF Exists
  <2> QED BY <2>1, <2>2
<1> QED BY <1>1, <1>3, <1>4 DEF Alone

\* Steps that leave the output directory as it is.
LEMMA OwnQuiet ==
    ASSUME Base, NEW b \in Builder, Step(b), NEW h, h = HashOf[b], Alone(h),
           \A c \in BuildersOf(h) \ {b} : pc[c] = "idle",
           UNCHANGED <<names, dirs>>, Progress(b)',
           result'[b] \in {"none", result[b]} \/ Exists(Final(h))
    PROVE  Alone(h)'
<1>1. b \in BuildersOf(h)  BY DEF BuildersOf
<1>2. Exists(Final(h)) => Verifies(Final(h))  BY DEF Alone
<1>3. (Exists(Final(h)) => Verifies(Final(h)))'  BY <1>2 DEF Exists, Verifies, At
<1>4. result[b] # "none" => Exists(Final(h))  BY <1>1 DEF Alone
<1>5. (result[b] # "none" => Exists(Final(h)))'  BY <1>4 DEF Exists
<1> QED BY <1>3, <1>5, OwnSuffices DEF Exists

LEMMA AloneBegin ==
    ASSUME Base, NEW b \in Builder, Begin(b), NEW h, h = HashOf[b], Alone(h),
           h \notin overlapped'
    PROVE  Alone(h)'
<1>1. \A c \in BuildersOf(h) \ {b} : pc[c] = "idle"
  <2>1. SUFFICES ASSUME NEW c \in BuildersOf(h) \ {b}, pc[c] # "idle" PROVE FALSE
    OBVIOUS
  <2>2. c \in {a \in Builder \ {b} : pc[a] # "idle" /\ HashOf[a] = HashOf[b]}
    BY <2>1 DEF BuildersOf
  <2>3. HashOf[c] \in overlapped'  BY <2>2, Zenon DEF Begin
  <2>4. HashOf[c] = h  BY DEF BuildersOf
  <2> QED BY <2>3, <2>4
<1>2. pc'[b] = "check"  BY DEF Base, TypeInv, Begin, Goto
<1>3. Progress(b)'  BY <1>2 DEF Progress
<1>4. result'[b] = "none"  BY DEF Base, TypeInv, Begin
<1>5. UNCHANGED <<names, dirs>>  BY DEF Begin
<1> QED BY <1>1, <1>3, <1>4, <1>5, OwnQuiet DEF Step

LEMMA AloneCheckFinal ==
    ASSUME Base, NEW b \in Builder, CheckFinal(b), NEW h, h = HashOf[b], Alone(h)
    PROVE  Alone(h)'
<1>1. UNCHANGED <<names, dirs, file>> /\ pc[b] = "check"  BY DEF CheckFinal
<1>2. \A c \in BuildersOf(h) \ {b} : pc[c] = "idle"  BY <1>1, OthersIdle
<1>3. \/ Exists(Final(h)) /\ pc'[b] = "idle"
      \/ ~ Exists(Final(h)) /\ pc'[b] = "clear" /\ result' = result
  BY DEF Base, TypeInv, CheckFinal, Stop, Goto
<1>4. Progress(b)'  BY <1>1, <1>3 DEF Progress, Exists
<1> QED BY <1>1, <1>2, <1>3, <1>4, OwnQuiet DEF Step

LEMMA AloneCheckTmp ==
    ASSUME Base, NEW b \in Builder, CheckTmp(b), NEW h, h = HashOf[b], Alone(h)
    PROVE  Alone(h)'
<1>1. UNCHANGED <<names, dirs, file, result>> /\ pc[b] = "clear"  BY DEF CheckTmp
<1>2. \A c \in BuildersOf(h) \ {b} : pc[c] = "idle"  BY <1>1, OthersIdle
<1>3. pc'[b] = IF Exists(WorkPath(b)) THEN "open" ELSE "mkdir"
  BY DEF Base, TypeInv, CheckTmp, Goto
<1>4. ~ Exists(Final(h))  BY <1>1 DEF Alone, BuildersOf, Progress
<1>5. Progress(b)'  BY <1>1, <1>3, <1>4 DEF Progress, Exists, WorkPath
<1> QED BY <1>1, <1>2, <1>5, OwnQuiet DEF Step

LEMMA AloneOpenDir ==
    ASSUME Base, NEW b \in Builder, OpenDir(b), NEW h, h = HashOf[b], Alone(h)
    PROVE  Alone(h)'
<1>1. UNCHANGED <<names, dirs>> /\ pc[b] = "open"  BY DEF OpenDir
<1>2. \A c \in BuildersOf(h) \ {b} : pc[c] = "idle"  BY <1>1, OthersIdle
<1>3. ~ Exists(Final(h)) /\ Exists(WorkPath(b))
  BY <1>1 DEF Alone, BuildersOf, Progress
<1>4. /\ file' = [file EXCEPT ![b].dir = names[WorkPath(b)]]
      /\ pc'[b] = "unlink" /\ result' = result
  BY <1>3 DEF Base, TypeInv, OpenDir, Goto
<1>5. file'[b].dir = names[WorkPath(b)]  BY <1>4 DEF Base, TypeInv
<1>6. Progress(b)'  BY <1>1, <1>3, <1>4, <1>5 DEF Progress, Exists, WorkPath
<1> QED BY <1>1, <1>2, <1>4, <1>6, OwnQuiet DEF Step

LEMMA AloneReadSizes ==
    ASSUME Base, NEW b \in Builder, ReadSizes(b), NEW h, h = HashOf[b], Alone(h)
    PROVE  Alone(h)'
<1>1. UNCHANGED <<names, dirs, file>> /\ pc[b] = "sizes"  BY DEF ReadSizes
<1>2. \A c \in BuildersOf(h) \ {b} : pc[c] = "idle"  BY <1>1, OthersIdle
<1>3. ~ Exists(Final(h)) /\ Exists(WorkPath(b)) /\ file[b].number = 4 /\ Complete(b, 3)
  BY <1>1 DEF Alone, BuildersOf, Progress
<1>4. \A f \in Files \ {Manifest} : At(WorkPath(b))[f] # None
  <2>1. \A f \in Files \ {Manifest} : \E i \in 1 .. 3 : f = Written[i]
    BY WrittenFacts
  <2> QED BY <1>3, <2>1 DEF Complete
<1>5. pc'[b] = "create" /\ result' = result
  BY <1>3, <1>4 DEF Base, TypeInv, ReadSizes, Goto
<1>6. Progress(b)'
  BY <1>1, <1>3, <1>5 DEF Progress, Exists, WorkPath, Complete, At
<1> QED BY <1>1, <1>2, <1>5, <1>6, OwnQuiet DEF Step

\* Steps of a build that found no snapshot of its hash and publishes none.
LEMMA OwnUnpublished ==
    ASSUME Base, NEW b \in Builder, Step(b), NEW h, h = HashOf[b], Alone(h),
           pc[b] \notin {"idle", "check"}, names'[Final(h)] = names[Final(h)],
           result'[b] = result[b], Progress(b)'
    PROVE  Alone(h)'
<1>1. \A c \in BuildersOf(h) \ {b} : pc[c] = "idle"  BY OthersIdle
<1>2. ~ Exists(Final(h)) /\ (result[b] # "none" => Exists(Final(h)))
  BY DEF Alone, BuildersOf, Progress
<1>3. ~ Exists(Final(h))'  BY <1>2 DEF Exists
<1> QED BY <1>1, <1>2, <1>3, OwnSuffices

LEMMA AloneUnlink ==
    ASSUME Base, NEW b \in Builder, Unlink(b), NEW h, h = HashOf[b], Alone(h)
    PROVE  Alone(h)'
<1> DEFINE w == WorkPath(b)
<1>1. UNCHANGED <<names, file, result>> /\ pc[b] = "unlink"  BY DEF Unlink
<1>2. ~ Exists(Final(h)) /\ Exists(w) /\ file[b].dir = names[w]
  BY <1>1 DEF Alone, BuildersOf, Progress
<1>3. pc'[b] = "rmdir"  BY DEF Base, TypeInv, Unlink, Goto
<1>4. dirs'[names[w]] = NoFiles
  <2>1. names[w] \in 1 .. Len(dirs) /\ dirs \in Seq(Directory)
    BY <1>2, PathFacts, WorkPathFacts DEF Base, TypeInv, Exists
  <2> HIDE DEF w
  <2>2. DOMAIN dirs = 1 .. Len(dirs)  BY <2>1
  <2> QED BY <1>2, <2>1, <2>2 DEF Unlink
<1>5. (\A f \in Files : At(w)[f] = None)'
  BY <1>1, <1>4 DEF At, NoFiles, WorkPath
<1>6. Progress(b)'  BY <1>1, <1>2, <1>3, <1>5 DEF Progress, Exists, WorkPath
<1> QED BY <1>1, <1>6, OwnUnpublished DEF Step

LEMMA AloneRemoveDir ==
    ASSUME Base, NEW b \in Builder, RemoveDir(b), NEW h, h = HashOf[b], Alone(h)
    PROVE  Alone(h)'
<1> DEFINE w == WorkPath(b)
<1>1. UNCHANGED <<dirs, file>> /\ pc[b] = "rmdir"  BY DEF RemoveDir
<1>2. ~ Exists(Final(h)) /\ Exists(w) /\ \A f \in Files : At(w)[f] = None
  BY <1>1 DEF Alone, BuildersOf, Progress
<1>3. w \in Paths /\ Final(h) \in Paths /\ w # Final(h)
  BY PathFacts, WorkPathFacts
<1>4. names \in [Paths -> 1 .. Len(dirs) \cup {None}] /\ dirs \in Seq(Directory)
  BY DEF Base, TypeInv
<1>5. At(w) = NoFiles
  <2>1. names[w] \in 1 .. Len(dirs)  BY <1>2, <1>3, <1>4 DEF Exists
  <2> HIDE DEF w
  <2>2. At(w) \in Directory  BY <1>4, <2>1 DEF At
  <2> QED BY <1>2, <2>2 DEF Directory, NoFiles
<1>6. /\ names' = [names EXCEPT ![w] = None]
      /\ pc'[b] = "mkdir" /\ result' = result
  BY <1>2, <1>5 DEF Base, TypeInv, RemoveDir, Goto
<1> HIDE DEF w
<1>7. names'[w] = None /\ names'[Final(h)] = names[Final(h)]
  BY <1>3, <1>4, <1>6
<1>8. Progress(b)'  BY <1>2, <1>6, <1>7 DEF Progress, Exists, WorkPath, w
<1> QED BY <1>1, <1>6, <1>7, <1>8, OwnUnpublished DEF Step

LEMMA AloneCreateDir ==
    ASSUME Base, NEW b \in Builder, CreateDir(b), NEW h, h = HashOf[b], Alone(h)
    PROVE  Alone(h)'
<1> DEFINE w == WorkPath(b)
<1>1. UNCHANGED result /\ pc[b] = "mkdir"  BY DEF CreateDir
<1>2. ~ Exists(Final(h)) /\ ~ Exists(w)
  BY <1>1 DEF Alone, BuildersOf, Progress
<1>3. w \in Paths /\ Final(h) \in Paths /\ w # Final(h)
  BY PathFacts, WorkPathFacts
<1>4. /\ names \in [Paths -> 1 .. Len(dirs) \cup {None}] /\ dirs \in Seq(Directory)
      /\ Len(dirs) \in Nat
  BY DEF Base, TypeInv
<1>5. dirs' = Append(dirs, NoFiles) /\ names' = [names EXCEPT ![w] = Len(dirs')]
  BY <1>2 DEF CreateDir
<1>6. pc'[b] = "create" /\ file'[b] = NoFileOpen
  BY DEF Base, TypeInv, CreateDir, Goto
<1> HIDE DEF w
<1>7. names'[w] = Len(dirs) + 1 /\ names'[Final(h)] = names[Final(h)]
  BY <1>3, <1>4, <1>5, NoFilesIsDirectory
<1>8. names'[w] # None  BY <1>4, <1>7, NoneIsNoFile
<1>9. Complete(b, file[b].number - 1)'
  <2>1. file'[b].number - 1 = 0  BY <1>6 DEF NoFileOpen
  <2> QED BY <2>1 DEF Complete
<1>10. Progress(b)'  BY <1>2, <1>6, <1>7, <1>8, <1>9 DEF Progress, Exists, WorkPath, w
<1> QED BY <1>1, <1>7, <1>10, OwnUnpublished DEF Step

LEMMA AloneCreateFile ==
    ASSUME Base, NEW b \in Builder, CreateFile(b), NEW h, h = HashOf[b], Alone(h)
    PROVE  Alone(h)'
<1> DEFINE w == WorkPath(b)
           n == file[b].number
           d == names[w]
<1>1. UNCHANGED names /\ pc[b] = "create"  BY DEF CreateFile
<1>2. ~ Exists(Final(h)) /\ Exists(w) /\ Complete(b, n - 1)
  BY <1>1 DEF Alone, BuildersOf, Progress
<1>3. w \in Paths  BY PathFacts, WorkPathFacts
<1>4. /\ d \in 1 .. Len(dirs) /\ dirs \in Seq(Directory) /\ n \in 1 .. 4
      /\ file \in [Builder -> [number : 1 .. 4, dir : 0 .. Len(dirs)]]
  BY <1>2, <1>3 DEF Base, TypeInv, Exists
<1>5. /\ pc'[b] = "write" /\ result' = result
      /\ file' = [file EXCEPT ![b].dir = d]
      /\ \E x : /\ dirs' = [dirs EXCEPT ![d][Written[n]] = x]
               /\ x.writers = {b} /\ b \in x.open /\ x \in File
  <2> DEFINE name == Written[n]
             holders == IF dirs[d][name] = None THEN {} ELSE dirs[d][name].open
             new == [writers |-> {b}, open |-> holders \cup {b}, whole |-> FALSE]
  <2>1. /\ dirs' = [dirs EXCEPT ![d][name] = new] /\ file' = [file EXCEPT ![b].dir = d]
        /\ pc' = [pc EXCEPT ![b] = "write"] /\ result' = result
    BY <1>2 DEF CreateFile, Goto
  <2>2. new.writers = {b} /\ b \in new.open  OBVIOUS
  <2>3. new \in File
    <3>1. name \in Files /\ dirs[d] \in Directory  BY <1>4, WrittenFacts
    <3>2. dirs[d][name] \in File \cup {None}  BY <3>1 DEF Directory
    <3>3. holders \in SUBSET Builder  BY <3>2 DEF File
    <3> HIDE DEF holders
    <3> QED BY <3>3 DEF File
  <2>4. pc'[b] = "write"  BY <2>1 DEF Base, TypeInv
  <2> HIDE DEF new
  <2> QED BY <2>1, <2>2, <2>3, <2>4
<1>6. file'[b].dir = d /\ file'[b].number = n  BY <1>4, <1>5
<1>7. PICK x : /\ dirs' = [dirs EXCEPT ![d][Written[n]] = x]
               /\ x.writers = {b} /\ b \in x.open /\ x \in File
  BY <1>5
<1> HIDE DEF w, n, d
<1>8. /\ dirs'[d][Written[n]] = x
      /\ \A f \in Files : f # Written[n] => dirs'[d][f] = dirs[d][f]
  <2>1. DOMAIN dirs = 1 .. Len(dirs) /\ dirs[d] \in Directory  BY <1>4
  <2>2. Written[n] \in Files  BY <1>4, WrittenFacts
  <2>3. dirs'[d] = [dirs[d] EXCEPT ![Written[n]] = x]  BY <1>4, <1>7, <2>1
  <2>4. DOMAIN dirs[d] = Files  BY <2>1 DEF Directory
  <2> QED BY <2>2, <2>3, <2>4
<1>9. ASSUME NEW i \in 1 .. n - 1
      PROVE  /\ dirs'[d][Written[i]] # None /\ dirs'[d][Written[i]].whole
             /\ dirs'[d][Written[i]].writers = {b}
  <2>1. Written[i] \in Files /\ Written[i] # Written[n]  BY <1>4, WrittenFacts
  <2> QED BY <1>2, <1>8, <2>1 DEF Complete, At, w, d
<1>10. x # None  BY <1>7, NoneIsNoFile
<1>11. Progress(b)'
  <2>1. Complete(b, file[b].number - 1)'
    BY <1>1, <1>6, <1>9 DEF Complete, At, WorkPath, w, d
  <2>2. (LET f == At(WorkPath(b))[Written[file[b].number]]
         IN  f # None /\ f.writers = {b} /\ b \in f.open)'
    BY <1>1, <1>6, <1>7, <1>8, <1>10 DEF At, WorkPath, w, d
  <2> QED BY <1>1, <1>2, <1>5, <1>6, <2>1, <2>2 DEF Progress, Exists, WorkPath, w, d
<1> QED BY <1>1, <1>5, <1>11, OwnUnpublished DEF Step

LEMMA AloneWriteFile ==
    ASSUME Base, NEW b \in Builder, WriteFile(b), NEW h, h = HashOf[b], Alone(h)
    PROVE  Alone(h)'
<1> DEFINE w == WorkPath(b)
           n == file[b].number
           d == names[w]
           old == dirs[d][Written[n]]
<1>1. UNCHANGED <<names, result>> /\ pc[b] = "write"  BY DEF WriteFile
<1>2. /\ ~ Exists(Final(h)) /\ Exists(w) /\ Complete(b, n - 1) /\ file[b].dir = d
      /\ old # None /\ old.writers = {b} /\ b \in old.open
  BY <1>1 DEF Alone, BuildersOf, Progress, At
<1>3. w \in Paths  BY PathFacts, WorkPathFacts
<1>4. /\ d \in 1 .. Len(dirs) /\ dirs \in Seq(Directory) /\ n \in 1 .. 4
      /\ file \in [Builder -> [number : 1 .. 4, dir : 0 .. Len(dirs)]]
  BY <1>2, <1>3 DEF Base, TypeInv, Exists
<1>5. /\ dirs' = [dirs EXCEPT ![d][Written[n]] =
                     [writers |-> {b}, open |-> old.open \ {b}, whole |-> TRUE]]
      /\ \/ Written[n] = Manifest /\ pc'[b] = "rename" /\ file'[b] = file[b]
         \/ /\ Written[n] # Manifest /\ file'[b].number = n + 1
            /\ pc'[b] = IF Written[n + 1] = Manifest THEN "sizes" ELSE "create"
  <2>1. dirs' = [dirs EXCEPT ![d][Written[n]] =
                    [writers |-> old.writers \cup {b}, open |-> old.open \ {b},
                     whole |-> old.writers \subseteq {b}]]
    BY <1>2 DEF WriteFile
  <2>2. old.writers \cup {b} = {b} /\ (old.writers \subseteq {b}) = TRUE  BY <1>2
  <2>3. dirs' = [dirs EXCEPT ![d][Written[n]] =
                    [writers |-> {b}, open |-> old.open \ {b}, whole |-> TRUE]]
    <3> HIDE DEF d, n, old
    <3> QED BY <2>1, <2>2
  <2>4. pc \in [Builder -> Steps]  BY DEF Base, TypeInv
  <2>5. CASE Written[n] = Manifest
    BY <2>3, <2>4, <2>5 DEF WriteFile, Goto
  <2>6. CASE Written[n] # Manifest
    <3>1. /\ file' = [file EXCEPT ![b].number = n + 1]
          /\ pc' = [pc EXCEPT ![b] = IF Written[n + 1] = Manifest
                                     THEN "sizes" ELSE "create"]
      BY <2>6 DEF WriteFile, Goto
    <3>2. file'[b].number = n + 1  BY <1>4, <3>1
    <3>3. pc'[b] = IF Written[n + 1] = Manifest THEN "sizes" ELSE "create"
      BY <2>4, <3>1, Zenon
    <3> QED BY <2>3, <2>6, <3>2, <3>3
  <2> QED BY <2>5, <2>6
<1> DEFINE new == [writers |-> {b}, open |-> old.open \ {b}, whole |-> TRUE]
<1>6. /\ dirs'[d][Written[n]] = new
      /\ \A f \in Files : f # Written[n] => dirs'[d][f] = dirs[d][f]
  <2> HIDE DEF new, d, n, w, old
  <2>1. DOMAIN dirs = 1 .. Len(dirs) /\ dirs[d] \in Directory  BY <1>4
  <2>2. Written[n] \in Files  BY <1>4, WrittenFacts
  <2>3. dirs'[d] = [dirs[d] EXCEPT ![Written[n]] = new]  BY <1>4, <1>5, <2>1 DEF new
  <2>4. DOMAIN dirs[d] = Files  BY <2>1 DEF Directory
  <2> QED BY <2>2, <2>3, <2>4
<1>7. new # None /\ new.whole /\ new.writers = {b}
  <2>1. dirs[d] \in Directory /\ Written[n] \in Files  BY <1>4, WrittenFacts
  <2>2. old \in File  BY <1>2, <2>1 DEF Directory
  <2>3. new \in File  BY <2>2 DEF File
  <2> QED BY <2>3, NoneIsNoFile
<1> HIDE DEF w, n, d, old, new
<1>8. ASSUME NEW i \in 1 .. n
      PROVE  /\ dirs'[d][Written[i]] # None /\ dirs'[d][Written[i]].whole
             /\ dirs'[d][Written[i]].writers = {b}
  <2>1. CASE i = n  BY <1>6, <1>7, <2>1
  <2>2. CASE i # n
    <3>1. i \in 1 .. n - 1 /\ Written[i] \in Files /\ Written[i] # Written[n]
      BY <1>4, <2>2, WrittenFacts
    <3> QED BY <1>2, <1>6, <3>1 DEF Complete, At, w, d
  <2> QED BY <2>1, <2>2
<1>9. ASSUME NEW m \in 1 .. 4, m = n PROVE Complete(b, m)'
  BY <1>1, <1>8, <1>9 DEF Complete, At, WorkPath, w, d
<1>10. Progress(b)'
  <2>1. CASE Written[n] = Manifest
    <3>1. n = 4  BY <1>4, <2>1, WrittenFacts
    <3> QED BY <1>1, <1>2, <1>5, <1>9, <2>1, <3>1 DEF Progress, Exists, WorkPath, w
  <2>2. CASE Written[n] # Manifest
    <3>1. n \in 1 .. 3  BY <1>4, <2>2, WrittenFacts
    <3>2. file'[b].number = n + 1  BY <1>5, <2>2
    <3>3. Complete(b, file[b].number - 1)'
      BY <1>1, <1>8, <3>1, <3>2 DEF Complete, At, WorkPath, w, d
    <3>4. CASE Written[n + 1] = Manifest
      <4>1. n = 3  BY <3>1, <3>4, WrittenFacts
      <4>2. pc'[b] = "sizes"  BY <1>5, <2>2, <3>4
      <4> QED BY <1>1, <1>2, <1>9, <3>2, <4>1, <4>2 DEF Progress, Exists, WorkPath, w
    <3>5. CASE Written[n + 1] # Manifest
      <4>1. pc'[b] = "create"  BY <1>5, <2>2, <3>5
      <4> QED BY <1>1, <1>2, <3>3, <4>1 DEF Progress, Exists, WorkPath, w
    <3> QED BY <3>4, <3>5
  <2> QED BY <2>1, <2>2
<1> QED BY <1>1, <1>10, OwnUnpublished DEF Step

LEMMA AloneRename ==
    ASSUME Base, NEW b \in Builder, Rename(b), NEW h, h = HashOf[b], Alone(h)
    PROVE  Alone(h)'
<1> DEFINE w == WorkPath(b)
           final == Final(h)
<1>1. UNCHANGED dirs /\ pc[b] = "rename"  BY DEF Rename
<1>2. ~ Exists(final) /\ Exists(w) /\ Complete(b, 4)
  BY <1>1 DEF Alone, BuildersOf, Progress
<1>3. \A c \in BuildersOf(h) \ {b} : pc[c] = "idle"  BY <1>1, OthersIdle
<1>4. w \in Paths /\ final \in Paths /\ w # final  BY PathFacts, WorkPathFacts
<1>5. names' = [names EXCEPT ![w] = None, ![final] = names[w]] /\ pc'[b] = "idle"
  BY <1>2 DEF Base, TypeInv, Rename, Stop, Goto
<1>6. names'[final] = names[w]
  <2> HIDE DEF w, final
  <2> QED BY <1>4, <1>5 DEF Base, TypeInv
<1>7. Exists(final)'  BY <1>2, <1>6 DEF Exists
<1>8. Verifies(final)'
  <2>1. \A f \in Files : \E i \in 1 .. 4 : f = Written[i]  BY WrittenFacts
  <2>2. \A f \in Files : /\ At(w)[f] # None /\ At(w)[f].whole
                        /\ At(w)[f].writers = {b}
    BY <1>2, <2>1 DEF Complete
  <2> QED BY <1>1, <1>6, <2>2 DEF Verifies, At
<1>9. Progress(b)'  BY <1>5 DEF Progress
<1> QED BY <1>3, <1>2, <1>7, <1>8, <1>9, OwnSuffices DEF Step

LEMMA AloneCrash ==
    ASSUME Base, NEW b \in Builder, Crash(b), NEW h, h = HashOf[b], Alone(h)
    PROVE  Alone(h)'
<1>1. UNCHANGED <<names, result>> /\ pc[b] # "idle"  BY DEF Crash
<1>2. \A c \in BuildersOf(h) \ {b} : pc[c] = "idle"  BY <1>1, OthersIdle
<1>3. pc'[b] = "idle"  BY DEF Base, TypeInv, Crash, Goto
<1>4. Progress(b)'  BY <1>3 DEF Progress
<1>5. (Exists(Final(h)) => Verifies(Final(h)))'
  <2>1. SUFFICES ASSUME Exists(Final(h)) PROVE Verifies(Final(h))'
    BY <1>1 DEF Exists
  <2> DEFINE d == names[Final(h)]
  <2>2. Final(h) \in Paths  BY PathFacts, WorkPathFacts
  <2>3. d \in 1 .. Len(dirs) /\ dirs \in Seq(Directory)
    BY <2>1, <2>2 DEF Base, TypeInv, Exists
  <2>4. PICK c \in Builder : \A f \in Files :
            /\ dirs[d][f] # None /\ dirs[d][f].whole /\ dirs[d][f].writers = {c}
    BY <2>1 DEF Alone, Verifies, At
  <2> HIDE DEF d
  <2>5. DOMAIN dirs = 1 .. Len(dirs) /\ dirs[d] \in Directory  BY <2>3
  <2>6. ASSUME NEW f \in Files
        PROVE  /\ dirs'[d][f] # None /\ dirs'[d][f].whole
               /\ dirs'[d][f].writers = {c}
    <3>1. dirs[d][f] \in File  BY <2>4, <2>5 DEF Directory
    <3>2. dirs'[d][f] = [dirs[d][f] EXCEPT !.open = @ \ {b}]
      BY <2>3, <2>4, <2>5 DEF Crash
    <3>3. dirs'[d][f] \in File  BY <3>1, <3>2 DEF File
    <3> QED BY <2>4, <3>1, <3>2, <3>3, NoneIsNoFile DEF File
  <2> QED BY <1>1, <2>6 DEF Verifies, At, d
<1>6. result[b] # "none" => Exists(Final(h))  BY DEF Alone, BuildersOf
<1> QED BY <1>1, <1>2, <1>4, <1>5, <1>6, OwnSuffices DEF Step, Exists

----------------------------------------------------------------------------
(* Every step.                                                             *)

LEMMA AloneStep ==
    ASSUME Base, [Next]_vars, NEW h \in Hash, h \notin overlapped', Alone(h)
    PROVE  Alone(h)'
<1>1. CASE UNCHANGED vars
  <2>1. UNCHANGED <<names, dirs, pc, file, result>>  BY <1>1 DEF vars
  <2>2. \A p : KeepsFiles(h, names[p])  BY <2>1 DEF KeepsFiles
  <2> QED BY <2>1, <2>2, AloneKept
<1>2. ASSUME NEW b \in Builder, Step(b) PROVE Alone(h)'
  <2>1. CASE h # HashOf[b]  BY <1>2, <2>1, AloneElsewhere
  <2>2. CASE h = HashOf[b]
    BY <1>2, <2>2, AloneBegin, AloneCheckFinal, AloneCheckTmp, AloneOpenDir,
       AloneUnlink, AloneRemoveDir, AloneCreateDir, AloneCreateFile, AloneWriteFile,
       AloneReadSizes, AloneRename, AloneCrash DEF Step
  <2> QED BY <2>1, <2>2
<1> QED BY <1>1, <1>2 DEF Next

LEMMA InitInv == Init => Inv
<1> SUFFICES ASSUME Init PROVE Inv  OBVIOUS
<1>1. TypeInv
  <2>1. NoFileOpen \in [number : 1 .. 4, dir : 0 .. Len(<< >>)]  BY DEF NoFileOpen
  <2> QED BY <2>1 DEF Init, TypeInv, Steps
<1>2. \A p \in Paths : ~ Exists(p)  BY DEF Init, Exists
<1>3. OneName /\ OpenedOwn  BY <1>2 DEF OneName, OpenedOwn
<1>4. ASSUME NEW h \in Hash PROVE Alone(h)
  <2>1. ~ Exists(Final(h))  BY <1>2, PathFacts
  <2>2. \A b \in BuildersOf(h) : pc[b] = "idle" /\ result[b] = "none"
    BY DEF Init, BuildersOf
  <2>3. \A b \in BuildersOf(h) : Progress(b)  BY <2>2 DEF Progress
  <2> QED BY <2>1, <2>2, <2>3 DEF Alone
<1> QED BY <1>1, <1>3, <1>4 DEF Inv

LEMMA StepInv == Inv /\ [Next]_vars => Inv'
<1> SUFFICES ASSUME Inv, [Next]_vars PROVE Inv'  OBVIOUS
<1>1. Base  BY DEF Inv, Base
<1>2. Base'  BY <1>1, BaseStep
<1>3. overlapped \subseteq overlapped'
  BY DEF Next, Step, Begin, CheckFinal, CheckTmp, OpenDir, Unlink, RemoveDir, CreateDir,
         CreateFile, WriteFile, ReadSizes, Rename, Crash, vars
<1>4. \A h \in Hash \ overlapped' : Alone(h)'
  <2> TAKE h \in Hash \ overlapped'
  <2>1. Alone(h)  BY <1>3 DEF Inv
  <2> QED BY <1>1, <2>1, AloneStep
<1> QED BY <1>2, <1>4 DEF Inv, Base

THEOREM BuildInvariant == Spec => []Inv
<1> QED BY InitInv, StepInv, PTL DEF Spec

----------------------------------------------------------------------------
(* What the invariant says.                                                *)

\* Whatever crashes there were, however often a build was tried again, and
\* whatever builds of other content ran meanwhile: a directory that has its
\* final name holds the four files, whole and of one build, unless two builds
\* of its content overlapped (build_snapshot).
THEOREM PublishedIsWhole == Spec => []PublishedVerifies
<1>1. Inv => PublishedVerifies  BY DEF Inv, Alone, PublishedVerifies
<1> QED BY <1>1, BuildInvariant, PTL

\* Nor does a crash stand in the way of later builds: one that ends, with an
\* error or without, leaves its content published (build_snapshot).
THEOREM BuildsEndPublished == Spec => []EndsPublished
<1>1. Inv => EndsPublished
  <2> SUFFICES ASSUME Inv, NEW b \in Builder, HashOf[b] \notin overlapped,
                      result[b] # "none"
               PROVE  Exists(Final(HashOf[b])) /\ Verifies(Final(HashOf[b]))
    BY DEF EndsPublished
  <2>1. HashOf[b] \in Hash /\ b \in BuildersOf(HashOf[b])
    BY WorkPathFacts DEF BuildersOf
  <2> QED BY <2>1 DEF Inv, Alone
<1> QED BY <1>1, BuildInvariant, PTL

\* Even builds of one content that overlap never put a directory in the place
\* of one that holds files: only rename moves a final name, and it fails onto
\* such a directory (build_snapshot).
THEOREM PlacesAreKept == Spec => KeepsItsPlace
<1> DEFINE Keeps == \A h \in Hash : Exists(Final(h)) /\ At(Final(h)) # NoFiles
                                    => names'[Final(h)] = names[Final(h)]
<1>1. Inv /\ [Next]_vars => [Keeps]_vars
  <2> SUFFICES ASSUME Inv, Next, NEW h \in Hash,
                      Exists(Final(h)), At(Final(h)) # NoFiles
               PROVE  names'[Final(h)] = names[Final(h)]
    OBVIOUS
  <2>1. Base  BY DEF Inv, Base
  <2>2. PICK b \in Builder : Step(b)  BY DEF Next
  <2>3. CASE h # HashOf[b]  BY <2>1, <2>2, <2>3, StepKeepsElsewhere
  <2>4. CASE h = HashOf[b]
    <3>1. /\ Final(h) \in Paths /\ WorkPath(b) \in Paths /\ Final(h) # WorkPath(b)
          /\ names \in [Paths -> 1 .. Len(dirs) \cup {None}]
      BY PathFacts, WorkPathFacts DEF Inv, TypeInv
    <3>2. CASE Rename(b)  BY <2>4, <3>2 DEF Rename
    <3>3. CASE RemoveDir(b) \/ CreateDir(b)
      BY <3>1, <3>3 DEF RemoveDir, CreateDir
    <3>4. CASE ~ (Rename(b) \/ RemoveDir(b) \/ CreateDir(b))
      <4>1. names' = names
        BY <2>2, <3>4 DEF Step, Begin, CheckFinal, CheckTmp, OpenDir, Unlink,
           CreateFile, WriteFile, ReadSizes, Crash
      <4> QED BY <4>1
    <3> QED BY <3>2, <3>3, <3>4
  <2> QED BY <2>3, <2>4
<1> QED BY <1>1, BuildInvariant, PTL DEF Spec, KeepsItsPlace

=============================================================================
