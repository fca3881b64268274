-------------------------------- MODULE Clean --------------------------------
(***************************************************************************)
(* Cleaning a raw directory into a snapshot's rows, cleaning log and       *)
(* rejects (receipts-snapshot/src/clean.rs).                               *)
(*                                                                         *)
(* Records are staged one at a time, in the order of the pages, whatever   *)
(* that is; then duplicates are resolved, rows are sorted, and everything   *)
(* noted by staging position is renumbered.                                *)
(*                                                                         *)
(* A record is [id, key, created, closed, text, location].  A value is     *)
(* Absent, Bad (a scalar that no rule can read), NonScalar, or what it     *)
(* says; a text is [value, padded], 0 being the empty one, and texts are   *)
(* numbers in the order of their bytes; a location is a pair of values.    *)
(* The log and the rejects are sorted only to come out the same every      *)
(* time: here they are a set and a bag.                                    *)
(***************************************************************************)
EXTENDS Integers, FiniteSets, Sequences, Ranking

CONSTANTS
    Raw,            \* Raw[n]: the record that the n-th source row is
    Inputs,         \* the sets of source rows to clean
    PageSizes,
    Fingerprint(_), \* the BLAKE3 of a raw record, as a number
    Low, High,      \* the scope: Low <= created < High
    Absent, Bad, NonScalar

Scalar == Int \cup {Absent, Bad, NonScalar}

Text == [value : Nat, padded : BOOLEAN]

Record == [id : Int, key : Scalar, created : Scalar, closed : Scalar,
           text : Text \cup {Absent, NonScalar}, location : Scalar \X Scalar]

\* The three ways not to be a value are no values, a directory is finite, and
\* a fingerprint is of one record: collisions of BLAKE3 are out of scope.
ASSUME CleanAssumption ==
    /\ Absent # Bad /\ Absent # NonScalar /\ Bad # NonScalar
    /\ \A v \in {Absent, Bad, NonScalar} : v \notin Int
    /\ Absent \notin Text /\ NonScalar \notin Text
    /\ Absent \notin Scalar \X Scalar /\ Absent # [ok |-> FALSE]
    /\ \A n \in DOMAIN Raw : Raw[n] \in Record /\ Fingerprint(Raw[n]) \in Int
    /\ \A m, n \in DOMAIN Raw :
          Fingerprint(Raw[m]) = Fingerprint(Raw[n]) => Raw[m] = Raw[n]
    /\ \A input \in Inputs : input \subseteq DOMAIN Raw /\ IsFiniteSet(input)
    /\ Low \in Int /\ High \in Int

VARIABLES
    left,      \* source rows not read yet
    size,      \* records per page
    pages,     \* the source rows read, page by page
    staging,   \* rows with a valid key, the texts met, log and rejects
    cleaned    \* the outcome, or Absent

cleanVars == <<left, size, pages, staging, cleaned>>

CleanInit ==
    /\ left \in Inputs
    /\ size \in PageSizes
    /\ pages = << << >> >>
    /\ staging = [rows |-> << >>, values |-> << >>, log |-> {}, rejects |-> {}]
    /\ cleaned = Absent

----------------------------------------------------------------------------
(* Values.                                                                 *)

Unread == {Absent, Bad}

Columns == {"closed", "text", "location"}

Field(c, column) ==
    CASE column = "closed" -> c.closed
      [] column = "text" -> c.text
      [] column = "location" -> c.location

\* The fields of a record that its dataset has columns for.
Selected(c) == <<c.key, c.created, c.closed, c.text, c.location>>

\* The value kept for a column, Absent if it is missing or made null.
Value(c, column) ==
    CASE column = "closed" -> IF c.closed \in Unread THEN Absent ELSE c.closed
      [] column = "text" -> IF c.text = Absent THEN Absent
                            ELSE IF c.text.value = 0 THEN Absent
                            ELSE c.text.value
      [] column = "location" ->
            IF \E i \in 1 .. 2 : c.location[i] \in Unread THEN Absent
            ELSE c.location

\* CR-06 to CR-09, none of which fires on a missing value.
Fires(c, column, rule) ==
    CASE rule = "InvalidClosed" -> column = "closed" /\ c.closed = Bad
      [] rule = "EmptyText" -> /\ column = "text" /\ c.text # Absent
                               /\ c.text.value = 0
      [] rule = "Trimmed" -> /\ column = "text" /\ c.text # Absent
                             /\ c.text.value # 0 /\ c.text.padded
      [] rule = "InvalidLocation" -> /\ column = "location"
                                     /\ c.location # <<Absent, Absent>>
                                     /\ Value(c, column) = Absent

ValueRules == {"InvalidClosed", "EmptyText", "Trimmed", "InvalidLocation"}

\* Fields that hold no scalar stop the build, if they are looked at: those of
\* a record without a valid key are not.
Stops(c) ==
    \/ c.key = NonScalar
    \/ /\ c.key \notin Unread
       /\ \/ NonScalar \in {c.created, c.closed, c.text}
          \/ \E i \in 1 .. 2 : c.location[i] = NonScalar

----------------------------------------------------------------------------
(* Staging.                                                                *)

Positions == 1 .. Len(staging.rows)

\* Interner: a text's place among those met so far.
Intern(values, v) ==
    IF \E i \in DOMAIN values : values[i] = v
    THEN CHOOSE i \in DOMAIN values : values[i] = v
    ELSE Len(values) + 1

Interned(values, v) ==
    IF v = Absent \/ Intern(values, v) <= Len(values) THEN values
    ELSE Append(values, v)

\* stage: a record without a key is rejected, others get the next position.
\* value_fp is of the selected fields, record_fp of the whole record.
Staged(c, loc) ==
    LET position == Len(staging.rows) + 1
        text == Value(c, "text")
        row == [loc |-> loc, key |-> c.key, created |-> c.created,
                closed |-> Value(c, "closed"),
                text |-> IF text = Absent THEN Absent
                         ELSE Intern(staging.values, text),
                location |-> Value(c, "location"),
                value_fp |-> Selected(c),
                record_fp |-> Fingerprint(c)]
        entries == {[row |-> position, column |-> e[1], rule |-> e[2],
                     raw_value |-> Field(c, e[1])] :
                        e \in {x \in Columns \X ValueRules :
                                  Fires(c, x[1], x[2])}}
    IN  IF c.key \in Unread
        THEN [staging EXCEPT !.rejects = @ \cup
                {[loc |-> loc, rule |-> "InvalidKey", raw_key |-> c.key]}]
        ELSE [rows |-> Append(staging.rows, row),
              values |-> Interned(staging.values, text),
              log |-> staging.log \cup entries,
              rejects |-> staging.rejects]

\* The next record of the page, or the first of the next page.
Stage(n) ==
    LET last == Len(pages)
        full == Len(pages[last]) = size
        loc == IF full THEN <<last + 1, 1>> ELSE <<last, Len(pages[last]) + 1>>
    IN  /\ cleaned = Absent
        /\ n \in left
        /\ left' = left \ {n}
        /\ pages' = IF full THEN Append(pages, <<n>>)
                    ELSE [pages EXCEPT ![last] = Append(@, n)]
        /\ IF Stops(Raw[n])
           THEN cleaned' = [ok |-> FALSE] /\ UNCHANGED staging
           ELSE staging' = Staged(Raw[n], loc) /\ UNCHANGED cleaned
        /\ UNCHANGED size

----------------------------------------------------------------------------
(* finish.                                                                 *)

Copies(r) == {x \in Positions : staging.rows[x].key = staging.rows[r].key}

\* Mutant of Kept: the copy that was fetched first is kept.
Kept_FirstFetched(keep) ==
    \A r \in Positions : \E k \in keep :
        /\ Copies(r) \cap keep = {k}
        /\ \A x \in Copies(r) : k <= x

\* One copy of every key may be kept: one with the least fingerprint,
\* whatever the order they were fetched in.
Kept(keep) ==
    \A r \in Positions : \E k \in keep :
        /\ Copies(r) \cap keep = {k}
        /\ \A x \in Copies(r) :
              staging.rows[k].record_fp <= staging.rows[x].record_fp

\* CR-03 and CR-04, then CR-05, then CR-12: a record gets one rule.
Status(keep, r) ==
    LET row == staging.rows[r]
    IN  IF \E x \in Copies(r) : staging.rows[x].value_fp # row.value_fp
        THEN "DuplicateConflicting"
        ELSE IF r \notin keep THEN "DuplicateIdentical"
        ELSE IF row.created \in Unread THEN "InvalidCreated"
        ELSE IF row.created < Low \/ row.created >= High THEN "OutsideScope"
        ELSE "Admitted"

Admitted(keep) == {r \in Positions : Status(keep, r) = "Admitted"}

\* Admitted rows by created, then key.
RowOrder(keep) ==
    Ranked(Admitted(keep),
           LAMBDA x, y :
               LET a == staging.rows[x]
                   b == staging.rows[y]
               IN  a.created < b.created \/ (a.created = b.created /\ a.key < b.key))

\* The place of x in the sequence s that has it.
PlaceOf(s, x) == CHOOSE i \in DOMAIN s : s[i] = x

\* encode_dictionary: the texts that admitted rows use, in order.
DictionaryIds(keep) ==
    Ranked({staging.rows[r].text : r \in Admitted(keep)} \ {Absent},
           LAMBDA a, b : staging.values[a] < staging.values[b])

Row(keep, r) ==
    LET row == staging.rows[r]
    IN  [key |-> row.key, created |-> row.created, closed |-> row.closed,
         code |-> IF row.text = Absent THEN Absent
                  ELSE PlaceOf(DictionaryIds(keep), row.text),
         location |-> row.location]

\* Mutant of LogEntries: entries keep the number the row was staged under.
LogEntries_NotRenumbered(keep) ==
    {[row_index |-> e.row - 1, column |-> e.column, rule |-> e.rule,
      raw_value |-> e.raw_value] :
        e \in {x \in staging.log : x.row \in Admitted(keep)}}

\* The log of admitted rows, renumbered.
LogEntries(keep) ==
    {[row_index |-> PlaceOf(RowOrder(keep), e.row), column |-> e.column,
      rule |-> e.rule, raw_value |-> e.raw_value] :
        e \in {x \in staging.log : x.row \in Admitted(keep)}}

\* Mutant of Pending: records without a key are forgotten.
Pending_KeysOnly(keep) ==
    {[loc |-> staging.rows[r].loc, rule |-> Status(keep, r),
      raw_key |-> staging.rows[r].key] : r \in Positions \ Admitted(keep)}

Pending(keep) ==
    staging.rejects \cup
    {[loc |-> staging.rows[r].loc, rule |-> Status(keep, r),
      raw_key |-> staging.rows[r].key] : r \in Positions \ Admitted(keep)}

\* The bag of Op(x), for x in S.
BagOf(S, Op(_)) ==
    [y \in {Op(x) : x \in S} |-> Cardinality({x \in S : Op(x) = y})]

\* resolve_rejects: the text of each is read back from its place.
Resolved(p) ==
    [raw_unique_key |-> p.raw_key, rule |-> p.rule,
     raw_record |-> Raw[pages[p.loc[1]][p.loc[2]]]]

Finish ==
    /\ cleaned = Absent
    /\ left = {}
    /\ \E keep \in SUBSET Positions :
          /\ Kept(keep)
          /\ cleaned' =
                [ok |-> TRUE,
                 rows |-> [i \in DOMAIN RowOrder(keep) |->
                              Row(keep, RowOrder(keep)[i])],
                 dictionary |-> [i \in DOMAIN DictionaryIds(keep) |->
                                    staging.values[DictionaryIds(keep)[i]]],
                 log |-> LogEntries(keep),
                 rejects |-> BagOf(Pending(keep), Resolved)]
    /\ UNCHANGED <<left, size, pages, staging>>

CleanNext == Finish \/ \E n \in DOMAIN Raw : Stage(n)

CleanSpec == CleanInit /\ [][CleanNext]_cleanVars

----------------------------------------------------------------------------
(* What cleaning is to give, said of the set of source rows alone.         *)

Read == UNION {{pages[p][i] : i \in DOMAIN pages[p]} : p \in DOMAIN pages}

Keyed == {n \in Read : Raw[n].key \notin Unread}

SameKey(n) == {x \in Keyed : Raw[x].key = Raw[n].key}

Agree(n) == \A x \in SameKey(n) : Selected(Raw[x]) = Selected(Raw[n])

\* The records of a key that agree are one record, the least of them.
TheOne(n) ==
    \A x \in SameKey(n) : Fingerprint(Raw[n]) <= Fingerprint(Raw[x])

InScope(c) == c.created \notin Unread /\ Low <= c.created /\ c.created < High

Snapshot == {Raw[n] : n \in {x \in Keyed : Agree(x) /\ TheOne(x) /\ InScope(Raw[x])}}

Texts == {Value(c, "text") : c \in Snapshot} \ {Absent}

SnapshotRows ==
    LET order == Ranked(Snapshot,
                        LAMBDA a, b : \/ a.created < b.created
                                      \/ a.created = b.created /\ a.key < b.key)
    IN  [i \in DOMAIN order |->
            [key |-> order[i].key, created |-> order[i].created,
             closed |-> Value(order[i], "closed"),
             code |-> LET v == Value(order[i], "text")
                      IN  IF v = Absent THEN Absent
                          ELSE PlaceOf(Ascending(Texts), v),
             location |-> Value(order[i], "location")]]

Rules == {"InvalidKey", "DuplicateConflicting", "DuplicateIdentical",
          "InvalidCreated", "OutsideScope"}

\* The rule that record c as such falls under, "Admitted" for none.
Reason(c) ==
    IF c.key \in Unread THEN "InvalidKey"
    ELSE IF \E n \in Keyed : Raw[n] = c /\ ~ Agree(n) THEN "DuplicateConflicting"
    ELSE IF \E n \in Keyed : Raw[n] = c /\ ~ TheOne(n) THEN "DuplicateIdentical"
    ELSE IF c.created \in Unread THEN "InvalidCreated"
    ELSE IF ~ InScope(c) THEN "OutsideScope"
    ELSE "Admitted"

\* How many copies of c are rejected under the rule: all of them, or, of the
\* one record of its key, all but one as copies of it.
Rejected(c, rule) ==
    LET copies == Cardinality({n \in Read : Raw[n] = c})
        one == Reason(c) \in {"InvalidCreated", "OutsideScope", "Admitted"}
    IN  IF one /\ rule = "DuplicateIdentical" THEN copies - 1
        ELSE IF rule # Reason(c) THEN 0
        ELSE IF one THEN 1 ELSE copies

Done == cleaned # Absent /\ cleaned.ok

\* A record whose fields the dataset does not expect: of one without a valid
\* key nothing else is asked.
Drifted(c) ==
    /\ c.key \notin Unread
    /\ NonScalar \in {c.key, c.created, c.closed, c.text,
                      c.location[1], c.location[2]}

\* A build stops if one of the records fetched has drifted, wherever it comes
\* in the pages, and otherwise ends.
StopsAsFetched ==
    cleaned # Absent => (cleaned.ok <=> \A n \in Read \cup left : ~ Drifted(Raw[n]))

\* Whether there is a snapshot, its rows, its dictionary and the rejects, and
\* so its hash, depend on which records were fetched alone, not on their
\* order or their pages (ADR 0006: "The same raw directory always builds the
\* same snapshot"; finish).
CleanedIsSnapshot ==
    /\ StopsAsFetched
    /\ Done => /\ cleaned.rows = SnapshotRows
               /\ cleaned.dictionary = Ascending(Texts)
               /\ \A c \in {Raw[n] : n \in Read}, rule \in Rules :
                     LET e == [raw_unique_key |-> c.key, rule |-> rule,
                               raw_record |-> c]
                     IN  Rejected(c, rule) = IF e \in DOMAIN cleaned.rejects
                                             THEN cleaned.rejects[e] ELSE 0

\* Every record read is a row or one reject, never both or neither: for each
\* key, and for the records without one (docs/snapshot/cleaning-rules.md: "A
\* rejected record gets exactly one rule").
EveryRecordCounted ==
    Done => \A k \in {Raw[n].key : n \in Read} :
        LET rejected == {e \in DOMAIN cleaned.rejects : e.raw_unique_key = k}
        IN  Cardinality({n \in Read : Raw[n].key = k}) =
                Cardinality({i \in DOMAIN cleaned.rows : cleaned.rows[i].key = k})
                + Cardinality({x \in rejected \X (1 .. Cardinality(Read)) :
                                  x[2] <= cleaned.rejects[x[1]]})

\* The value of a row's column as it reads in the snapshot.
Decoded(row, column) ==
    IF column = "text"
    THEN IF row.code = Absent THEN Absent
         ELSE [value |-> cleaned.dictionary[row.code], padded |-> FALSE]
    ELSE Field(row, column)

\* Whether a source value is what the snapshot says, but for being missing.
Told(column, source, shown) ==
    \/ source = shown
    \/ column = "location" /\ shown = Absent /\ source = <<Absent, Absent>>

\* The log is what it takes to get back to the source: a value that differs
\* from its record's has one entry, with the source's value and the row's
\* number in the snapshot, and a value that doesn't has none.
LogExplainsChanges ==
    Done => \A i \in DOMAIN cleaned.rows : \E n \in Keyed :
        /\ Raw[n].key = cleaned.rows[i].key
        /\ \A column \in Columns :
              LET entries == {e \in cleaned.log :
                                 e.row_index = i /\ e.column = column}
              IN  IF Told(column, Field(Raw[n], column),
                          Decoded(cleaned.rows[i], column))
                  THEN entries = {}
                  ELSE \E rule \in ValueRules :
                          entries = {[row_index |-> i, column |-> column,
                                      rule |-> rule,
                                      raw_value |-> Field(Raw[n], column)]}
=============================================================================
