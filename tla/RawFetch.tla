------------------------------ MODULE RawFetch ------------------------------
(***************************************************************************)
(* Fetching a dataset into a raw directory (receipts-snapshot/src/          *)
(* socrata.rs), and opening that directory for a build (raw.rs).           *)
(*                                                                         *)
(* A fetch asks for pages of rows in the order of the row id, each starting *)
(* after the last id of the page before.  The portal's rows change while it *)
(* does; requests fail and are retried; the process may die, also halfway  *)
(* through writing a file; a second fetch may write to the same directory, *)
(* and a build may open it at any time.                                    *)
(*                                                                         *)
(* A row is its id: its values pass through unread.  A page is a set of    *)
(* rows, as its order is that of their ids, and a digest of it is the page *)
(* itself.                                                                 *)
(***************************************************************************)
EXTENDS Naturals, FiniteSets, FiniteSetsExt, Functions, Sequences

CONSTANTS
    Fetcher,       \* processes that fetch into this directory
    Ids,           \* row ids, positive numbers
    FirstRows,     \* the rows in scope at first
    PageSize,
    MaxAttempts,
    NoFile, Torn,  \* no such file, and one whose writer died
    MaxChanges,    \* bound: changes of the portal's rows
    MaxStarts,     \* bound: fetches started
    MaxPages       \* bound: pages of one fetch (MAX_PAGES of SeeClickFix)

ASSUME RawFetchAssumption ==
    /\ Ids \subseteq Nat \ {0} /\ IsFiniteSet(Ids) /\ FirstRows \subseteq Ids
    /\ PageSize \in Nat \ {0} /\ MaxAttempts \in Nat \ {0}
    /\ MaxChanges \in Nat /\ MaxStarts \in Nat /\ MaxPages \in Nat

VARIABLES
    versions,   \* the portal's rows, after every change so far
    keyset,     \* whether the portal honours `:id > last`
    dir,        \* the directory: [made, metadata, pages, fetch_json]
    pc,         \* of each fetch
    attempt,    \* tries of the request under way
    last_id,    \* the last id of the page before, 0 at first
    pages,      \* the pages fetched
    started,    \* rowsUpdatedAt at the start
    starts,
    present,    \* history: rows in scope since the fetch began
    finished,   \* history: what finished fetches fetched
    build       \* the build that opens the directory: [pc, record, next]

fetch_vars == <<pc, attempt, last_id, pages, started, starts, present, finished>>
vars == <<versions, keyset, dir, fetch_vars, build>>

Rows == versions[Len(versions)]

\* rowsUpdatedAt changes with every change of the rows.
UpdatedAt == Len(versions)

Empty == [made |-> FALSE, metadata |-> NoFile,
          pages |-> [i \in 1 .. MaxPages |-> NoFile], fetch_json |-> NoFile]

Closed == [pc |-> "closed", record |-> NoFile, next |-> 1]

Init ==
    /\ versions = <<FirstRows>>
    /\ keyset \in BOOLEAN
    /\ dir = Empty
    /\ pc = [p \in Fetcher |-> "idle"]
    /\ attempt = [p \in Fetcher |-> 1]
    /\ last_id = [p \in Fetcher |-> 0]
    /\ pages = [p \in Fetcher |-> << >>]
    /\ started = [p \in Fetcher |-> 0]
    /\ starts = 0
    /\ present = [p \in Fetcher |-> {}]
    /\ finished = {}
    /\ build = Closed

----------------------------------------------------------------------------
(* The portal.                                                             *)

\* Rows come under ids never used before, and go.
Change ==
    /\ UpdatedAt <= MaxChanges
    /\ \/ \E r \in Ids \ UNION Range(versions) :
              versions' = Append(versions, Rows \cup {r})
       \/ \E r \in Rows : versions' = Append(versions, Rows \ {r})
    /\ present' = [p \in Fetcher |->
                      IF pc[p] \in {"metadata", "page"}
                      THEN present[p] \cap versions'[UpdatedAt'] ELSE present[p]]
    /\ UNCHANGED <<keyset, dir, pc, attempt, last_id, pages, started, starts,
                   finished, build>>

\* Mutant of Answer: the last row of the page before comes again.
Answer_Inclusive(last) ==
    LET asked == {r \in Rows : keyset => r >= last}
    IN  {r \in asked : Cardinality({q \in asked : q < r}) < PageSize}

\* $where=:id > last&$order=:id&$limit=PageSize
Answer(last) ==
    LET asked == {r \in Rows : keyset => r > last}
    IN  {r \in asked : Cardinality({q \in asked : q < r}) < PageSize}

----------------------------------------------------------------------------
(* fetch.                                                                  *)

\* Refuses a directory that has anything in it.
Begin(p) ==
    /\ pc[p] \in {"idle", "stopped", "done"}
    /\ starts < MaxStarts
    /\ starts' = starts + 1
    /\ pc' = [pc EXCEPT ![p] = IF dir.made THEN "stopped" ELSE "create"]
    /\ UNCHANGED <<versions, keyset, dir, attempt, last_id, pages, started,
                   present, finished, build>>

CreateDirs(p) ==
    /\ pc[p] = "create"
    /\ dir' = [dir EXCEPT !.made = TRUE]
    /\ pc' = [pc EXCEPT ![p] = "metadata"]
    /\ attempt' = [attempt EXCEPT ![p] = 1]
    /\ last_id' = [last_id EXCEPT ![p] = 0]
    /\ pages' = [pages EXCEPT ![p] = << >>]
    /\ present' = [present EXCEPT ![p] = Rows]
    /\ UNCHANGED <<versions, keyset, started, starts, finished, build>>

\* The metadata, with the schema a build expects; with another, see Fatal.
FetchMetadata(p) ==
    /\ pc[p] = "metadata"
    /\ dir' = [dir EXCEPT !.metadata = UpdatedAt]
    /\ started' = [started EXCEPT ![p] = UpdatedAt]
    /\ pc' = [pc EXCEPT ![p] = "page"]
    /\ attempt' = [attempt EXCEPT ![p] = 1]
    /\ UNCHANGED <<versions, keyset, last_id, pages, starts, present, finished,
                   build>>

\* A page was answered: it is kept, and the last one is not full.  After a
\* full one paging must have moved on.
PageAnswered(p, page, moved) ==
    /\ pc[p] = "page"
    /\ Len(pages[p]) < MaxPages
    /\ dir' = [dir EXCEPT !.pages[Len(pages[p]) + 1] = page]
    /\ pages' = [pages EXCEPT ![p] = Append(@, page)]
    /\ attempt' = [attempt EXCEPT ![p] = 1]
    /\ IF Cardinality(page) < PageSize
       THEN pc' = [pc EXCEPT ![p] = "finish"] /\ UNCHANGED last_id
       ELSE IF ~ moved
       THEN pc' = [pc EXCEPT ![p] = "stopped"] /\ UNCHANGED last_id
       ELSE last_id' = [last_id EXCEPT ![p] = Max(page)] /\ UNCHANGED pc
    /\ UNCHANGED <<versions, keyset, started, starts, present, finished, build>>

\* Mutants of FetchPage: pages are asked for by offset, and nothing checks
\* that paging moved on.
FetchPage_ByOffset(p) ==
    LET skip == PageSize * Len(pages[p])
        Before(r) == Cardinality({q \in Rows : q < r})
    IN  PageAnswered(p, {r \in Rows : Before(r) \in skip .. skip + PageSize - 1},
                     TRUE)

FetchPage_Unchecked(p) == PageAnswered(p, Answer(last_id[p]), TRUE)

FetchPage(p) ==
    LET page == Answer(last_id[p])
    IN  PageAnswered(p, page, page # {} => Max(page) # last_id[p])

\* Mutant of FinishFetch: the closing metadata is the one from the start.
FinishFetch_EarlyStamp(p) ==
    LET record == [pages |-> pages[p], metadata |-> started[p],
                   start |-> started[p], end |-> started[p]]
    IN  /\ pc[p] = "finish"
        /\ dir' = [dir EXCEPT !.fetch_json = record]
        /\ finished' = finished \cup {[record |-> record, present |-> present[p]]}
        /\ pc' = [pc EXCEPT ![p] = "done"]
        /\ UNCHANGED <<versions, keyset, attempt, last_id, pages, started,
                       starts, present, build>>

\* The metadata again, for when it was last updated, and fetch.json last.
FinishFetch(p) ==
    LET record == [pages |-> pages[p], metadata |-> started[p],
                   start |-> started[p], end |-> UpdatedAt]
    IN  /\ pc[p] = "finish"
        /\ dir' = [dir EXCEPT !.fetch_json = record]
        /\ finished' = finished \cup {[record |-> record, present |-> present[p]]}
        /\ pc' = [pc EXCEPT ![p] = "done"]
        /\ UNCHANGED <<versions, keyset, attempt, last_id, pages, started,
                       starts, present, build>>

\* A request is under way.  A fetch at the bound on pages is left there.
Requesting(p) ==
    /\ pc[p] \in {"metadata", "page", "finish"}
    /\ pc[p] = "page" => Len(pages[p]) < MaxPages

\* Mutant of Transient: one attempt too many.
Transient_OneMore(p) ==
    /\ Requesting(p)
    /\ IF attempt[p] <= MaxAttempts
       THEN attempt' = [attempt EXCEPT ![p] = @ + 1] /\ UNCHANGED pc
       ELSE pc' = [pc EXCEPT ![p] = "stopped"] /\ UNCHANGED attempt
    /\ UNCHANGED <<versions, keyset, dir, last_id, pages, started, starts,
                   present, finished, build>>

\* A 429, a 5xx or a network error: the same request again, or no more.
Transient(p) ==
    /\ Requesting(p)
    /\ IF attempt[p] < MaxAttempts
       THEN attempt' = [attempt EXCEPT ![p] = @ + 1] /\ UNCHANGED pc
       ELSE pc' = [pc EXCEPT ![p] = "stopped"] /\ UNCHANGED attempt
    /\ UNCHANGED <<versions, keyset, dir, last_id, pages, started, starts,
                   present, finished, build>>

\* Any other status, metadata whose schema drifted, or a body that is not
\* what it should be.
Fatal(p) ==
    /\ Requesting(p)
    /\ pc' = [pc EXCEPT ![p] = "stopped"]
    /\ UNCHANGED <<versions, keyset, dir, attempt, last_id, pages, started,
                   starts, present, finished, build>>

\* The directory after p dies while it writes its next file.
Interrupted(p) ==
    CASE pc[p] = "metadata" -> [dir EXCEPT !.metadata = Torn]
      [] pc[p] = "page" ->
            [dir EXCEPT !.pages[Len(pages[p]) + 1] = Torn]
      [] pc[p] = "finish" -> [dir EXCEPT !.fetch_json = Torn]
      [] OTHER -> dir

Crash(p) ==
    /\ pc[p] = "create" \/ Requesting(p)
    /\ pc' = [pc EXCEPT ![p] = "stopped"]
    /\ dir' \in {dir, Interrupted(p)}
    /\ UNCHANGED <<versions, keyset, attempt, last_id, pages, started, starts,
                   present, finished, build>>

\* "A failed fetch leaves no fetch.json and has to be restarted": someone
\* removes the directory when no fetch runs.
RemoveDir ==
    /\ \A p \in Fetcher : pc[p] \in {"idle", "stopped", "done"}
    /\ build.pc = "closed"
    /\ dir.made
    /\ dir' = Empty
    /\ UNCHANGED <<versions, keyset, fetch_vars, build>>

----------------------------------------------------------------------------
(* RawDir::open, one file at a time.                                       *)

\* The build goes on with `b`, or stops if what it read does not match.
Checked(matches, b) ==
    /\ build' = IF matches THEN b ELSE Closed
    /\ UNCHANGED <<versions, keyset, dir, fetch_vars>>

OpenRecord ==
    /\ build.pc = "closed"
    /\ Checked(dir.fetch_json \notin {NoFile, Torn},
               [pc |-> "metadata", record |-> dir.fetch_json, next |-> 1])

OpenMetadata ==
    /\ build.pc = "metadata"
    /\ Checked(dir.metadata = build.record.metadata,
               [build EXCEPT !.pc = "pages"])

\* Mutant of OpenPage: pages are not checked against fetch.json.
OpenPage_Unchecked ==
    /\ build.pc = "pages"
    /\ build.next <= Len(build.record.pages)
    /\ Checked(dir.pages[build.next] \notin {NoFile, Torn},
               [build EXCEPT !.next = @ + 1,
                             !.record.pages[build.next] = dir.pages[build.next]])

OpenPage ==
    /\ build.pc = "pages"
    /\ build.next <= Len(build.record.pages)
    /\ Checked(dir.pages[build.next] = build.record.pages[build.next],
               [build EXCEPT !.next = @ + 1])

Opened ==
    /\ build.pc = "pages"
    /\ build.next > Len(build.record.pages)
    /\ Checked(TRUE, [build EXCEPT !.pc = "open"])

Close ==
    /\ build.pc = "open"
    /\ Checked(TRUE, Closed)

----------------------------------------------------------------------------
Step(p) ==
    \/ CreateDirs(p) \/ FetchMetadata(p) \/ FetchPage(p) \/ FinishFetch(p)
    \/ Transient(p) \/ Fatal(p)

Next ==
    \/ Change \/ RemoveDir
    \/ \E p \in Fetcher : Begin(p) \/ Step(p) \/ Crash(p)
    \/ OpenRecord \/ OpenMetadata \/ OpenPage \/ Opened \/ Close

\* A request ends within its timeout, one way or the other.
Fairness == \A p \in Fetcher : WF_vars(Step(p))

Spec == Init /\ [][Next]_vars

FairSpec == Spec /\ Fairness

----------------------------------------------------------------------------
\* rowsUpdatedAt is NoFile for a source without it.
Record == [pages : Seq(SUBSET Ids), metadata : 1 .. MaxChanges + 1,
           start : 1 .. MaxChanges + 1 \cup {NoFile},
           end : 1 .. MaxChanges + 1 \cup {NoFile}]

\* Type correctness of the portal, the directory and both kinds of process.
TypeOK ==
    /\ versions \in Seq(SUBSET Ids) /\ UpdatedAt \in 1 .. MaxChanges + 1
    /\ dir.made \in BOOLEAN
    /\ dir.metadata \in 1 .. MaxChanges + 1 \cup {NoFile, Torn}
    /\ \A i \in 1 .. MaxPages :
          dir.pages[i] \in {NoFile, Torn} \/ dir.pages[i] \subseteq Ids
    /\ dir.fetch_json \in {NoFile, Torn} \/ dir.fetch_json \in Record
    /\ \A p \in Fetcher :
          /\ pc[p] \in {"idle", "create", "metadata", "page", "finish",
                        "stopped", "done"}
          /\ attempt[p] \in 1 .. MaxAttempts
          /\ last_id[p] \in Ids \cup {0}
          /\ pages[p] \in Seq(SUBSET Ids) /\ Len(pages[p]) <= MaxPages
          /\ present[p] \subseteq Ids
    /\ build.pc \in {"closed", "metadata", "pages", "open"}

Fetched(ps) == UNION Range(ps)

\* While it pages, a fetch has every row up to the last id that was in scope
\* since it began, and in the end every one: changes elsewhere, retries and
\* restarts skip none ("Offset paging can skip or repeat rows when the
\* dataset is updated between pages", socrata.rs).
NothingSkipped ==
    keyset => \A p \in Fetcher :
        /\ pc[p] = "page" =>
              {r \in present[p] : r <= last_id[p]} \subseteq Fetched(pages[p])
        /\ pc[p] \in {"finish", "done"} => present[p] \subseteq Fetched(pages[p])

\* ... and repeat none: no row is on two pages of a fetch.
NothingRepeated ==
    keyset => \A p \in Fetcher : \A i, j \in DOMAIN pages[p] :
        i # j => pages[p][i] \cap pages[p][j] = {}

\* If rowsUpdatedAt is known, and the same before and after, the fetch is the
\* dataset as it was at that time, not a mix of two states (FetchRecord).
QuietFetchIsExact ==
    keyset => \A f \in finished :
        (f.record.start # NoFile /\ f.record.start = f.record.end) =>
            Fetched(f.record.pages) = versions[f.record.start]

\* What a build opens is one finished fetch, whole, whoever else wrote to
\* the directory or died doing so (RawDir::open).
OpenedIsOneFetch ==
    build.pc = "open" => \E f \in finished : f.record = build.record

\* A fetch ends, finished or not, even if the portal ignores where a page is
\* to start.
FetchEnds ==
    \A p \in Fetcher : pc[p] = "create" ~> pc[p] \in {"stopped", "done"}
=============================================================================
