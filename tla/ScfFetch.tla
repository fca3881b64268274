------------------------------ MODULE ScfFetch ------------------------------
(***************************************************************************)
(* Fetching a dataset from either source: `fetch` takes `--source`          *)
(* (receipts-snapshot/src/main.rs) and asks Socrata (RawFetch) or           *)
(* SeeClickFix (seeclickfix.rs) for it.  Both write the raw directory that  *)
(* RawDir::open reads.                                                     *)
(*                                                                         *)
(* SeeClickFix is asked for its requests by page number, the oldest first,  *)
(* so a request that comes or goes moves those after it to another page.    *)
(* A request is its id, its place in that order; the organization it is     *)
(* with may change.  The flat records of the requests of the towns become   *)
(* the raw pages after the last response.                                   *)
(***************************************************************************)
EXTENDS RawFetch, SequencesExt

CONSTANTS
    RecordsPerPage,   \* RECORDS_PER_PAGE, of a raw page
    Outside           \* requests that are with no town at first

ASSUME ScfAssumption ==
    RecordsPerPage \in Nat \ {0} /\ Outside \subseteq Ids

VARIABLES
    source,     \* --source
    outside,    \* requests whose organization is no town now
    scf         \* of each fetch from SeeClickFix, its state

scf_vars == <<outside, scf>>
all_vars == <<vars, source, scf_vars>>

\* page: the number asked for next; responses: what came under source/;
\* written: raw pages written; present and removals: history, the requests in
\* scope since the fetch began and how many went meanwhile.
Fresh(state, now) ==
    [pc |-> state, attempt |-> 1, page |-> 1, responses |-> << >>, seen |-> {},
     kept |-> {}, skipped |-> 0, duplicates |-> 0, started |-> UpdatedAt,
     written |-> 0, present |-> now, removals |-> 0]

InitFetch ==
    /\ Init
    /\ source \in {"nyc311", "westchester"}
    /\ outside = Outside
    /\ scf = [p \in Fetcher |-> Fresh("idle", {})]

\* One fetch moves on; what the directory holds is said apart.
Becomes(p, s) ==
    /\ scf' = [scf EXCEPT ![p] = s]
    /\ UNCHANGED <<versions, keyset, fetch_vars, build, source, outside>>

----------------------------------------------------------------------------
(* SeeClickFix.                                                            *)

\* Requests come and go as Socrata's rows do.
ScfChange ==
    /\ Change
    /\ scf' = [p \in Fetcher |->
                  [scf[p] EXCEPT !.present = @ \cap Rows',
                                 !.removals = @ + Cardinality(Rows \ Rows')]]
    /\ UNCHANGED <<source, outside>>

\* A request is handed to an organization that is no town, or back.
Reassign(r) ==
    /\ UpdatedAt <= MaxChanges
    /\ versions' = Append(versions, Rows)
    /\ outside' = IF r \in outside THEN outside \ {r} ELSE outside \cup {r}
    /\ UNCHANGED <<keyset, dir, fetch_vars, build, source, scf>>

Before(r, rows) == Cardinality({q \in rows : q < r})

\* The i-th of the pages of `size` that `rows` fill in order.
Chunk(rows, i, size) ==
    {r \in rows : Before(r, rows) \in size * (i - 1) .. size * i - 1}

\* A server that does not heed `page` gives the first one every time.
Asked(page) == IF keyset THEN page ELSE 1

\* metadata.pagination.next_page is there while there is more.
NextPage(page) == Cardinality(Rows) > PageSize * Asked(page)

----------------------------------------------------------------------------
(* seeclickfix::fetch.                                                     *)

ScfBegin(p) ==
    /\ scf[p].pc \in {"idle", "stopped", "done"}
    /\ starts < MaxStarts
    /\ starts' = starts + 1
    /\ scf' = [scf EXCEPT ![p].pc = IF dir.made THEN "stopped" ELSE "create"]
    /\ UNCHANGED <<versions, keyset, dir, pc, attempt, last_id, pages, started,
                   present, finished, build, source, outside>>

ScfCreateDirs(p) ==
    /\ scf[p].pc = "create"
    /\ dir' = [dir EXCEPT !.made = TRUE]
    /\ Becomes(p, Fresh("page", Rows))

\* Mutant of Take: only a request that is kept is noted as seen.
Take_SeenWhenKept(s, answer) ==
    LET fresh == answer \ s.seen
    IN  [s EXCEPT !.seen = @ \cup (fresh \ outside),
                  !.kept = @ \cup (fresh \ outside),
                  !.skipped = @ + Cardinality(fresh \cap outside),
                  !.duplicates = @ + Cardinality(answer \cap s.seen)]

\* The requests of one response: the ones seen before are only counted, and
\* so are those `flatten` finds to be of no town.
Take(s, answer) ==
    LET fresh == answer \ s.seen
    IN  [s EXCEPT !.seen = @ \cup fresh,
                  !.kept = @ \cup (fresh \ outside),
                  !.skipped = @ + Cardinality(fresh \cap outside),
                  !.duplicates = @ + Cardinality(answer \cap s.seen)]

\* Mutant of ScfPage: no guard against paging that never ends; at the bound it
\* is left there.
ScfPage_Unguarded(p) ==
    LET s == scf[p]
        answer == Chunk(Rows, Asked(s.page), PageSize)
        more == NextPage(s.page) /\ answer # {}
        taken == [Take(s, answer) EXCEPT !.responses = Append(@, answer),
                                         !.attempt = 1]
    IN  /\ s.pc = "page" /\ s.page <= MaxPages
        /\ UNCHANGED dir
        /\ IF more THEN Becomes(p, [taken EXCEPT !.page = @ + 1])
           ELSE Becomes(p, [taken EXCEPT !.pc = "write"])

\* A page was asked for and answered, or there are more pages than can be.
ScfPage(p) ==
    LET s == scf[p]
        answer == Chunk(Rows, Asked(s.page), PageSize)
        more == NextPage(s.page) /\ answer # {}
        taken == [Take(s, answer) EXCEPT !.responses = Append(@, answer),
                                         !.attempt = 1]
    IN  /\ s.pc = "page"
        /\ UNCHANGED dir
        /\ IF s.page > MaxPages THEN Becomes(p, [s EXCEPT !.pc = "stopped"])
           ELSE IF more THEN Becomes(p, [taken EXCEPT !.page = @ + 1])
           ELSE Becomes(p, [taken EXCEPT !.pc = "write"])

\* The records kept, in raw pages.
RawPages(s) ==
    LET n == (Cardinality(s.kept) + RecordsPerPage - 1) \div RecordsPerPage
    IN  [i \in 1 .. n |-> Chunk(s.kept, i, RecordsPerPage)]

\* The next raw page; without any the fetch fails.
ScfWritePage(p) ==
    LET s == scf[p]
        i == s.written + 1
    IN  /\ s.pc = "write"
        /\ IF s.kept = {}
           THEN Becomes(p, [s EXCEPT !.pc = "stopped"]) /\ UNCHANGED dir
           ELSE /\ dir' = [dir EXCEPT !.pages[i] = RawPages(s)[i]]
                /\ Becomes(p, [s EXCEPT !.written = i,
                                        !.pc = IF i = Len(RawPages(s))
                                               THEN "describe" ELSE @])

\* metadata.json, made up for the time the fetch began, and source.json.
ScfDescribe(p) ==
    /\ scf[p].pc = "describe"
    /\ dir' = [dir EXCEPT !.metadata = scf[p].started]
    /\ Becomes(p, [scf[p] EXCEPT !.pc = "finish"])

\* fetch.json last.  SeeClickFix has no rowsUpdatedAt.
ScfFinish(p) ==
    LET record == [pages |-> RawPages(scf[p]), metadata |-> scf[p].started,
                   start |-> NoFile, end |-> NoFile]
    IN  /\ scf[p].pc = "finish"
        /\ dir' = [dir EXCEPT !.fetch_json = record]
        /\ finished' = finished \cup {[record |-> record,
                                       present |-> scf[p].present]}
        /\ scf' = [scf EXCEPT ![p].pc = "done"]
        /\ UNCHANGED <<versions, keyset, pc, attempt, last_id, pages, started,
                       starts, present, build, source, outside>>

\* Mutant of ScfTransient: the page number moves on with every attempt.
ScfTransient_NextPage(p) ==
    LET s == scf[p]
    IN  /\ s.pc = "page" /\ s.page <= MaxPages
        /\ UNCHANGED dir
        /\ Becomes(p, IF s.attempt < MaxAttempts
                      THEN [s EXCEPT !.attempt = @ + 1, !.page = @ + 1]
                      ELSE [s EXCEPT !.pc = "stopped"])

\* get_with_retry: a 403 or 429, a 5xx or a network error, until there were
\* max_attempts of them.
ScfTransient(p) ==
    LET s == scf[p]
    IN  /\ s.pc = "page" /\ s.page <= MaxPages
        /\ UNCHANGED dir
        /\ Becomes(p, IF s.attempt < MaxAttempts
                      THEN [s EXCEPT !.attempt = @ + 1]
                      ELSE [s EXCEPT !.pc = "stopped"])

\* Any other status, or a body that is not what it should be.
ScfFatal(p) ==
    /\ scf[p].pc = "page" /\ scf[p].page <= MaxPages
    /\ UNCHANGED dir
    /\ Becomes(p, [scf[p] EXCEPT !.pc = "stopped"])

ScfInterrupted(p) ==
    CASE scf[p].pc = "write" ->
            [dir EXCEPT !.pages[scf[p].written + 1] = Torn]
      [] scf[p].pc = "describe" -> [dir EXCEPT !.metadata = Torn]
      [] scf[p].pc = "finish" -> [dir EXCEPT !.fetch_json = Torn]
      [] OTHER -> dir

ScfCrash(p) ==
    /\ scf[p].pc \in {"create", "page", "write", "describe", "finish"}
    /\ dir' \in {dir, ScfInterrupted(p)}
    /\ Becomes(p, [scf[p] EXCEPT !.pc = "stopped"])

----------------------------------------------------------------------------
ScfStep(p) ==
    \/ ScfCreateDirs(p) \/ ScfPage(p) \/ ScfWritePage(p) \/ ScfDescribe(p)
    \/ ScfFinish(p) \/ ScfTransient(p) \/ ScfFatal(p)

FromSocrata == source = "nyc311" /\ Next /\ UNCHANGED <<source, scf_vars>>

FromScf ==
    /\ source = "westchester"
    /\ \/ ScfChange
       \/ \E r \in Rows : Reassign(r)
       \/ \E p \in Fetcher : ScfBegin(p) \/ ScfStep(p) \/ ScfCrash(p)
       \/ /\ \/ OpenRecord \/ OpenMetadata \/ OpenPage \/ Opened \/ Close
             \/ /\ \A p \in Fetcher : scf[p].pc \in {"idle", "stopped", "done"}
                /\ RemoveDir
          /\ UNCHANGED <<source, scf_vars>>

NextFetch == FromSocrata \/ FromScf

\* A request ends within its timeout, whichever server it is for.
FetchFairness ==
    \A p \in Fetcher :
        /\ WF_all_vars(source = "nyc311" /\ Step(p) /\ UNCHANGED <<source, scf_vars>>)
        /\ WF_all_vars(source = "westchester" /\ ScfStep(p))

FetchSpec == InitFetch /\ [][NextFetch]_all_vars /\ FetchFairness

----------------------------------------------------------------------------
Paged(p) == scf[p].pc \in {"write", "describe", "finish", "done"}

\* Paging by number loses at most as many requests as went while it ran, of
\* those that were there throughout: requests that come, however old, lose
\* none ("later requests can't shift the pages", seeclickfix.rs).
LosesAtMostRemovals ==
    keyset => \A p \in Fetcher : Paged(p) =>
        Cardinality(scf[p].present \ scf[p].seen) <= scf[p].removals

\* How many requests the responses hold, repeated ones included.
Answered(responses) ==
    SumFunction([i \in DOMAIN responses |-> Cardinality(responses[i])])

\* source.json accounts for every request of every response once: kept, left
\* out for its organization, or counted as a duplicate; and a request is
\* never both kept and left out, whoever it was handed to meanwhile.
SourceAccountsForAll ==
    \A p \in Fetcher : Paged(p) =>
        LET s == scf[p]
        IN  /\ Answered(s.responses) = Cardinality(s.kept) + s.skipped + s.duplicates
            /\ Cardinality(UNION Range(s.responses)) =
                   Cardinality(s.kept) + s.skipped

\* A fetch from SeeClickFix ends, finished or not, even if the server gives
\* the same page for every number.
ScfFetchEnds ==
    \A p \in Fetcher : scf[p].pc = "create" ~> scf[p].pc \in {"stopped", "done"}
=============================================================================
