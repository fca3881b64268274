# Verification of receipts-engine

TLA+ models of receipts-engine, the TLC configurations that check them and the
TLAPS proofs about them. Paths below are relative to `src/`. `PROJECT.json`
names, for every definition that models code, the lines it models; for every
property, a mutated definition that breaks it; and every place in the code that
is hard to test, with the properties that cover it.

- [What the system is](#what-the-system-is)
- [What is modelled](#what-is-modelled)
- [Runs](#runs)
- [Fairness](#fairness)
- [Proofs](#proofs)
- [Where code and documentation disagree](#where-code-and-documentation-disagree)
- [What is not modelled](#what-is-not-modelled)
- [What could be added](#what-could-be-added)

To check: `tlc -workers 2 -config X.cfg MCModule` for a run, `tlapm M_proofs.tla`
for a proof module.

## What the system is

The system answers questions about a public dataset of complaints ("half of the
noise complaints in the Bronx were closed within 3 hours") and can account for
every number: which source rows it was computed from, what became of one row,
and what the number would be without some rows.

| Part | State | Operations | What is hard |
|---|---|---|---|
| Fetching (`receipts-snapshot/src/socrata.rs`) | a raw directory: metadata, pages, `fetch.json` | page by page by row id, retries, schema check | the portal changes meanwhile, requests fail, the process dies, two fetches share a directory |
| Raw directory (`raw.rs`) | - | `RawDir::open` checks sizes, digests, counts | whatever a fetch left behind |
| Fetching, SeeClickFix (`seeclickfix.rs`) | the same, and the verbatim responses | page by page number, retries, split by town | requests that come or go shift the pages |
| Cleaning (`clean.rs`, `rules.rs`) | staged columns, log and rejects by staging position | `stage` each record, `finish` | the result must not depend on fetch order; positions are renumbered at the end |
| Building (`assemble.rs`, `arrow_io.rs`) | a temporary and a final directory | write four files, rename | a crash anywhere, builds that overlap |
| Verifying (`verify.rs`, `receipts-wasm/src/verify.rs`) | - | re-derive every hash | pure |
| Plans (`receipts-plan`) | - | parse, validate, hash, describe | what validation infers must be what the executor makes |
| Execution (`receipts-exec`) | a table and a row mapping per step | scan, filter, map, project, aggregate, sort, limit; run again from a step | order of rows and groups, overflow, exclusions |
| Lineage (`receipts-lineage`) | row mappings, an LRU of traces under a mutex, an inverse array per step in a `OnceLock` | `backward`, `backward_row`, `forward` | threads between the two lock regions, lazily built inverses |
| Counterfactuals (`receipts-cf`) | - | `exclude`, `contributions` | recomputing only some groups must equal recomputing all |
| Engine (`receipts-wasm/src/engine.rs`) | snapshots, live executions by id | load, run, exclude, trace, contributions, drop | chains of exclusions, dropped handles |
| Pages (`web/site`) | the question, the complaint, the menus, the list, the address bar | event handlers, loading an address | menus, address bar and answer must agree |
| `receipts-core` | - | bitmaps, columns, hashing, the Arrow reader | pure |

A fetch leaves a raw directory, which a build opens, cleans and writes as a
snapshot directory. A page downloads that, the engine verifies and loads it, and
the page then calls the engine: `run` compiles a plan and executes it, which
yields a table and a `StepLineage` per step; the steps form a `LineageStore`.
`trace_back`, `trace_forward` and `contributions` ask the store; `exclude` asks
it which groups to recompute and builds a new execution from the old one. Calls
of one engine are synchronous, but a store is `Sync` and the threaded build
shares it between workers.

What makes each part correct:

- **Fetching**: paged by id, every row that was there all along is in exactly one
  page; paged by number, no more are lost than went meanwhile. A directory that
  opens holds the pages of one completed fetch; a fetch ends.
- **Cleaning**: a snapshot is a function of the set of records; every record is
  in it or among the rejects, once; the log says how to get back to the source.
- **Building**: what has a final name is whole and stays as it is; a crash stops
  no later build.
- **Plans**: what validation lets through is a chain and runs, and every table fits
  the schema that was inferred for it.
- **Expressions, sorting, grouping**: the fast ways (dictionary codes, candidate
  lists, unsigned words, flat tables of ids) give what the plain ones give.
- **Execution, counterfactuals**: an excluded execution equals a run over a
  snapshot without the rows, in its tables, its traces and its failures.
- **Lineage**: a trace is the transitive closure of the row mappings, whoever
  asks and whatever is cached; forward is the converse of backward.
- **Engine**: a handle always means the same execution; an exclusion of an
  exclusion excludes both.
- **Pages**: everything on a page is of one question, and its address opens it again.

## What is modelled

### StepLineage: the row mappings

`StepLineage.tla` holds the four kinds of `StepLineage` (`Identity`, `Select`,
`Group`, `Source`/`SourceSubset`), `step_back`, the inverse arrays and one step
of `forward`. It has no variables: the modules below build on it. `Inputs` may be
any forest of steps, which is what `LineageStore::new` accepts. Two assumptions
are named: `StoreAssumption`, the assertions of `new`, and `SelectAssumption`,
that a selection names no input row twice, which the executor guarantees and
`forward` silently relies on.

### TraceCache: `backward_row` and its LRU

One action per atomic piece of `backward_row`: `Ask`, `Hit` or `Miss` (the first
lock region), `Start`, `Walk` and `WalkScan` (`backward`'s loop, no lock held, one
step of the plan each), `Insert` (the second lock region) and `Return`;
`RangePanic` is the assertion on the row. `entries` and `clock` are `Lru`'s
fields.

Two abstract specifications say what it promises. `TraceService.tla` answers each
call with the whole trace of its row, without a cache; `ImplementsService` is the
refinement. `LruOrder.tla` is a list of keys in the order of use
and the calls threads are about to make of it, so that a hit counts as one;
`ImplementsLruOrder` maps the stamped map to it.

### ForwardTrace: `forward` and the lazy inverses

`Climb` walks from the step to the scan, `Turn` starts there, `Up` goes one step
towards the output with the inverse it needs. A `OnceLock` is a `cell` that is
empty, building or built: `BeginBuild` claims it, other threads wait, `FinishBuild`
wakes them.

### Exec, Counterfactual, Engine

`Exec.tla` defines what every operator makes of a table: its rows, their order
and the row mapping; `Execute`, `RerunFrom` and `AggregateSubset` are the entry
points of `receipts-exec`. A plan is a chain of steps, which is what validation
leaves of it. A row carries `v`, the list of what it was computed from in order of
computation, so anything an aggregate computes in row order, a decimal sum
included, differs whenever two `v` differ. Integers are bounded by `MaxInt`, and a
sum that leaves the range fails as `checked_add` does.

`Counterfactual.tla` is `receipts-cf`: `Exclude` with its three methods (nothing
to do, recompute the affected groups and splice them in, run again) and
`Contributions` with its incremental formulas for counts, sums, extremes, medians
and percentiles. `Engine.tla` keeps executions under ids; its actions are the calls
that change the session (`LoadSnapshot`, `Run`, `ExcludeRows`, `DropExecution`) and
`AskContributions`, which may panic; `ForwardAnswer` is `trace_forward`. `wanted` is
a history variable: the rows each execution must do without, from which the
properties derive what it must equal.

### RawFetch, ScfFetch

`RawFetch.tla` is a fetch from Socrata and the raw directory. The portal is a
sequence of `versions` of its rows, and `keyset` says whether it honours
`:id > last`. A fetcher asks for metadata, pages and metadata again; any request may
fail transiently (it is repeated, up to `max_attempts` times) or for good. Writing a
file is a step that a crash can leave `Torn`. A build opens the directory file by
file while fetches go on.

`ScfFetch.tla` extends it with the other source that `--source` may name. A request
of SeeClickFix is its place in the order the portal pages by; it may come or go
(`ScfChange`) or be handed to another organization (`Reassign`). `ScfPage` is one
round of the loop, `Take` what it does with the requests of an answer. After the
last page the kept records are written as raw pages (`ScfWritePage`) with
`fetch.json` last. `scf[p].present` and `.removals` are history variables: the
requests in scope since the fetch began, and how many went. Both sources write to
the same directory and the same `RawDir::open` reads it, so the run and the proofs
are about both. `keyset = FALSE` is a server that ignores the id or the page number.

### Clean

`Stage` takes any record not read yet: pages come in every order. `Finish` is
`Staging::finish` as a whole: duplicates, scope, row order, dictionary, renumbering
of log and rejects. Records range over every rule. `Fingerprint` stands for the
BLAKE3 of a record, which decides between copies. `CleanAssumption` says what a record
is (its fields hold scalars, texts or one of the ways not to be a value) and that two
records do not share a fingerprint.

### SnapshotBuild

`build_with` as file system calls, one action each. Directories and files have an
identity apart from their names, since that is what decides the outcome when two
builds meet: an open file stays the file it was when its directory is renamed, and
`remove_dir_all` unlinks what is in the directory it opened. `Verifies` is
`verify.rs` seen from here: four whole files of one build.

A crash is the death of a process. Loss of power is not modelled; nothing is
synced before the rename, so it could publish a directory with empty files.

### Page

A handler of the pages runs to its end before the next one, so each action of
`Page.tla` is a whole handler, built from operators that take the page and give the
page after it, one per function of `app.js`. The state is what the person and the
address bar see: the question, the menus, the ZIP box, the complaint being checked
and what is said of it, the comparison, the list and how much of it is shown. What
a page says is kept as what it is about: an answer is the question it answers, a
verdict the complaint, the question and the step that left it out. `SubmitZip` is
Enter in the ZIP box, whose form has no action and no named field: the page is
loaded again without a query. `Reload` opens the address in the bar, and `Init` any
address, malformed ones included. `PageAssumption` asks that each site has a
complaint with a type, since its menu of types starts at one.

### Plans: PlanShape, PlanTypes, SortKeys, Evaluate, Grouping, PlanRun

- `PlanShape.tla`: what `validate` asks of the shape of a plan, with the backward
  pass as the set of marks it leaves.
- `PlanTypes.tla`: schemas, the types of expressions and aggregates, and
  `node_schema` with all its refusals. Expressions are a set `Exprs` of trees, each
  with a depth above those of its parts (`ExprAssumption`); what is computed from the
  parts, a type here, is a recursive function on that set, of which `TypeStep` is one
  step. So are values (`EvalStep`), meanings and direct selections below.
- `SortKeys.tla`: `sort_permutation`, by words where every key column can be encoded
  and by comparators otherwise. `Half` stands for 2^63; a decimal is its bit pattern.
- `Evaluate.tla`: `eval.rs`. Datums are columns or constants; comparisons with text
  literals go through positions in the sorted dictionary; `FastSelection` is the way by
  shrinking candidate lists, `Selection` the way by whole columns. An `expect` or
  `unreachable!` is a datum of its own, `Panic`.
- `Grouping.tla`: ids of groups by column and combined, their order, and the
  aggregate functions with overflow and nearest rank.
- `PlanRun.tla`: a plan is written step by step (`AddStep`), validated as a whole
  (`Validate`) and run one step at a time (`RunStep`), each table being compared with
  its inferred schema as `run` does. `Meaning` is what an expression should come to,
  row by row and with exact numbers, as a reference.

The data is what the program can hold: `SnapshotsAssumption` says that a snapshot a
plan may scan is as its catalog entry says, with sorted dictionaries and fewer rows
than numbers go, `LiteralAssumption` that a literal is one of its type. A literal may be
an infinite decimal, which `type_of` refuses; the values of an `in`, which it does not
look at, are finite, as all that JSON can write. `MagnitudesAssumption` orders the
decimals, 2^63 and half of the largest among them, and `CalendarAssumption` puts every
time in a month and in a year.

`Exec` and these modules model the same executor for different questions: `Exec`
follows rows and their order through steps, lineage and exclusions, with one mapped
column; `PlanRun` follows types, missing values and numbers through every expression
and function.

Integers and decimals are small: `Half = 8` gives four bits, and a decimal has one of
eight magnitudes (0, 0.5, 1, 1.5, 2, 4, 8 and infinity) to which results are
rounded, ties to the even one. The mean of integers is rounded once, where the code
converts their sum and divides. The sign of a zero that an operation yields is left
out; both zeros are among the values of the snapshot. A text is its rank among all
texts.

### Helpers

`Ranking.tla`: sets put in order (the executor's and the cleaner's sorts).
`NaturalSets.tla`: facts about finite sets of numbers, orders of them and the listings
in those orders, sums over them, lists, and values made one from another, that the
proofs use. The
`MC*` modules give the constants their values.

## Runs

| Run | Instance | Shows |
|---|---|---|
| `TraceCache` | 7 steps, 2 scans, 2 threads of 2 calls, capacity 2, 4 keys | `CacheCoherent`, `AnswersCorrect`; the refinements `ImplementsService` and `ImplementsLruOrder`; every call returns |
| `ForwardTrace` | 7 steps, 2 threads, 6 questions | `InversesSound`, `ForwardInvertsBackward`; every call returns |
| `Counterfactuals` | 10 plans, 7 row sets, 2 runs at once, 3 ids, chains of exclusions | exclusions equal full runs, traces agree, stops are explained, failures agree, contributions equal single-row exclusions, handles are stable |
| `Fetch` | both sources, 2 fetchers, 2 starts, pages of 2, 2 attempts, 1 change, 3 pages | by id nothing is skipped or repeated and a quiet fetch is exact; by number no more is lost than went, and `source.json` accounts for all; an opened directory is one fetch; fetches end |
| `Clean` | 12 records in 5 selections, pages of 2 and 4, every order | the snapshot is a function of the records, each is counted once, the log explains each change |
| `SnapshotBuild` | 2 builds of one content, 2 attempts each, crashes | published is whole, ended is published, published keeps its place |
| `PlanRun` | plans of up to 3 steps over 8 columns and 4 rows, every expression form, operator and function | valid plans run and are chains, selections are what conditions mean, encoded sorts agree, groups are keys |
| `Page` | both sites, 6 complaints of 3 types, 3 requests of 2 towns, menu of 2 types, list of 2 by pages of 1 | the address opens the page, everything is of one question, verdicts are of the answer above |
| `SumContributions`, `PanickedCall`, `OverlappingBuilds`, `PageUntyped` | as above | a documented property that does not hold, see [below](#where-code-and-documentation-disagree) |

Why the bounds are enough:

- **Lineage.** The seven steps have every kind of mapping, a group without rows, a
  scan without one row, a row past the end, and two scans. Two threads with four
  keys and two entries fill the cache, evict between another thread's miss and its
  insert, and insert a key twice. A third thread adds no new pair of lock regions.
  The safety properties are proved for every size.
- **Counterfactuals.** The ten plans take each branch of `incremental_shape` and of
  `contributions`; row sets empty a group, touch none, exceed the table and remove
  everything. The snapshot has ties, a missing value and a negative one. Two
  exclusions in a chain are as many as the engine distinguishes: the third again
  hangs off the run.
  A second run and three ids let a run be dropped while its counterfactual lives, and
  an id be asked for again. The properties are proved for every size.
- **Fetch.** Three to four rows by twos make a full page, a partial one and, with
  four, an empty one. One change can hit before, between and after pages: by id a
  page depends on the last id alone, and by number one removal or arrival already
  moves a request over the seam. `MaxPages` is `MAX_PAGES` of SeeClickFix, three
  instead of 20,000, so the bound itself is met. What one change shows for
  `LosesAtMostRemovals` the proof shows for any number.
- **Clean.** The selections put each pair of rules that interact in one input: a
  copy outside the scope that conflicts with one inside, a record fetched twice, an
  unusable field in a record with and without a key. More rows of a kind do not
  meet other rules.
- **SnapshotBuild.** Each build runs twice, so a crash is followed by both a retry
  and another's build. Builds of different content share no path, and the proof has any
  number of them.

- **PlanRun.** Three steps are a scan, a step and one that meets what that step made.
  The rows hold both zeros, the smallest integer, the largest decimals and a missing
  value per nullable column; conditions compare every pair of column types, and texts
  that a dictionary has or lacks. Four bits are enough for each branch of
  `cmp_i64_f64` and each overflow; the word order is proved for every width. Another
  snapshot has the same columns and no rows, a third a name twice, which is refused.
- **Page.** A type outside the menu, a complaint in a district, in a borough but a
  code that is no district's, and in neither; each way to be left out of the count;
  numbers of no complaint and texts that are no number. A list of two by pages of one
  has a "more" to press. The records of `Page` all have a type; `PageUntyped` adds one
  that has none.

Each configuration but those of the pages says `CHECK_DEADLOCK FALSE`, because a bounded
environment stops: the calls, fetches, ids, steps or attempts are used up. That no
thread is stuck is what `CallsReturn`, `FetchEnds` and `ScfFetchEnds` say. A page can
always be reloaded.

## Fairness

- `TraceCache`, `ForwardTrace`: weak fairness of each thread's steps once it was
  called. A thread that is runnable is scheduled, and neither the mutex nor a
  `OnceLock` is held across anything that waits; no thread is required to make a
  call.
- `Fetch`: weak fairness of each fetcher's own steps, from either source. Requests
  time out, so each is answered or fails; the portal's changes, failures and crashes
  are not fair.

The other runs check safety only.

## Proofs

| Module | States | For any | Assumptions |
|---|---|---|---|
| `StepLineage_proofs`, `TraceCache_proofs`, `ForwardTrace_proofs` | every safety property of `TraceCache` and `ForwardTrace`, both refinements included | forest of steps, threads, capacity, calls | `StoreAssumption`, `SelectAssumption`, `CacheAssumption`, `QuestionAssumption` |
| `Engine_proofs` | every property of `Counterfactuals` | snapshot, valid plans, row sets, sessions | `ExecAssumption`, `EngineAssumption` |
| `Fetch_proofs` | every safety property of `Fetch` | fetchers, ids, page size, changes, starts, pages | `RawFetchAssumption`, `ScfAssumption` |
| `Snapshot_proofs` | every property of `Clean` and `SnapshotBuild` | records, page sizes, orders of arrival; builds, hashes, attempts | `CleanAssumption`, `SnapshotBuildAssumption` |
| `PlanPage_proofs` | every property of `PlanRun` and `Page` | plans, expressions, snapshots, width of a word, decimals; complaints, menus, addresses | `WordAssumption`, `ExprAssumption`, `MagnitudesAssumption`, `LiteralAssumption`, `CalendarAssumption`, `PlanRunAssumption`, `SnapshotsAssumption`; `PageAssumption`, `AreaAssumption` |

So every safety property that a passing run checks is also a theorem.

TLC evaluates each assumption in the runs. `NaturalSets` holds the facts about finite
sets of numbers, their orders and listings, lists, and counting by maps, that several of
these rest on.

### Traces

- **Backward.** The invariant of
  `TraceCache` is `TypeInv` (type correctness, and that a walking thread's rows are
  rows of the step it is at: without that the range checks could fail half way)
  and `TraceInv`: a thread that has come down to step `n` with rows `R` is on its
  way, that is, the rows of the scan it has yet to find are those under `R`. At the
  scan this becomes the whole trace, which `Insert` puts in the cache; so
  `CacheCoherent` and `AnswersCorrect` follow, and `RefinesService` with them. Both say
  of a trace that it is one of its key (`IsTrace`), which determines it: the chain from
  a step to its scan is determined by the step, and the rows by the chain
  (`TraceUnique`). So a key that is asked for twice is answered the same, also if its
  entry was evicted in between.
- **The LRU.** `LruInv`: stamps are distinct and at most the clock, and there are
  at most `Capacity` entries. The bound alone is not inductive: that an eviction
  removes exactly one entry needs distinct stamps. With it the refinement of
  `LruOrder` holds too (`RefinesLruOrder`): `ByUse` lists the keys by falling stamps,
  a listing is determined by its order (`ListsUnique`), and a key stamped anew comes
  before every other (`Restamped`), so the list after a hit or an insert is the one
  before without that key, or without its last (`OldestIsLast`), and the key in front.
- **Forward.** `IInv` of `ForwardTrace`: every array built is the inverse of its
  step, the path collected so far is the chain from the step up, and the rows
  carried up at step `n` are exactly those whose trace meets the question.
  `StepForwardConverse` is the one-step lemma.

### Sessions

`ExecAssumption` says that snapshots are finite tables of numbers, `EngineAssumption`
that plans are chains of steps with arguments of their types (what validation lets
through, see `ValidPlansChain`), that row sets are sets of row numbers, and that
`NoExclusion` is none of them. Recursive functions that end in an execution are
reasoned about through what they satisfy (`IsRun`, `IsRerun`, `IsBehind`, `IsFlow`),
step after step by ordinary induction on the number of the step.

- **Excluding is running without.** `ExcludeIsFullRun` goes through the three methods.
  `Kept(b, rows, i)` are the rows of step `i` of the run `b` that are made of none of
  `rows`; `Shows` says that step `i` of another execution has just these rows, in
  the same order and made of the same snapshot rows. Below the aggregate every step
  keeps rows apart and in order, so the full run shows what was kept, and the rows that
  `forward` finds are the others. At the aggregate, a group none of whose members
  goes is recomputed to what it was; the others are aggregated from their survivors; and
  `Interleaved` puts the rows back in the order of the keys, because a kept group has
  as many groups before it in the splice as among the keys left. Above it both
  executions run the same steps on the same table (`SameOutcomes`). The order of
  survivors matters throughout, as `v` records it.
- **Any chain.** `EngineInvariant`: what an id names (`IsLive`) is what `Exclude` makes
  of the *run* of its plan without all of its rows, and its base, if it was not dropped,
  is a run of the same plan without an exclusion (`BaseIsRun`). That is what makes an
  exclusion of an exclusion right: the code starts from the run again, with the union
  of the rows. `CounterfactualsHold` and `ExclusionsFailAlikeHolds` follow, and
  `HandlesAreStable` with `next_id` above every id.
- **Traces of spliced executions.** `TracesAlwaysAgree`: every step of a kept
  execution maps rows into the table below it (`IsStepOn`), whether it was executed or
  spliced, and a row carried up meets an output row exactly if that row's trace has it.
  For `StopsAreAlwaysExplained`, only filters and limits drop rows of a table, and a
  selection that drops a row of a filter has found the condition false of it.
- **Contributions.** `ContributionsMatch` compares the formulas with the run they stand
  for. Sums are added in any order (`SumsAdd`, `TotalIsSum`), so taking a number off a
  total is summing the rest; the sorted numbers without one are the listing that
  skips its rank (`SortedWithout`), whence medians, percentiles and extremes; and the
  full run without the row has the group without that member, or not at all
  (`FullAggregate`, `GroupWithout`). `KeptWithout` needs that each row of the aggregate's
  input is made of exactly one snapshot row (`OneBehind`).

### Fetches

- **The directory.** `Inv` has three parts. `Types`. `Sound(p)`, of each fetcher from
  Socrata: while it pages, its pages share no row, hold rows up to its last id only,
  and among them every row present throughout up to there; after the last page, every
  row present throughout. That the row ids are positive is what makes the first page
  start before all of them, and `GreatestElement` and `GreatestBelow` of `NaturalSets`
  give the last id of a page. `Records`: a whole `fetch.json`, and the record a build
  works with, are what one fetch finished with, its pages listed by digest. The build
  compares each file with it, so that a page another fetch wrote over is refused, and
  `OpenedIsOneFetch` follows whoever writes what meanwhile.
- **By number.** `ScfInv` adds that nobody asks the other source, that a fetcher
  that writes has a raw page left to write unless it kept nothing, and `FewLost`: of the
  requests that were there throughout, those whose place is on a page asked for already
  and which were not answered are at most as many as went. A removal moves one request
  at most over the seam (`FirstWhenRemoved`), an arrival none (`FirstWhenAdded`), and an
  answer closes exactly the gap to the next page (`ChunkIsNext`); after the last page
  every place was asked for, so the bound is about all. The number of requests answered
  alone is not inductive: what matters is on which side of the seam those missed are.
- **Counting.** `ScfAccountsForAll` rests on `Counted`: the requests seen are those
  of all responses, as many as were kept and skipped, and the responses have as many
  entries as were kept, skipped or seen before. A page adds as many entries as it has
  requests (`AnsweredMore`), each of them new or seen, so the count survives any
  overlap of pages.

### Cleaning

`CleanInv` holds after every record read. `PagesInv`: each source row is on one place of
one page or still to be read. `StagingInv`: the staged rows, the log and the rejects are
what the rules make of the records read so far, the ids of texts are those of the
dictionary, and no record read stops the build; once one does, nothing else is staged.
The last page ends in `Finish`, so the properties follow from what it computes.

- **Order does not matter.** `CleaningIsOfRecords`. Of each key one row is kept, the one
  least in fingerprint, whatever came first (`KeptOne`), so the kept rows are a
  function of the set of records (`SnapshotIs`). Sorting them by key has one result
  (`OrdersAgree`, from `ListsUnique`: a set of numbers has one ascending listing), and a
  dictionary is the ascending listing of the texts in use (`DictionaryAgrees`), so the
  numbers that texts get do not depend on the order either. Rejects are counted by
  rule, and a copy dropped in one order is the same record as the copy dropped in
  another (`RejectedCounts`). The build stops exactly if a record that was fetched has a
  key and a field that is no scalar, wherever it comes (`StopsStep`).
- **Counting.** `CleaningCountsAll`. Each record read of a key is a row of the snapshot
  or one reject; rejects are a bag, since equal records are rejected alike, and
  `CountFibres` adds up the records behind each of its elements.
- **The log.** `CleaningIsLogged`. A staged field has at most one entry of the log, by
  the rule that changed it (`OneRule`); renumbering takes the entry along with its row
  and leaves out those of dropped rows (`LogOfRow`).

### Builds

The invariant of `SnapshotBuild` says more of the hashes that two builds never worked
on at once (`Alone`) than of the others. For those, each build's directory holds the
files it has written so far, whole and by nobody else (`Progress`), and nothing has the
final name until the rename; so what has a final name verifies (`PublishedIsWhole`) and
a build that ended is published (`BuildsEndPublished`). What is written goes to a
directory and not to a name, so two parts hold of every hash, overlapped or not: a
directory has one name at most (`OneName`), and one that a build opened has, if any, a
name of that build's hash (`OpenedOwn`). They keep builds of other content out.
`PlacesAreKept`, an action property, holds of overlapping builds too: only `rename`
moves a final name, and it fails onto a directory that holds files.

### Plans

- **The invariant.** `PlanInv`: the steps are steps a plan can have, and none has
  failed but by an overflow (`ShapeInv`); a plan that was let through is of the shape
  `validate` asks for, its schemas being what `node_schema` infers (`Validated`); and
  there is a table for each step run, each a `GoodTable` of its inferred schema
  (`Ran`): of the schema's length, names and types, every column with as many cells,
  values of its type, a sorted dictionary that has its codes, and nothing missing where
  nothing can be. That last part is what a step needs of the one it reads, and more
  than the check in `run` looks at. `ValidPlansRun` alone says nothing of the tables
  before the output, so it is not inductive.
- **Chains.** `WellShapedIsChained` shows that a plan of any length that `validate` lets
  through is one chain: going down from the last step, each is marked only by the next,
  since every step reads at most one. `Exec` and `Counterfactual` take plans to be
  chains on this ground.
- **Expressions.** `ExprInduction` is ordinary induction on depths, so that what
  `TypeStep`, `EvalStep`, `MeaningStep` and `SelectStep` do of the parts is enough.
  `EvalFits`: an expression that has a type comes to values of that type, present
  where it says so, or to an integer that does not fit, and never to a panic.
  `EvalMeans`: unless it does not fit, it is in every row what it means. The hard part
  is order (`OrderAtExact`): `cmp_i64_f64` against 2^63 and the truncated decimal,
  and the insertion point of a text that a dictionary lacks, both give the order of the
  exact values.
- **Filters.** `SelectsMean`: what `fast_covers` accepts, and nothing else, is found
  directly, among any candidates, and what is found is where it is true. A conjunction
  narrows the candidates from conjunct to conjunct, which is Kleene's `and` since one
  that is covered is true, false or missing (`CoveredTruth`); a literal on the left
  changes sides with its operator (`DirectMeans`).
- **Sorting.** `WordsSortLikeValues` shows that sorting words gives the stable order of
  the values, for any width, number of keys and rows: `WordsInOrder` goes through the
  types and directions, missing values first or last included, and the one column that
  has no encoding (`i64::MIN` among its values, and some missing) takes the
  comparators.
- **Groups.** The ids of one column tell its values apart, with a place of its own for
  a missing one; combining the ids of two lists into one number (`SlotTellsApart`) and
  numbering what occurs in the order of first rows keeps that, for any number of keys.
  Ordering the groups by their first rows orders them by their keys, since rows of one
  group are equal in all of them.

### Pages

`PageInv` is one invariant for all three properties. `Asks`: the question is of a type
and an area that the site knows, so that its address is not refused. `Menus` and
`Counts` are `OneQuestion`, with the ZIP box: while it is shown the menu says "a ZIP
code". `Linked`: the address is written from the question, and a complaint it names is
one that the question belongs to, since opening it moves to that question. That holds of
the address even while the page has forgotten the complaint (`ChooseZip`), which is why
`AddressOpensThePage` alone is not inductive. `Right` is `VerdictIsOfAnswer` and holds
if every complaint has a type (`EachTyped`): `PageUntyped` is what happens otherwise.
The lemmas say what each operator on a page sets and what it leaves alone
(`AnswerFields`, `SetAreaFields`, `LookUpInv`, `LoadCityInv`). `VerdictRight` is why a
complaint is never said to be elsewhere: the question looked up is its own, so only the
steps about dates can drop it. `CommonType` finds the type a page starts with.

### Model-checked only

Liveness (`CallsReturn`, `FetchEnds`, `ScfFetchEnds`), which the prover does not do.

## Where code and documentation disagree

1. **A contribution that does not fit is called exact** (`SumContributions`).
   `contributions` shows a missing value for a sum that overflows without one row
   and says `exact: true`; excluding that row fails. `receipts-cf/src/lib.rs:228` and
   `docs/engine/counterfactuals.md:67` say that exact contributions equal the
   exclusion.
2. **A row that does not exist panics** (`PanickedCall`). `contributions` passes its
   row to `backward_row`, which asserts; `trace_back` returns an error for the same
   argument. `receipts-wasm/src/lib.rs:5` says errors become exceptions with a
   message.
3. **Overlapping builds can empty a published snapshot** (`OverlappingBuilds`). Two
   builds of one content share `.tmp-<hash>`. The second starts to clear it, the
   first renames it to its final name, and the second goes on unlinking the files in
   it. `docs/snapshot/schema.md:6` calls a snapshot immutable.
4. **A complaint without a type cannot be checked** (`PageUntyped`). `lookUp` shows its
   box, then names the type of the complaint, which throws if it is missing, as
   `docs/snapshot/schema.md:76` lets it be. What the box last said stands there again,
   under the answer to another question. `web/site/app.js:147` says that checking
   finds the complaint, switches to its question and says where it stands.

The model shows one more thing that nothing in the code or its documents
contradicts: choosing "a ZIP code" without typing one forgets the complaint on the
page and not in the address, so a copied link still opens it.
`AddressOpensThePage` asks for the complaint only when the page has one.

And one that the documents leave open. A record without a valid key is rejected before
its other fields are read, so an array in one of them goes unnoticed, whereas in a record
with a key it stops the build. `docs/snapshot/cleaning-rules.md:44` (CR-01) has every
such record stop it; the order of evaluation further up begins with the key. The model
does what the code does, and `StopsAsFetched`, a part of `CleanedIsSnapshot`, says it.

## What is not modelled

- Hash functions, canonical JSON, the Arrow encoding and its reader: pure functions
  over bytes. A digest is what it digests, so collisions are out of scope.
- The bits of 64-bit numbers, and rounding of decimals other than to a few magnitudes.
  Bitmaps: a value is there or `Missing`. The calendar: the first days of months and
  years are given. `interleave` of columns with different dictionaries.
- Node hashes of plans.
- Truncating a timestamp close to `i64::MIN` overflows in `trunc`; the model wraps, as a
  release build does, and no property is about it.
- JSON parsing and the sentences that describe steps.
- In `Exec` and the modules on it a filter or a map does not fail: an integer of its
  expression that does not fit is in `PlanRun` only, and `ExclusionsFailAlike` speaks of
  failures at the aggregate. The size up to which group ids index a table rather than
  a hash map is left out: both give the same ids.
- Means, decimal sums (documented as inexact) and extremes of texts in
  `contributions`; `heap_bytes`.
- Cleaning rules CR-10 and CR-11, which only count.
- `receipts-circuit` is a placeholder; benchmarks, the oracle, scripts and CI are
  tooling.
- The second reading of the raw pages by `clean.rs`, after `open` has checked them: a
  file that changes in between is cleaned as it then is.
- The synthetic data, the command line's wording, the manifest's fields.
- Loading and verifying a snapshot in the browser; the pages' sentences and layout.
  Executions are dropped in the handler that runs them and have no state in `Page`.

## What could be added

1. `Exec`: that every selection of the executor is injective, which discharges
   `SelectAssumption` for the stores it makes.
2. A build whose raw directory changes between `open` and the second read.
