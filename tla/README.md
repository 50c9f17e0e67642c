# molmcp: TLA+ models, checks and proofs

This directory holds TLA+ models of `molmcp`, a Python server that gives agents
tools over the Model Context Protocol: discovery (a code index of configured
sources), molexp (adoption of data directories into workspaces), molvis (live
viewer sessions) and molq (jobs). Paths below are relative to `src/molmcp/`.

## 1. Inventory

| Component | State it keeps | Operations | What is hard | Model |
|---|---|---|---|---|
| molexp adoption (`providers/molexp/adopt/runner.py`, `transfer.py`, `ledger.py`) | source and target directories, the ledger `.molexp-migration.json`, append-only metrics buffers | `adopt` (copy or move), resumed from the ledger | crashes between two files on disk, resumes with another plan, faults in a copy, non-idempotent ingest | `Adoption`, `Custody` |
| survey and plan (`survey.py`, `plan.py`) | none | classify a tree, propose a plan | pure | partly in `Adoption` (`Surveyed`) |
| molvis journal (`providers/molvis/session.py`, `Journal`) | a ring of events and a cursor counter under a lock | `append` (viewer thread), `poll` (tool call) | eviction between polls, boundary of `truncated`, lost responses, reopened ids | `Journal`, `Feed` |
| molvis registry (`SessionStore`) | sessions by id, ids being opened | `open`, `get`, `list`, `close` | build and close outside the lock, failing stages | `Sessions` |
| molvis kernel (`execute_code`) | process-global `sys.stdout` | `exec` | overlapping calls | not modelled |
| discovery index (`discovery/engine.py`, `extract.py`, `cache/`, `source/local.py`, `walk.py`) | extraction table, snapshot directories (graph and manifest), refs; shared by processes | `index`, `refresh`, `evict`, `cache --gc` | several processes, crashes, non-atomic files, sources edited while read | `IndexCache` |
| discovery watcher (`cache/watch.py`) | last snapshot, stop event, thread | start, stop, loop | stop's join timeout against a running refresh; convergence | `Collection` |
| github source (`source/github.py`) | the directory of a commit and its marker, inside the snapshot's directory, shared by processes | resolve; evict and collect remove it | processes that die in a download or a removal; two of them at a time | `Downloads` |
| resolver, overlays, Python analyzer (`discovery/resolve.py`, `overlay/`, `analyzers/python.py`) | none but the graph under construction | extract, resolve, annotate, merge | calls by name, relative imports, duplicate definitions, parts that raise | `Linking` |
| other analyzers (`analyzers/rust.py`, `typescript.py`, `markdown.py`) | none | parse a file to nodes and edges | nested items, methods of several implementations, fences and headings | `Parsers`, `Markdown` |
| queries and ranking (`discovery/query.py`, `ranking.py`) | none | search, callers, neighbours, impact, conventions | cycles, limits, what a guessed edge is worth | `Queries` |
| collection (`collection/index.py`, `server.py`'s lifespan) | watchers, flags, one engine | start, close, search, open | close against running calls and refreshes; failing sources; stale text | `Collection` |
| exploration (`collection/index.py`) | none | fuse the channels, describe, pack into a budget | ties, failing channels, sizes that count themselves | `Explore` |
| pages, scope, guide (`mcp_provider.py`, `source_scope.py`, `collection/browse.py`, `guide.py`) | the scope, read at start-up | info, packages, outline, open, search, suggest, compose | prefixes of names, aliases, references with a snapshot in them | `Pages` |
| molexp tools (`providers/molexp/provider.py`, `scaffold.py`) | workspaces on disk | materialize, add project, experiment and run, ingest_metrics | nesting, several servers, converters that raise | `Workspace` |
| molq (`providers/molq/provider.py`) | handles of the job store; the store and the scheduler are external | submit, get, list, queue, logs, cancel, destinations | failures between open and close, a submitor rebuilt from a record, logs of a job that ends | `Jobs` |
| settings (`settings.py`) | JSON files in layers | load, set, add, remove | an editor that dies, lost updates, layers that combine | `Settings` |
| lint, middleware, cli, environment, helpers, capabilities | start-up registries | routing, printing, probes | almost none | not modelled |

How they interact: a tool call of the server runs a provider method on a worker
thread. The molvis provider owns one `SessionStore`; each of its sessions owns a
`Journal` that the viewer's websocket thread appends to, and a namespace in which
`execute_code` runs. The collection owns one engine per source set; engines of all
server processes share one cache directory, with SQLite's locks and `os.replace`
as their only coordination. An adoption is one synchronous tool call that talks
to the file system and to molexp; what it shares with the next one is the ledger.

A source becomes an answer along one way: a spec is resolved (`Downloads` for
github, a walk for a local one), its files are extracted and cached
(`IndexCache`, `Parsers`, `Markdown`), linked into a graph (`Linking`), asked (`Queries`) by the
collection (`Collection`), ranked and packed (`Explore`) and put on pages (`Pages`).

## 2. Modules

Every component has one module with its properties and, where something is
proved, a `_proofs` module. `AdoptionMC`, `JournalMC`, `SessionsMC`,
`IndexCacheMC` and `CollectionMC` are the small instances of one module each.
The parts that share no state at run time are put together in two modules, which have no
RECURSIVE operator and so can be proved about: `Execution` (jobs, workspace, settings)
and `Knowledge` (downloads, cache, explore, graph, document and pages). `ExecutionMC` and
`KnowledgeMC` give their constants small values; `KnowledgeMC` adds the part `files`, whose
module `Parsers` is recursive. A variable `part`, chosen
initially out of `Explored`, says of which part a behaviour is, the variables of the
others keep the value `off`, and each property is the one of the same name in the
part's module, asked when `part` is that part. It is a disjoint sum and says nothing of
an interaction of two parts. The two modules also fix what their parts are promised for: one
process with one source for the cache, one download or removal of a commit at a time, one
editor of a settings file at a time, and calls that name no workspace. `Subsequences` has the one operator
that `Explore`, `Workspace`, `Settings`, `Linking` and `Queries` share, the elements of a
sequence that are in a set: the provers know nothing of `SelectSeq`.

### `Adoption` (and `Custody`)

One call at a time. `pc` is the place in `run_adoption`: `Begin` (preconditions,
plan, materialize), `OpenLedger` (merge and first write), then per file of
`Order` one of `SkipEntry`, `Vanished`, `Reuse`, `Refuse`, `MakeLink`/`LinkDone`,
`StartCopy`/`FinishCopy`/`CopyFault`, `Mismatch`, `Raises` (any OSError around the
copy, that of the times copied or of the unlink too), `Verified`, with `Checkpoint`
writing the ledger when `FlushDue`; `EndTransfer`, per run of `RunOrder`
`SkipIngest` or `Ingest`/`JournalIngest`, `EndIngest` and `Finish` (`_verify`, last write). `led` is the ledger in memory and
`disk` the file: a ledger write is atomic (`os.replace`). `Crash` is possible
between any two steps and drops everything but the disk. `Edit` is the user who
writes or deletes source files, `MoveAside` the one who clears a refused
destination. Contents stand for hashes; equal contents are equal hashes. `Begin`'s
guards are the refusals (`check_preconditions`, a ledger of another mode).
Abstracted: a flat set of runs (the naming of projects and experiments is
formatting), molexp's create-or-get (a set of slots) and its converters (the
set of logs they read), `verify_present`'s size (a file is there or not).

`Custody` is the promise: each file is in the source, in both places, in the
target or deleted by the user, and leaves the source only from "both" and only in a move.
`ImplementsCustody` refines it with `place`, whose value "lost" no abstract
state has.

### `Journal` (and `Feed`)

`events` is the deque, `next` its counter; `Arrive` is `append`, `Poll` is
`poll` with one of `Limits`. A poll is atomic because the lock covers it. Agents hold `since`;
`Deliver` hands them the page, `Lose` drops it. `Reopen` replaces the journal by
an empty one, as closing and opening the session does. `seen`, `told` and `log`
are history. `Feed` is the promise: an agent's cursor only advances over an event by reading
it or by being warned.

### `Sessions`

Threads run `open` (`Claim`, `Build` or `BuildFails`, `Subscribe` or
`SubscribeFails`, `Register`, `Release`) and `close` (`Lookup`, `CloseStage` or
`CloseFails`, `Drop`). Each step is one critical section or one call into the
stage. Stages are numbered as they are built; `live` are those not closed,
`leaked` those that the code loses by a raise it does not clean up after
(`_subscribe`, or the stage's own `close`).

### `IndexCache`

Processes run `index` and `refresh` on local specs. A snapshot id is a digest of
all paths and hashes, so it *is* the function from files to contents (`Snaps`).
`Walk` takes one, `Check` and `Load` serve it from the cache, and otherwise each
file is `Reuse`d from the extraction table, `Analyze`d (read again, at a later
time than the walk) or found unreadable (`CannotRead`); rows a process has
inserted are uncommitted (`puts`) until `Flush`, and a second writer that runs
into the lock raises (`Locked`). Persisting is `Publish` (atomic), the manifest
and the ref in two steps each (truncate, write), then `Scan` and `Remove` (evict, one file
at a time). `Gc` is `molmcp cache --gc`. `Crash` can strike between any two.
Abstracted: names of files are fixed and each has some content, time is one tick
per persist, what an analyzer extracts is the content it read, overlays and the
resolver are pure functions of that. `mkdir` of a directory that is being removed
is not split into system calls.

### `Downloads`

Processes run `resolve_github` on one commit: `Start` (the ref), `Resolve` (the
marker and what it names), `Remove` and `RemoveDirs` (`rmtree`, which ignores
errors), `MakeDir`, `Fetch`, per file `Open` (truncate) and `Write`, `FindRoot`,
`Mark`, `Walk`. `Collect` is any of the four places that remove a snapshot
(`snapshotcache.py:214`, `264`, `281`, `290`): the commit's directory lies in it, and goes
file by file, by the same `Remove`, `RemoveRoot` and `RemoveDirs`. `open` says which file a process has open under its name, so that
what is written to a removed file goes with it. `RequestFails` and `Crash` may come
between any two. Abstracted: one directory of files, one listing per `rmtree`.

### `Linking` and `Queries`

`source` is a small program, a sequence of statements per file: `Analyze` takes the files in
order (`AnalyzeFails` is an analyzer that raises), `ResolveRef` takes the
references one by one through the code's order of attempts (imports, module
attributes, instances, names), `Annotate` adds test and example edges, `ApplyOverlay`
links the catalog, `Merge` keeps the last node of each id. `Queries` extends it
with one action per query on the stored graph. What full-text search matches is
an input; scores are integers scaled so that no tie of the code's floats is lost.

### `Parsers` and `Markdown`

One action per language, a function of a file's items or lines: nodes,
containment and references. Tree-sitter is external: a Rust or TypeScript file is its tree of
items, and what walks it is RECURSIVE, so that nothing is proved about `Parsers`. A document of
`Markdown` is its lines, each of one of six kinds and with or without a newline at its end:
`LineCount` counts the newlines, as the code does (`markdown.py:80`), while the lines are those of
`splitlines`. The members of a Rust implementation are named by what `TypeName` leaves of its
type, without references and arguments. `Scanned` is the scan's loop over them, as a
recursive function, with the headings and blocks it has found and the line it goes on with.

### `Collection`

One server process: `Start`, `StartWatcher`, `Serve` and the steps of `close`
(`BeginClose`, `SetStop`, `Join`, `CloseEngine`); per local source the watcher
(`Notice`, `Stat`, `ReadFiles`, `Refreshed`, `RefreshFails`, `Exit`); tool calls that open
the sources one by one (`OpenQuery`, `OpenFails`, `Rank`, `Card`, `Return`) and those that open a reference (`OpenRef`,
`ReadText`). `Edit` is the user. A snapshot is what a walk read; the engine's
connection to the extraction cache opens on use, as the code's does.

### `Explore` and `Pages`

`Explore` is search and explore: channels in order, any of which may fail, `Fuse`
(reciprocal ranks, in integer parts of `Unit`, a multiple of every rank's denominator),
`Describe` or `DescribeRaises`, the packing into the budget and the shedding of what does not fit. Items are model values with sizes. `Pages`
has the tools of the molcrafts plane, with names as sequences of pieces so that
prefix, part and alias mean what they mean in the code; a reference is exact
(with a snapshot), short, or of the registry. An answer has what it lists (entries,
pages, symbols) and all that it names, for the freshness, coverage, warnings and hints beside
the lists are those of every source, whatever the scope (`index.py:315`, `mcp_provider.py:262`).

### `Jobs`

Calls of the molq tools: `Begin` (refusals), `Lookup`, `OpenSubmitor` or `OpenFails`,
the operation, `Raises` (anything external may), `Close`, `Return`. `records` is
molq's store, `live` and `log` what the scheduler knows and the job wrote. A request may name any
cluster beside any profile, as `submit_job` allows (`provider.py:668`). `Shadowed` are the targets
that a profile gives and a record without its profile does not: a cluster with the
name of an SSH host.

### `Workspace`

Servers, any number of them at a time, materialize workspaces in two steps (look, make), add projects,
experiments and runs (create or get), and ingest the runs of a workspace one by one.
Paths are sequences of names; a remote place begins with a host.

### `Settings`

Editors run a command in three steps (read and change, truncate, write) and may
die in between. `given` is the history of what finished commands asked, as facts
(key, member, value), from which `LoadsWhatWasSet` says what a load must give.

## 3. Runs

`pass` runs:

| Run | Question | Bounds and why they are enough |
|---|---|---|
| `adopt_safe` | does an adoption keep, place, record and never overwrite the bytes | 3 files (log, data, symlink) in 2 runs, `FlushEvery` 2 so that a flush falls inside and after the loop, one crash, two faults, one edit, both modes, an edited plan and a derived one: every pair of a crash and a resume with other arguments occurs |
| `adopt_live` | does re-running settle everything | both modes, an occupied destination, two crashes, one fault |
| `journal_ring` | does a poller miss, repeat or get wrongly warned of events, and does it catch up | a ring of 2 and 5 events: evictions happen three times over; limits 0, 1 and more than the ring; two lost pages, one reopening. One poller: a poll changes nothing that another one reads |
| `sessions_registry` | one live and closable stage per id, every claim given back | 3 threads, 2 ids, 4 stages, 2 faults: a close, a reopen and a third call overlap |
| `index_shared` | are published and served graphs true | 2 processes, 1 file with 2 contents, `Keep` 1, 3 persists, one edit, one crash, one unreadable file and a gc |
| `collection_serve` | does the collection catch up with edits, close, and show the text of its references | a watched and an unwatched source, 2 files, 1 caller, 2 edits, 1 failure: an edit during a refresh and a failed one both occur |
| `knowledge` | the way from a source to an answer, part by part | below |
| `execution` | the parts that act, part by part | below |

The two composite runs, and what their parts' bounds let happen:

| Part | Instance |
|---|---|
| `downloads` | 1 process at a time of 2, 2 files, a failed request, a removal of the snapshot, crashes at any step (in a removal once the marker is gone) and a resolve after them |
| `cache` | 1 process, 2 files, `Keep` 1 and an age limit, edits also during a call, one crash, one unreadable file |
| `files` | every Rust file of two implementations (of two types with and without an argument or a reference, and up to two traits) and one other item, every TypeScript file of two statements |
| `document` | every Markdown file of at most four lines out of eight, and of at most three of which some end in another separator or in none |
| `graph` | 4 files that define and import one name twice, with all, none, or all but one of six optional statements, one analyzer or overlay that raises, and every query on the result |
| `explore` | a registry and two sources that find up to 2 results each (`Unit` = 61 * 62), 5 items of different sizes, a budget that not even the empty pack fits and one for a few items (where a pack's own size gets a digit more), failing channels and details |
| `pages` | 3 sources (two of a family, one named by its distribution), 4 scopes, names and references in and out of scope, a name that begins another, a budget that fits no page and one that cuts the last, a reindexing |
| `jobs` | 2 calls, 1 job, local and remote, 2 clusters of which one has the name of an SSH host, a profile for each, every cluster beside every profile, one failure at any point, logs that grow while they are read, with and without a tail |
| `workspace` | 2 servers with a working directory each, no workspace, one or a remote one in the settings, paths nested three deep and a remote one, runs that fail to ingest |
| `settings` | 2 layers, a dict, a list and a scalar, two values each, every verb, one crash |

The counters `MaxCrashes`, `MaxFaults`, `MaxEdits`, `MaxEvents`, `MaxLosses`,
`MaxReopens`, `MaxOpens`, `MaxPersists`, `MaxGcs`, `MaxServes`, `MaxResolves`, `MaxRemovals`,
`MaxSnaps`, `MaxLines` and `MaxErrors` bound the runs, not the code.
Deadlock is not checked where the bounds end the history, or where a part is over
(every run but `journal_ring`). Symmetry is used over the processes of `index_shared`,
which has no liveness property. The operators with names such as `FlushLate`,
`AnyDestination` or `NotReadBack`, each next to the definition it varies, are
plausible bugs used to test that the properties notice them.

`violation` runs, each a disagreement between the code and what its text says
(`PROJECT.json`, "findings", quotes the lines):

| Run | What the code does |
|---|---|
| `adopt_ingest_twice` | a run is ingested twice, by calls with, without and again with ingest |
| `sessions_two_closers` | a late second close unregisters a session opened in between |
| `scope_open` | with a scope set, `open` refuses exact references in scope and `compose` opens those out of it |
| `run_dir` | a run directory given to `ingest_metrics` is taken for a workspace; nothing is ingested and nothing said |

The passing runs and the theorems make assumptions about the environment. Each is
a constant or a named operator, and changing it in a `.cfg` shows why it is needed:

| Assumption | Changed | What TLC then finds |
|---|---|---|
| `LiveSource = FALSE` in `Adoption`: the source stands still during a call | `TRUE`, move mode | `UnlinkOnlyCopied` fails: the destination is compared with the bytes written and never with `expected` (`transfer.py:121`) |
| `NoPartialNames` in `AdoptionMC` | dropped: `AdoptionMC_partial_name.cfg` | `NeverOverwrites` fails: a planned file called `<other>.partial` is overwritten (`transfer.py:107`; `transfer.py:80` says 'this never overwrites') |
| (none: a claim of the text) | `AdoptionMC_unrecorded_crash.cfg` | `UnlinkedOnRecord` fails: after a crash before a flush the ledger does not say which files were unlinked (`runner.py:470`, `:439`; `transfer.py:9`) |
| `KeepCursors = FALSE`: an agent starts over when its session is reopened | `TRUE` | `NoSilentLoss` fails: old cursors skip new events, `truncated` stays false |
| `SerialClose = TRUE`: an id is not closed twice at a time | run `sessions_two_closers` | as above |
| `LiveSource = FALSE` in `IndexCache` | `TRUE`: `IndexCacheMC_live.cfg` | `GraphTrue` fails: a file edited between walk and extraction is cached under its old hash (`extract.py:54`; `extractcache.py:3`) |
| one spec in the part `cache` | two specs with equal contents | `RefsKept` fails: they share a snapshot directory and evict for each other (`snapshotcache.py:289`) |
| one process there | two | `NeverFails` and `RefsKept` fail: eviction between check and load (`engine.py:117`), before the ref (`engine.py:324`) or a lock timeout |
| `SerialResolve = TRUE` in `Downloads`: a commit is resolved or removed by one process at a time | `FALSE` | `WholeCommit` fails: one removes what the other walks (`github.py:111`), and a partial tree is kept under the commit's id |
| `AtomicMarker = TRUE`: no process dies inside the write of the marker | `FALSE` | `WholeCommit` fails: the path of an empty marker is the working directory, which exists and is taken for the commit (`github.py:107`) |
| `RemoverDies = FALSE` in `Downloads`: no process dies in an eviction or collection while the marker is still there | `TRUE`: `KnowledgeMC_half_removed.cfg` | `WholeCommit` fails, for one process: the marker is left beside part of the tree, which is taken for the commit (`snapshotcache.py:264`, `github.py:106`) |
| `SerialEdits = TRUE` in `Settings` | `FALSE` | `LoadsWhatWasSet` fails: of two editors one update is lost (`settings.py:200`) |
| `JoinWaits`, `Drains`, `MaxServes = 1` in `Collection` | `FALSE`, `FALSE`, 2 | `ClosedIsClosed` fails: a refresh or a call opens the connection again after close (`index.py:120`, `watch.py:47`); a collection is served once |
| `Quiet = TRUE` in `Collection` | `FALSE` | `PageOfRef` fails: the text is read after the file was checked (`index.py:769`) |
| (none: a claim of the text) | `ExecutionMC_two_makers.cfg` | `NotNested` fails: each server looks before the other makes (`scaffold.py:76`; `scaffold.py:33` refuses to nest) |
| `~Shadowed` in `CancelReaches` and `LogsAreLast` of `Jobs` | `CancelReachesAll`: `ExecutionMC_cancel.cfg` | the cancel of a job that a profile sent to a cluster with the name of an SSH host goes to the host: the record has no profile (`provider.py:372`); the record says cancelled and the job runs on |
| `ShortNames = FALSE` in `KnowledgeMC`, `WholeNames` of `ScopeKeptAlways`: agents name sources by whole names | `TRUE`: `KnowledgeMC_short.cfg` | `ScopeKept` fails: with the scope molpy a call about `mol` is let through (`source_scope.py:92`) and `mol` is taken for molpack (`guide.py:158`); `source_scope.py:10` says an argument 'can never widen past it' |
| `Namesakes = FALSE` in `KnowledgeMC`: no file imports two modules of one name | `TRUE`: `KnowledgeMC_namesakes.cfg` | `CallsMeant` fails: of two imported modules called `b` that have an `f`, `b.f()` is linked to the first one's, which Python no longer means, and is marked resolved (`resolve.py:222`); `resolve.py:142` says 'multiple candidates remain a guess' |
| `NewlinesOnly` in `LinesOnce` of `Markdown`: every line but the last ends with a newline | `AllLinesOnce`: `KnowledgeMC_claims.cfg` | a file with a form feed or another separator of `splitlines` has more lines than newlines, and the last ones are in no section (`markdown.py:79`) |
| `~Twins` in `ImplsApart` of `Parsers`: no two implementations of one trait are for types that differ in references or arguments only | `AllImplsApart`: `KnowledgeMC_claims.cfg` | of `impl S<f32>` and `impl S<f64>` the methods of one name are one node (`rust.py:104`, `:377`, `:404`) |
| `LetThrough` in `ScopeKept` of `Pages` (a source whose name begins one of the scope), and lists only | `ScopeHidesOthers`: `KnowledgeMC_claims.cfg` | a scoped answer names every source in its freshness, coverage, configuration or warnings (`mcp_provider.py:88`, `:122`, `:262`; `:104` says 'only those packages appear', `source_scope.py:4`) |
| (none: a claim of the text) | `KnowledgeMC_claims.cfg` | `PackFits` fails: a pack that fits but for the digits of `used_chars` is over its budget by them, and an empty pack whose envelope alone is longer is over it (`index.py:948`; `index.py:211` says bounded, `tests/collection/test_collection.py:354` asserts it) |
| (none: a claim of the text) | `KnowledgeMC_relative.cfg` | `RelativeImportsLinked` fails: `from . import b` is stored as `..b` (`analyzers/python.py:248`; `docs/concepts/discovery.md:34`) |

A `.cfg` that no run of `PROJECT.json` names is one of these variants. `KnowledgeMC_claims.cfg` has
four properties, each of which fails: TLC stops at one, and shows the next when that one is left out. The type
invariants, and some properties that are weaker than, or proved next to, those of the runs
(`JournaledIngestKept`, `IngestAfterTransfer`, `CursorsInOrder`, `NoRepeats`,
`NeverReplaced`, `Bounded`), are defined in their modules and can be named in a `.cfg`.

Two limits of `cache --gc` that `Gc` models are deliberately no property: a manifest
torn by a crash keeps its directory for ever (`snapshotcache.py:255` looks for the name only), and
the grace period is measured on a directory whose age a re-persist does not
change (`snapshotcache.py:260`). Likewise a run's ingest that found a log missing stays done
(`runner.py:287`), an ingest that crashed before its entry was written is repeated
(`runner.py:499`), and a second move that re-surveys the emptied source forgets what the first one moved
(`ledger.py:212`).

Found while modelling, and no property either, for want of a text that says what is
meant: a watcher sees edits and removals but not new files (`watch.py:60`); a store is not closed when the submitor's factory raises
(`molq/provider.py:365`, the counter `dropped`); `get_job` may raise after a job was submitted, so
that an agent may submit twice (`:678`); a tail of 0 returns all lines (`:155`);
`list_runs` with limit 0 returns one row (`molexp/provider.py:224`); `add_project` with
a path does not look for an enclosing workspace (`scaffold.py:131`), nor does
anything for a remote one (`scaffold.py:45`).

## 4. Fairness

Liveness is checked with weak fairness of a call's own steps (`Adoption!Step`,
`Sessions!Step`): it is ordinary synchronous code on a thread of the operating
system, and a factory, a stage or a copy returns or raises. In the journal, an
agent keeps asking for events (strong fairness of a poll with a positive limit,
since a poll for none may be under way whenever it would ask) and its answers are delivered (weak);
arrivals and losses are not fair. In the collection the
server's lifespan, each watcher thread and each call go on (weak fairness of `StartWatcher`
to `CloseEngine`, `WatchStep` and `CallStep`); edits, failures, calls and shutdown are not fair. `RerunSpec` adds that the operator keeps
re-running (weak) and follows the advice of a refusal (strong, since a
destination may be free and refused again). No property relies on fairness of crashes,
faults or edits.

## 5. Proofs

TLAPS proves the following for all values of the constants under the named
assumptions of each module.

- `Adoption_proofs`. `TypeCorrect` holds without further assumption. Under
  `Quiet == NoPartialNames /\ ~LiveSource`: `NothingLostAlways`,
  `LedgerTruthAlways`, `OkMeansSettledAlways`, `NeverOverwritesAlways`, `UnlinkOnlyCopiedAlways`,
  `CustodyImplemented`. The safety properties are not inductive: a copy in flight
  knows something about `written`, the destination and the source at every `pc`,
  so the invariants `CustodyInv` (what each place of the copy says of source and
  destination; every hash in the ledger in memory or on disk is the destination's) and
  `ReleasedInv` (an unlinked source's bytes are at its destination) are added to `TypeInv`, and preserved
  action by action. The action properties and the refinement follow from one step
  under these invariants. Without `Quiet`, and with `OrderAssumption` (`Order` is that of all
  files): `IngestAfterTransferAlways` and `JournaledIngestKeptAlways`, from `IngestInv`: a call that has
  opened its ledger has an entry for each planned file, has settled those it passed or
  has a problem to report, and what the ledger on disk says of an ingested run the one in
  memory says too.
- `Journal_proofs`. Under `StartOver == ~KeepCursors`: `CursorsInOrderAlways`,
  `NoSilentLossAlways`, `NoRepeatsAlways`, `TruncatedIsLossAlways`,
  `FeedImplemented`. The key lemma is that the ring holds the last cursors
  before `next` without a gap, so the k-th record's cursor is known and a
  slice is an interval.
- `Sessions_proofs`. Under `SerialClose`: `NoOrphansAlways`, `OneStagePerIdAlways`,
  `NeverReplacedAlways`. The invariant says who holds each live stage: the
  registry, or a call whose claim is in `opening`.
- `IndexCache_proofs`. Under `Still == ~LiveSource`, for any number of processes,
  specs, files and contents: `GraphTrueAlways` and `ServedTrueAlways`. The
  invariant adds that committed and uncommitted extraction rows, and every graph
  under construction, hold what their hash says. Under `Alone` (one process, one spec, no
  gc) and `MarksApart`, with a source that changes at any time and a process that dies at any
  step: `NeverFailsAlways` and `RefsKeptAlways`. The invariant (`AloneInv`) says what each place of
  a call may count on: the graph it has checked or published is there, its manifest has the
  youngest time stamp, and what it removes is not its snapshot. Without any of these
  hypotheses: `TypeCorrect`, where the clock keeps to its bound because each call under way has a
  tick left for it, and `BoundedAlways`. The limit itself is not inductive, since a manifest is
  there before its call scans, and a call that has scanned still has files to remove. `EvictInv`
  has: no two manifests, written or about to be, have one time stamp (so that how many are newer
  tells snapshots apart, and a scan leaves at most `Keep`); and, whichever set of
  the calls that are removing should die now, one of the others, or none of them, leaves at most
  `Keep` plus those that died, those of that set and those that have yet to scan. The call that
  scanned last is the witness; when it dies, the set grows by it.
- `Collection_proofs`, for any number of sources, files and callers and any failures:
  `HandlesBackAlways` without further assumption; `PageOfRefAlways` under `Quiet`, where the
  invariant adds that the reference a call is reading is the current one; and
  `ClosedIsClosedAlways` under `Calm == JoinWaits /\ Drains /\ MaxServes = 1`, where it adds that
  the watchers after position `at` of a shutdown have ended and that calls run only
  while the server is up.

- `Execution_proofs`, about `PartsSpec`: a behaviour of the parts is one of the part it explores
  (`JobsPart` to `SettingsPart`).
  - Jobs, under `JobsAssumption`, for every cluster beside every profile: `HandlesCountedAlways` (the invariant
    counts the calls that are between open and close), `CancelReachesAlways` (the
    record of a job leads to where it was submitted or that is shadowed, and what a call has looked up stays
    true while it is open), `LogsAreLastAlways` (a job that was over when its
    state was read writes no more).
  - Workspace, under `WorkspaceAssumption`, for any tree and any number of servers at work at
    once: `TellsOfEachRunAlways`, from an invariant which says that what is made is made once,
    that the runs of a call are those that `Targets` lists, and that those it has passed are told of.
  - Settings, under `SettingsAssumption` (no layer is listed twice, no key has two types, a
    `set` and an `add` give a value), for any number of layers, keys, editors, commands and deaths:
    `LoadsWhatWasSetAlways`. What a file says is a set of facts. Each verb changes that set as
    the command means it to (`LSets`, `LAdds`, `LRemoves`), a layer over others says what it says and
    what they say that it does not say otherwise (`LOver`), and so all layers together
    (`LMerged`); taking duplicates out of the lists adds and loses nothing (`LDistinct`,
    `LLoaded`). The invariant: a file that can be read says what was given, and an editor at work,
    the only one of its file, holds what the file will say.
- `Knowledge_proofs`, about `PartsSpec` of `Knowledge`, as is `Answers_proofs`:
  - Downloads, under `Safe == SerialResolve /\ AtomicMarker` and `~RemoverDies`, for any number of processes, files,
    crashes and failed requests: `WholeCommitAlways`. The invariant: a marked directory with a root
    holds the whole commit (so a process that died left it unmarked), a process that
    downloads has unmarked it, and each file outside its `todo` and `open` is whole, and one that
    removes a marked directory either has not begun with the files or is not let die there.
  - Graph, under `LinkingAssumption` and `QueriesAssumption` (sources and matches are finite, an
    overlay has finitely many entries, weights and limits are natural numbers, more callers weigh
    no less), for any programs, overlays, matches, limits and depths: `ImpactExactAlways` and,
    with a weight for every number of callers (`CallersWeighed`), `RankEarnedAlways`. The
    invariant `GraphInv` says that nodes, references and edges are sequences, that a stored node
    has a known kind and, of each stored edge, that its source is a node. It needs what
    linking computes only as far as that: `Resolved` gives edges of the graph (`ResolvedFacts`),
    overlays add nodes before edges. For `RankEarned`: of a ranking by permutation, an
    element that no other is better than has the first place, and so on (`BetterFirst`,
    `SearchEarns`); one that dominates a later one scores no less. For `ImpactExact`: the d-th wave
    of the search is exactly the nodes whose distance is d, listed once, and what it has
    collected are the nodes within d (`Reached`), whatever cycles there are, since the walk and
    the reachable sets are two recursions on d that one induction relates.
  - Cache: `NeverFailsAlways` and `RefsKeptAlways`, from `IndexCache_proofs`.
- `Answers_proofs` (the theorems on `Knowledge` are in two modules only because one run of the
  prover should not last too long):
  - Document, under `MarkdownAssumption` (a document is a sequence of lines, the level of a
    heading is a number), for any number and order of lines, whatever their levels, fences, slugs and
    references, of documents with `NewlinesOnly` (then `LineCount` is the number of lines or one
    more): `LinesOnceAlways`. What the scan has found up to a line is kept as an invariant
    of its recursion (`FoundUpTo`): headings and blocks are listed by line and do not meet, none starts inside
    a block, each line that starts a block or is a heading of its own has been found, and so
    has each line before the one it goes on with. So a line outside the blocks is a heading's or
    lies between two headings next to each other (`LineInOne`), and the deepest section around a
    block is that of the last heading before it.
  - Pages, under `PagesAssumption` and `WholeNames` (a name may be the beginning of another; what
    is neither a source nor of a family is part of no other and has only its beginnings in it),
    for any sources, scopes, indexes, searches and order of calls: `ScopeKeptAlways`. A name that the
    scope lets through is taken for a source it lets through (`Resolve`), each list is made of those,
    and reindexing between calls changes no name. Without `WholeNames` it is false, and of what answers
    name beside their lists too (see the assumptions above). Without `WholeNames`:
    `MarkdownFitsAlways`, where what is used so far is within the budget after each page.
  - Explore, under `ExploreAssumption` (sizes are positive, no item is in two
    channels, `Unit` is a multiple of `RrfK + r` for each rank `r` there can be), for any
    number of sources, items, failures and sizes. `PackTrue` follows from
    `Inv`: in each phase of the packing (`KeepingHits`, `KeepingDetails`) `omitted` is the rest of what
    is kept (`Packed`); `SizeTrue` from its being settled last (`Finish`). `TakesTurns` needs `Searches`: the channels
    searched so far are the results of the registry and of the sources before the ones that
    wait, in order. An item is in one channel, so its score is `Unit \div (RrfK + r)`
    for its first rank `r` (`ScoreOf`), the code's order of scores, best ranks and channels is the
    order of turns (`BeforeIsTurn`), that order is total (`TurnTotal`), and the n-th of a ranking
    has n - 1 items before it (`CountedBy`, `RankedAre`).

Functions that are defined by recursion on numbers, and sums over sets, are proved about by
writing what has been reached as a set: a set of numbers that has 0 and with each number the
next one has them all (`Counting`), so what holds of every prefix of a sequence holds of it
(`ThoseAre`, `FlattenedAre`). No theorem with an operator as its parameter is needed for that.

Only model-checked:

- all liveness (`RerunsSettle`, `CatchesUp`, `ClaimsFreed`, `WatchConverges`):
  fairness and ENABLED are beyond the prover;
- `ImplsApart` of `Parsers`, whose operators are RECURSIVE: the prover has no SMT backend there;
- `CallsMeant` of `Linking`: it is about what names mean, is not true of every program
  (`Namesakes`), and which programs it is true of takes more than the prover's lists of names;
- the violation runs, which say what is false.

## 6. What is not modelled

- Two adoptions of one target at a time (there is no lock), and size drift.
- `NeverFails` and `RefsKept` for two processes: they do not hold
  (`engine.py:117`, `engine.py:324`) and the text does not promise them.
- Pruning, shedding and vacuum of the extraction table (`engine.py:335`), lint, and the SQL
  of the graph store: `Queries` has what each query returns.
- The survey of a directory to adopt (classification and naming), molvis's refresh of
  modules, middleware, cli, environment: names, printing and process-local state.
- New files under a watched source appear in `Collection`, but `WatchConverges` says nothing of
  them: the watcher looks only at the files of its last snapshot (`freshness.py:64`).
- molvis's `execute_code`: `redirect_stdout` is process-global and nothing keeps calls apart
  (`session.py:335`), so calls that overlap may take each other's output and leave stdout
  redirected; what holds without overlap follows from each call's own buffer. Nor what exec'd
  code sees when its session closes under it.
- Signatures, docstrings, the text of cards and pages, and other formatting.

## 7. Plan

Done: all modules above, with proofs of `Adoption`, `Journal`, `Sessions`,
`IndexCache`, `Collection` and, in `Execution_proofs`, `Knowledge_proofs` and `Answers_proofs`,
of `Jobs`, `Workspace`, `Settings`, `Downloads`, `Queries`, `Markdown`, `Pages` and
`Explore`. Left, in order:

1. Proofs: which programs keep `CallsMeant`; `Parsers` without RECURSIVE operators, for
   `ImplsApart`.
2. `ExtractTable`: prune, shed, vacuum, put and flush of several processes; the size
   limit sheds one tenth, once per process (`engine.py:362`).
3. `Survey`: the bottom-up classification and the conflicts of a plan on small trees.
4. Composition of `Downloads` with `IndexCache`: a partial tree and what is cached of it.
