# A verification project for lode

lode (`src/src/lode/`) is a local-first notes program. Notes are append-only
version chains in SQLite; everything derived from them (lexical and vector
indexes, LLM annotations, mirrored external sources) is produced by jobs in a
durable queue that `lode work` drains, and read back by a retrieval pipeline, an
ask loop over an LLM with tools, and a terminal UI. This directory holds TLA+
models of these parts, the TLC configurations that check them on small
instances, and TLAPS proofs of what matters most for instances of any size.

Conventions: paths are relative to `src/src/lode/` unless they start with
`docs/` or `tests/`. A definition whose comment starts with *Slip* is not part
of a model: it is a plausible coding mistake in the definition after it, kept
because a property is only worth having if the slip violates it. A variable
called a *history* is not in the code and no guard reads it.

## 1. Inventory

| component | state | operations | hard part | correct when | modelled by |
|---|---|---|---|---|---|
| jobs queue rules (`jobs.py`, `schema.sql`) | `jobs` rows: status, attempts, next_attempt_at, claimed_at, batch_handle | enqueue, `next_failure_state`, `cas_update_running`, `record_job_failure`, the clock `now` | the partial index guards INSERTs only; every UPDATE must respect it | one live row per key; attempts = failures | Jobs, JobQueue |
| queue worker (`worker.py`, `cli/work.py`) | what a process remembers: row picked, claim read, hooks owed | `drain`: collect, submit, reclaim, reset, claim and run; dead-letter hooks | each statement is its own transaction; kills anywhere; handlers that return late; an inline add beside it | no lost failure, no claim stolen, every row settles | JobQueue, JobLifecycle |
| batch enrichment (`worker.py`, `enrich.py`) | batch_handle and collect-failure count; the provider's batches | submit, collect, consecutive-failure budget | money is spent between two local transactions; a poll may raise for ever | a row in a batch waits for it; a receipt has its annotations; nothing starves | EnrichBatch |
| inline enrichment (`cli/add.py`) | none | claim and run one row without the worker lock | races every step of the drain | same as the queue | JobQueue, EnrichBatch |
| LLM provider seam (`llm_provider.py`) | the provider's batches (remote) | submit_batch, collect_batch, generate, tool turns | permanent or transient errors; the loop must end | as its callers see it | EnrichBatch, Ask (partly) |
| worker lock (`lock.py`) | a pid file | acquire, release | check, read and write are separate; pid reuse | at most one worker; a stale lock is taken over | WorkerLock |
| external mirroring (`externals.py`, `drawdown.py`, `webfetch.py`) | externals with a head snapshot, citing edges | link on save, refresh, ingest, redirect re-point, tombstones | late success against tombstone; content that comes back; edges of a running refresh | every link ends at a snapshot; a success is never buried under an older verdict | Snapshots, Links, Fetching |
| Atlassian connectors (`jira_fetch.py`, `confluence.py`, `*_backfill.py`, ...) | the same tables, settings | detect, fetch, paged comments, search, three backfills | a settings change between save, fetch and backfill; pages that shift | an issue is whole; a key stays a key | Links, Fetching |
| reconciliation (`reconcile.py`) | none | gap queries that enqueue embed, enrich, refresh, heal the lexical index | must find every gap a crash leaves, and not loop | each gap is closed | with the component each heals |
| version chain (`versions.py`) | notes with a head, versions with a parent | save, delete, recover, purge with a compare-and-swap | two editors, one head | a chain; a rejected text keeps its draft | Notes, NoteHistory |
| repository and caches (`repository.py`, `lexical.py`, `vectorstore.py`, `embedding.py`) | FTS rows, vectors | write then index, reindex, reembed | the cache write follows the commit | the index of a head is that of its text, eventually | Notes |
| derived layer (`staleness.py`, `curation.py`, `enrich*.py`) | annotations, edges, receipts | write, re-anchor, gate, curate, purge | an enrichment of an old version lands after the next save | user decisions survive; fresh rows follow the head | Derived |
| egress control (`egress.py`, `redact.py`, `no_egress_scope.py`) | egress_log | gate, redact, audit | the gate is read long before the send | what is withheld stays; what is sent is audited first | EnrichBatch, Derived, Ask (partly) |
| retrieval (`retrieval.py`, `related_notes.py`, ...) | none | two legs, fusion, rerank, parents, graph, trust tiers, pin | each stage reads a database that moves on | only live texts, once each, in an earned tier | Retrieval (partly) |
| question answering (`qa.py`, `cited_answer.py`, `gate.py`, `faithfulness.py`) | a question's bodies and claims | retrieve, gate, tool turns, verify, show, save | targets flagged or purged meanwhile; superseded threads | nothing withheld leaves, nothing invented is shown, it ends | Ask |
| tools of ask (`tools.py`, `tool_dispatch.py`) | a tool budget | fetch, search, deny, audit | refused and failed calls still cost turns | every send is logged | Ask, Snapshots, Links |
| storage (`storage.py`, `schema.sql`) | schema, user_version | `init_db`: schema script, ALTERs, backfill, versioned migrations | several processes open an old file, any may die | a connection means the current schema; nothing lost | Opening |
| terminal UI (`tui/`) | screens, dialogs, what each read when opened | edit, save, conflict, delete, flag, lists, related-notes panel | dialogs over dialogs; other processes; threads that end late | no text dropped unasked; lists current | Screens, Ask, Notes (partly) |
| command line (`cli/`) | none | add, purge, recover, reembed, reindex, reenrich, backfill, work | commands beside the worker | as the component they call | Notes, Derived, Links (partly) |
| configuration and support, evaluation harness | settings | - | - | - | not modelled |

The parts talk through the SQLite database. A save or an ingest enqueues jobs in
its own transaction; the reconcile scan enqueues what is missing; the drain's
handlers write derived rows and return; a refresh that dies runs a hook that
writes a tombstone. Only `lode work` takes the worker lock: `lode add`, the TUI
and `lode ask` write beside it.

## 2. How the project is composed

Each module is a component with its own variables. They meet in three ways:

- `JobQueue EXTENDS Jobs`; the other modules that use the queue (EnrichBatch,
  Snapshots, Notes, Derived, Links) keep only what they need of a row, since
  JobQueue shows what a claim, a reclaim and a retry amount to. A job there is
  claimed, fails, is retried and dies; the split of a claim into SELECT and
  UPDATE is JobQueue's.
- Two refinements: `JobQueue!ImplementsLifecycle` (each row, on its own, lives
  the life JobLifecycle describes) and `Notes!ImplementsHistory` (the store is
  the abstract linear history of NoteHistory).
- A component that spans processes is modelled with all of them in one module:
  Notes has the editors, the recover and purge commands, the reconcile scan and
  the embed worker; Derived the workers, saves, embed gate and curation; Links
  saves, asks, the refresh worker and backfills; Opening any number of openers
  beside processes already at work.

Every safety property of the runs is proved (section 6). The ratchet of
`jobs.now`, chunking, redaction patterns and answer parsing are still to be
modelled.

## 3. Modules and code

**Jobs** is the rules every writer of the table shares: the row, `LiveStatuses`
(jobs.LIVE_JOB_STATUSES and the partial index), `AfterFailure`
(next_failure_state with the SET clause that stores it), `HoldsClaim` (the WHERE
clause of cas_update_running).

**JobQueue** is the per-job path. One action per SQL statement or transaction
another process can run between: `SelectStale`/`ReclaimStale` (the reclaim's
SELECT is outside its transaction), `RunHook`, `ResetRetryable`,
`WorkerSelects`/`ClaimRow`/`LoseClaim` (the SELECT and UPDATE of _claim_one),
`ReadRow` (run_one's own SELECT), `Succeed` (unguarded on purpose), `FailHeld`,
`FailLost`, `AuthFail`, `Crash`, `Tick`. `AdderSelects` starts the inline path.
A handler is its outcome. `charged`, `hookRuns`, `claimant` are histories. The
initial table is empty or holds a row left running by a version of the program
that stored no claim time.

**JobLifecycle** is what the queue promises of each row on its own: waiting,
working, done or dead, a failure counted once, dead at the last one, done final.

**EnrichBatch** is the enrich rows with the collect and submit pre-steps, the
main loop and the inline run. The provider is external: it accepts a batch,
ends it with any outcome per request, answers or raises on a poll, rejects a
missing credential. Time is one bit per row (`ripe`). The single-row claim is
one step here, while the submit step keeps its SELECT and its claim apart.

**WorkerLock** is lock.py call by call: `Exists`, `ReadPid`, `Probe`,
`Truncate`/`Fill` (write_text truncates, then writes), `Release`, and an
environment that kills workers and hands their pids to other programs or to the
next worker.

**Snapshots** is the text of mirrored sources. A save enqueues a refresh
(`Save`); a process claims it, fetches, ingests (`Store` is ingest_snapshot's
transaction, `Index` the lexical write after it), re-points the edges after a
redirect (`Repoint`) and returns. `Reclaim` and `HandlerRaises` end in `Hook`,
the dead-letter tombstone with its guard `Beaten`. `Scan` and `Sweep` are
refresh_stale's SELECT and its INSERTs, between which anything may finish;
`EmbedGap` the snapshot arm of embed_gap, `Ask` fetch_for_ask. Contents stand
for snapshots because snapshot_id is a hash of external and content. `Publish`
and `Move` are the site. `okAt`, `returned` and `lost` are histories.

**Links** is which external a link leads to. `Save` classifies each URL and bare
key by the connectors configured (`Leads`), `AskFetch` makes rows without an
edge, a job or an api_base, `Claim`/`Fetch`/`Repoint`/`Finish`/`Fails`/`Hook`
are the refresh, `FillStarts` to `FillEnds` the three backfills with each
transaction a step, `FillKilled` their interruption, `Configure` a change of
settings. The text and its time are Snapshots'.

**Fetching** is one request of a connector: redirects followed by hand (ask) or
by the client (refresh), each hop's host checked before and after connecting,
what an answer is taken for (`Judged`), and JIRA's paged comments
(`NextPage`) while comments come and go, each page of them an answer of its own
(`PageReplies`). The server is external.

**Notes** is one note. A version is the sequence of texts from the root, since
version_id hashes note, parent and body; `vers` is the table. A user's process
holds what it read across transactions: the head an editor or the browse list
loaded, the parent `lode recover` looked up. The cache write of a save or a
recovery and the eviction after a delete (`Evict`) are steps after the commit, a
rejected save goes to a draft file. The
scan (`GapRead`, `ScanIndex`, `EmbedGap`), `lode reindex-lexical`, `lode
reembed` and the embed worker follow.

**NoteHistory** is what the store promises: versions are only added, as children
of the head of the moment, and going back writes none.

**Derived** is the AI rows of one owner, a note or an external. `EnrichRead` and
`EnrichWrite` are a job's read and its write after the LLM; `LogEgress` and
`EnrichDone` follow in transactions of their own; `Save`, `Ingest` and
`GateMaterial`/`GateImmaterial` re-anchor or re-enrich; `Curate`, `SetNoEgress`,
`DeleteOrRecover`, `Purge`, `Upgrade`, `Reenrich` are the user. Nothing writes
quoted_text, so a row is fresh or orphaned.

**Ask** is a question's thread beside the screen: retrieval by indexed passages,
the gate that reads flags and bodies once, in a step of its own, the tool turns with the shared budget, the forced last
turn, `Verified`, and `_finish` with its generation check, while the user
asks again, saves an answer, flags and purges. The model is a box that may claim
anything.

**Screens** is the app's stack: what each screen read, what its text area holds,
dialogs and conflicts, every way back, another process's changes, and the
related-notes panel with its debounce and exclusive search.

**Retrieval** is one question through the pipeline, each stage a step that reads
the database of its moment: the legs, reciprocal-rank fusion in whole units, the
rerank, parent expansion, the graph hop with the heads of the notes and of the
externals it reached (`ResolveNotes`, `ResolveExternals`), tiers, and the pinned note's
head and passages (`PinNote`, `PinPassages`); and the related-notes variant. What words match, how near a vector is and what the
cross-encoder thinks are left open. A list is sorted by one operator, `InOrder`:
the k-th member is the one with k - 1 before it (section 6 proves that this is a
sort).

**Opening** is init_db by SQLite's rules: script and ALTERs commit statement by
statement, the backfill opens the transaction that holds the write lock until
the version is stamped. Old files have any tables, either egress_log, the narrow
index and its duplicates; one of version 1 has only the second migration to run. (A
file that has a jobs table and no notes is not among them.)

## 4. Runs

| run | question | instance |
|---|---|---|
| queue | one live row per key, no foreign claim released, only lifecycle histories, every row settles | 1 drain, 1 inline add, 2 rows, 1 kill, 1 missing credential, 2 attempts |
| batch | are rows in flight left to their batch, does a receipt have its annotations, is all work reached | 2 rows (one added inline, one gateable), 1 batch, 1 kill, 1 attempt |
| lock | one worker, and a stale lock is taken over | 3 pids, 2 kills |
| snapshots | late successes kept, links resolved, heads indexed | 2 processes, 2 URLs, 1 text, 2 events, a TTL and a timeout of 2 in 4 ticks, 2 attempts |
| links | every link ends at a snapshot | a note with an issue URL, a page URL and a bare key, 3 events, 1 attempt |
| fetching | verdicts, whole comments, an end | 2 URLs, 1 redirect followed, pages of 2, 3 comments, 2 changes |
| notes | lost updates, drafts, search, the refinement | 2 users, 2 texts (one redacted), 4 versions, 2 drafts, 3 events |
| derived | freshness, purge, curation, nothing owing | 1 tag, 1 link, 2 versions, 2 releases, 1 worker, 3 events |
| ask | withheld and purged targets, audit, saving, an end | 2 questions, 2 turns, a budget of 1, a note and a page, 1 event |
| screens | text kept, lists current, panel follows | 2 notes, 1 text and blank, 4 screens deep, 2 edits, 2 changes elsewhere |
| retrieval | live texts only, once each, earned tiers | 2 notes, 1 external of 2 passages, 3 edges, top 2, keep 1, 2 hops, 3 changes |
| opening | current schema, nothing lost, everyone opens | 3 processes, 3 tables, 2 columns, 3 old queues, versions 0 and 1, 1 death, 1 write |

**Why the bounds suffice.** *queue:* the properties relate two rows of a key and
the processes at a row (claimant, reclaimer, re-claimer: the drain is the last
two in turn); two attempts give a retry and a last attempt; a timeout of one tick
lets it expire before, during and after a handler; one kill can hit every process
at every step. One worker is what the lock leaves; the proofs of section 6 hold
for any number. *batch:* two rows let one be in flight while the other is
claimed, inline or in the next submit; a budget of two raises is a consecutive
count; `MaxAttempts = 1` means that only failures that are not charged (a
missing credential, a kill before the submit) are retried: charged retries are
JobQueue's. *snapshots:* with a TTL and a timeout of two ticks, four ticks hold
a fetch, the sweep after it and the reclaim of that refresh, and let a fetch be
older than the claim without being due. *links:* three
events are a settings change, a save and a backfill, in every order; each
action may be killed in the middle besides. *notes:* four rows are a root, its
update, a third that conflicts, tombstones or branches off after a recover, and
one more, with which a recovery can come late to a chain that has gone on.
*derived:* two versions are what a late write needs, two releases what a stale
receipt needs. *screens:* a list, an editor, a dialog and a diff or a popup over
it are four screens deep. *opening:* the third process comes when one has died
and one holds the lock. *fetching:* redirects at the limit and one past it, a
full page, a short one and an empty one. *ask:* one event is a flag or a purge at
any step of either question, the first of which may be superseded by the second.

`Max...` constants bound rows, versions or events in the guards and are named as
bounds where they are declared; JobQueue's `Tick` is enabled only while time
matters to a row, which keeps its clock finite. `CHECK_DEADLOCK FALSE` in every
run but lock and fetching: when the bounded work is done and everybody idle, the
system really stops.

**What the runs leave out by a constant.** `Suspends = FALSE`: no process sleeps
longer than stale_running_timeout_s between a claim and the read after it.
`LateFailures = FALSE`: the handle's UPDATE and the audit's INSERT do not raise
after the provider accepted a batch. `Overlap = FALSE`: two workers do not start
within one another's acquire. Each of the three breaks a property when it is
TRUE; section 7 says how.

**Type invariants** (`TypeOK` in most modules; those of Opening, Screens, Links,
Fetching and Retrieval are in their proofs) hold in the instances, but are no
property of the runs, which are kept for what could be wrong. All are proved. The
same is so of a few other properties: `TombstonesStayOut`, `SweepCadence`,
`ChainSound`, `PurgeSweepsChain`, `KeysStayKeys` and `FusionRespectsTheLegs` are
proved and not run.

## 5. Fairness

- JobQueue: `WF(WorkerStep)`: `lode work --loop` keeps draining, and a handler
  returns or raises (the calls it makes have timeouts). A missing credential
  makes `lode work` exit, so this also means the user or a supervisor starts it
  again. `WF(ProcStep)` for an inline add: once begun it goes on. `WF(Tick)`:
  time passes. No fairness for Enqueue or Crash.
- EnrichBatch: the drain goes on, the provider ends its batches and time passes.
  An inline run may stall for ever. `RowsSettle` says that an embed job is always
  reached, and that enrich rows settle once the credential is configured for good
  and embed work stops arriving: `_claim_one` takes embed jobs strictly first, and
  TLC shows that an endless supply of them starves enrich rows.
- WorkerLock: a started worker goes through acquire and release. `LockIsTaken`
  also assumes that workers keep being started and that other programs eventually
  stop coming and going under the pids.
- Notes: the worker scans, claims, embeds and finishes (`GapRead`, `ScanIndex`,
  `EmbedGap`, `EmbedClaim`, `EmbedWrite`, `EmbedDone`). Users owe nothing:
  `HeadsStaySearchable` is about whatever head they leave.
- Derived: a worker works off each pending job and the scan finds gaps; failures
  and users are bounded by `MaxEvents`, so "eventually" is after the last.
- Links: the refresh worker works (`Works`) and a begun backfill goes on (`Fills`).
- Ask: the thread of an open app keeps running and each request returns or raises
  within its timeout. The user owes nothing.
- Fetching: the client goes on; the server may change only `MaxChanges` times.
- Opening: strong fairness of each opener, since the write lock comes and goes:
  SQLite's busy timeout and a user who tries again stand behind it.
- Snapshots, Screens and Retrieval have safety properties only.

## 6. Proofs

Every component has its safety proved for every value of its constants, in eight
modules that EXTEND the components they are about. Four of them are about two
components that share no definition (JobQueueProofs, EnrichBatchProofs, LinksProofs,
OpeningProofs): that is why the second one's specification has a name of its own
(`LockSpec`, `RetrievalSpec`, `FetchSpec`, `ScreensSpec`). All proofs have one shape:
an inductive invariant (found with TLC, as the invariant of a run of the component),
a lemma per action or per group of actions that leave the same things alone, the
theorem that the invariant always holds, and the properties as its consequences or,
for action properties, as consequences of it and one step. What the runs check on
small instances and is stated here by a theorem is marked *run*.

**Assumptions.** The named ASSUME of each module, which TLC evaluates on its run:
bounds are natural numbers, limits positive, special values (a marker, a tombstone,
no one, no text) none of the ordinary ones, the schema begins with the table `notes`,
the notes and externals a question may find are finitely many. Of the
constants that switch a fault on, three appear as hypotheses: `~Suspends`,
`~Overlap` and `~LateFailures`, under which the runs are made as well (section 4).

**JobQueueProofs**
- `TypeCorrect`; `OneLiveRow` (*run*), `TerminalIsTerminal`, `BudgetRespected`,
  `HookRunsOnce`, `ReclaimsAreStale`: whatever is suspended. The inductive
  invariant says what a remembered claim can still mean: attempts read with a
  claim are those of the row as long as the row still has that claim; a hook is
  owed only for a row at its last attempt, by one process.
- `FailuresAreCharged`, `ClaimantReleases` (*run*), `QueueImplementsLifecycle`
  (*run*, the refinement of JobLifecycle): under `~Suspends`. The strengthening is
  that a claim of a live process is younger than the staleness timeout until run_one
  has read it, so what it read is its own claim.

- The worker lock: `LockTypeCorrect`; `HolderNamed` and `MutualExclusion` (*run*)
  under `~Overlap`, from an invariant that names, for each step of acquire, what the
  file can hold.

**EnrichBatchProofs**, batches: `BatchTypeCorrect`; `DoneIsAnnotated` (*run*); and under
`~LateFailures` `InFlightIsLeftAlone` (*run*). `BatchInv` is three things. `Steady`:
a row that is not settled has attempts and collect failures left, and a row with a
handle is the drain's. `InHand`: at each step of the drain, what its local list of
rows may still be in the table. An inline run may have marked a row done under the
drain's hands, so "claimed" is running or done. `NotTwice`: what is about to be sent
is not in flight. Without the last, InFlightRowsWait is not inductive: the next
submit could claim a row whose batch is still cooking.

**EnrichBatchProofs**, retrieval: `RetrievalTypeCorrect`; `AnsweredFromLive`,
`ContextHoldsHitsOnce`, `TiersAreEarned` (*run*); `FusionFollowsTheLegs`. The
invariant says of each stage what it has in hand: `Sourced`, everything was a live
head since the question was asked; `Arranged`, what an item of the context came by;
`Tiered`, what its tier says, after the sort and after the pin. `TiersAreEarned`
needs `Grown`: versions of a node only grow, so that an external which is not the
head when it is ranked has been superseded, and stays so. Most of the work is about
lists. That `InOrder(S, before)` is a list of S in that order is proved by counting
instead of by induction: in a strict order each member has a number of members
before it, no two have the same number, so the numbers are all of 0..|S|-1. What
recursion there is (`Unit`, the balls of the graph hop) is shown to be defined
by induction over the set of naturals for which it is. Of fusion's arithmetic the
proof needs only that a smaller rank weighs no less: passages with one score are told
apart by `Arrival`, and the two together are a strict order.

**SnapshotsProofs** `SnapshotsTypeCorrect`; `EdgesResolve`, `HeadsAreIndexed` and
`LateSuccessIsKept` (*run*); `TombstonesOut`; and `SweepKeepsCadence`, which is about
the store the scan has read: what a sweep enqueues was a TTL old when `Scan` read it,
or a page that came back, and only an ingest between `Scan` and `Sweep` makes it
younger (section 7). The hook's guard
reads `fetched_at` of the head, and the proof needs what that says
(`FetchedAtIsHonest`: the time of the last success, but for a page that came back);
`Grounded` says what a process may count on between its transactions: a head where
it is about to re-point edges, and that the row it will call done is not the last
thing to keep a cited external without a head alive.

**NotesProofs** `NotesTypeCorrect`; `ChainIsSound`, `PurgeReachesAncestors`;
`SearchHoldsTheHead`, `NothingIsOverwritten`, `RejectedTextIsKept` (*run*); and
`StoreImplementsHistory` (*run*): every step is a step of NoteHistory or a stutter.
`Chain` is the table (ancestors are rows, a tombstone hangs under a version that is
none); `Legs` says of each index, and of each text an index write has in hand, that
it is its own version's unless that is purged; `Desk` and `Apart` say what each
user's process remembers, and that no two conflicts have one draft file. The legs
need no order of writes: version_id is a hash of the text, so a late write is of the
wrong version, never of the wrong text.

**DerivedProofs** `DerivedTypeCorrect`; `FreshIsOfTheHead`, `PurgeLeavesNoAnnotation`
and `DeletedStaysDeleted` (*run*). The invariant adds to the two properties that a
worker between its read and its last commit is on a version that exists, that a gate
is pending only for a snapshot of an external, and that an external is never purged:
a gate that re-anchors cannot meet a purge. `DeletedStaysDeleted` counts rows:
re-anchoring maps the rows of a term onto no more of them, and every other step
adds none of a term the user has suppressed.

**AskProofs** `AskTypeCorrect`; `FlaggedStaysHome`, `PurgedStaysUnquoted`, `SendsAreLogged`,
`ConfirmedIsSaved` (*run*). A step of a question's thread changes that question's
record only, so the invariant is about one record and the set of targets flagged
since it was begun (`Logged`, `Withholds`, `Supported`), and each helper that
updates a record has a lemma on the fields it leaves. `Vouches` is the part about
purges: a target purged before the question read its bodies has none among them, so
no claim that quotes it is ever verified, whatever the box says; a purge after that
read comes too late for this question, not for the next. `ScreenIsSettled` ties the
answer on the screen and the one to be confirmed to the newest question.

**LinksProofs**, links: `LinksTypeCorrect`; `EveryLinkResolves` (*run*);
`KeysAreForGood`. `LinksResolve` is inductive with what the two workers hold in their
hands between transactions: a claimed job is live and a fetch that ended left a
snapshot (`RunKnows`); once the edges of a redirecting page have been moved, what
still links to it came later and is known to be lost (`MovedAway`, the case of
section 7); and what a backfill inserts leads to the key it is going to enqueue
(`BareLeads`).

**LinksProofs**, one fetch: `FetchTypeCorrect`; `IssuesAreWhole` and `VerdictsFit`
(*run*), each from an invariant of its own. For the comments: they are numbered as
they are posted, so what was read comes in order before what is left to read, and a
delete ahead of the paging shifts nothing behind it; without a delete behind it, what
was there at the start is read or still ahead. For the verdict: from where the fetch
stands, with the redirects it has left, it comes to where its start leads, and the
ask path has checked every host it asks.

**OpeningProofs**, opening: `OpenIsCurrent` and `MigratingLosesNothing` (*run*), for any tables,
columns, old files and number of processes. `Progress` says that what a step of
init_db is for is there once a process is past it, whether it did it or found it
done; `Transaction` that the uncommitted database has all that the committed one
has; and a database that has no table yet is up to date by having nothing to
migrate, which is why a file that another process has just created can be opened.

**OpeningProofs**, screens: `ScreensTypeCorrect`; `NoEditIsDropped`,
`ListsShowTheNotes` and `PanelIsOfTheText` (*run*), for a stack of any depth.
`Stacked` says which screen may be over which: a rejected save lies over the editor
whose text it holds, which is why discarding it there drops no more than was asked.
`PanelKnows` says what the debounce and the search in flight are about: an
unfinished search is of the text on the screen unless the timer is about to replace
it, so a search that ends late cannot show what is about an older text.

**Only model-checked.** Liveness (`EveryRowSettles`, `RowsSettle`, `LockIsTaken`,
`HeadsStaySearchable`, `HeadsGetEnriched`, `QuestionsEnd`, `LinksGetFetched`,
`EveryoneOpens`, `FetchesEnd`): fairness and ENABLED are out of the prover's reach,
and so is what a recursion over data computes for every input (the proofs know of
`Within` that it holds the seeds, not that it is the nodes within n hops; the runs
check the tiers it leads to).

**What the proofs changed.** Two properties turned out to be true of the instances
and not of the code, and say more exactly now what the code does; both are in
section 7 (a count inherited from an earlier batch; a recovery that goes forward).
The re-anchoring of Derived was first written with overlapping cases, which TLC
takes in order and TLA+ does not. Retrieval's lists were written with sorts and
filters that are recursive in their library; they are now `InOrder`, `Kept` and
`Cut`, over which TLC finds the same states.

## 7. Where code and documentation part

None of these has a run: the twelve runs check what holds. Those with a
definition or a constant named can be seen by adding it to the run's cfg.

Queue and batch
- run_one re-reads claimed_at after the claim committed (`worker.py:593`); a
  process suspended past the timeout in between adopts another's claim, where
  docs/storage.md:911-913 speaks of the value read at claim time.
  (`Suspends = TRUE` breaks `OnlyClaimantReleases`.)
- The except arm of the submit step covers the statements after the provider's
  accept (`worker.py:1114`): a raise there re-queues rows of an accepted batch,
  where docs/storage.md:1275 calls handles durable. (`LateFailures = TRUE` breaks
  `InFlightRowsWait`.)
- batch_handle is never cleared (`enrich.py:944`): a retried row whose process is
  killed is polled in its old batch and charged with its old result
  (docs/storage.md:937-940).
- A row a successful poll has just failed keeps its collect-failure count
  (`worker.py:901`: the reset has AND status = 'running'); its next batch
  inherits it, where docs/storage.md:803-813 counts consecutive raises per handle.
  One such row at the budget takes every row of its new batch with it, though the
  batch is still with the provider: `InFlightRowsWait` lets a row die once one row of
  its batch has reached the budget. (The run's one attempt leaves no retried row;
  `MaxAttempts = 2` and `MaxBatches = 2` show it.)
- The lock's check and write are not atomic (`lock.py:84`): two starts that
  overlap both run, against `lock.py:3`. (`Overlap = TRUE` breaks
  `AtMostOneWorker`.) The same comment leaves integrity to the queue, and the
  proofs of section 6 show that the queue deserves it.

Mirror and links
- A snapshot that becomes head again keeps its first fetched_at
  (`externals.py:474`), so the guard of the dead-letter hook overlooks that fetch
  (docs/storage.md:1178, 1211-1213; `LateSuccessKept`).
- A row made by `lode ask` has no api_base (`externals.py:433`); its refresh fails
  for good and a tombstone buries its text, where docs/externals.md:117-123 and
  768-775 treat it as any other (`OnlyTheSourceBuries`).
- A save that links a URL whose running refresh has already re-pointed its edges
  enqueues nothing and is left with an edge without content (docs/externals.md:183
  says it always resolves). `CitedResolves` and `LinksResolve` name the case.
- `refresh_stale` reads the gap and enqueues afterwards (`reconcile.py:458`, `:479`):
  a page or a tombstone that another refresh ingests in between is fetched again
  inside its TTL, where docs/storage.md:1211-1221 has one refresh per TTL
  (`SweepCadence` names the case).
- The bare-key backfill's second transaction and a link already moved by an
  earlier one: a target shared by two notes is moved twice, against
  `jira_backfill.py:66-69`. The Confluence backfill cannot revisit a link it moved
  before it was killed.
- The case of an issue key taken from a URL is not normalised.
- JIRA comments: a non-OK answer to any page, the first included, silently ends
  them, where the docstring of `jira_fetch.py` says beyond the first; an
  under-reported total ends the paging early, where the comment speaks of one that
  under-reports and the code guards one that over-reports; TooManyRedirects on a
  comment page or a search raises. A garbled JIRA issue raises where Confluence
  writes a tombstone. Confluence's client does not follow redirects and takes one
  for a malformed answer, so a tombstone.

Notes and derived rows
- After `lode purge` the legs keep the old text until the next write: it builds
  its Repository without a cache (`PurgeReachesTheLegs`; docs/externals.md, hard
  delete).
- The lexical gap step indexes the body as it was read, not redacted, so the two
  legs can hold different texts (`LegsAgree`).
- `lode recover` has no compare-and-swap: a note revived in between is moved back
  (`RecoversOnlyDeleted`), or, when another recovery has moved the head further
  back meanwhile, forward to a child of a head its user has not loaded.
  `NoLostUpdate` is therefore about new versions and tombstones.
- A head that was withheld when its job ran has a done job and is not found again
  when the flag is cleared (`DoneMeansEnriched`).
- An enrichment that finishes after the next save writes fresh rows of the older
  version; a purge keeps the AI's edges; `_has_ai_output` counts re-anchored rows;
  embed gates of two snapshots that finish out of order re-anchor backwards.

Screens and questions
- ctrl+q on a screen over the editor ends the app with the editor's text unsaved
  (`tui/app.py:241` against its docstring, 21-24; `NothingTypedIsLost`).
- The edit screen's no_egress command goes by the flag it read when it was
  opened: clearing is not always asked (`tui/screens/edit.py:368-376`;
  `ClearAsksFirst`). The enrichment inspector may be opened on a note that another
  process has deleted, and raises (`edit.py:299-308` against the modal's own
  docstring).
- Whatever find_related_notes raises ends the app, and so does what an ask raises
  except AuthError (docs/configuration.md:349 says never a traceback). Delete in
  the browse list deletes the head of the moment, not the one shown.
- Saving an answer as a note is two transactions.
- While saves go on, two versions of a note can both be in one context, and an
  external reached by the graph and ranked CURRENT may no longer be the head:
  `KeptOnce` and `TierIsEarned` are stated so.

## 8. Not modelled

- Handlers' own work (vectors, parsing, prompts), scoring, chunking, redaction
  patterns, the text of answers: a model has their outcome, any of those possible.
- The pause between a SELECT and the INSERTs it leads to is modelled where a property
  depends on it. Two are one step each: the enrich arm of the reconcile scan
  (`Derived!EnrichGap`, `reconcile.py:344` and `:373`; in the code a version that stops
  being the head in between gets a job all the same) and a backfill's look at a head
  before it enqueues (`Links!FillEnqueues`, `backfill.py:280` and `:312`; a head that is
  there is never taken away).
- Whether the panel shows an owner's enrichment as failed or as ready: only that it
  is pending (`ShowsPending`).
- SQLite itself: transactions are atomic and serialised; Opening models when a
  lock is held.
- The ratchet of `jobs.now`: each model has one clock.
- Configuration, logging, progress, formatting and the read-only commands (show,
  status, stats, verify); tag and help screens; the evaluation harness: no state
  that outlives them.
- Request building, usage accounting and error texts of `llm_provider.py`.
