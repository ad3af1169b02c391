# LegalMemory, modelled and checked

LegalMemory mirrors a law firm's document sources into a private index, derives knowledge
from every document through a staged pipeline, and answers searches under the permissions
the sources grant. This directory models the parts of it where order, failure and
concurrency decide whether the index is right, checks the models with TLC on small
instances and proves the central invariants with TLAPS for instances of any size.

Paths such as `sync/engine.py` are relative to `src/knowledge_index/` of the repository;
`pipeline.md`, `connectors.md` and `backup.md` are in `docs/src/content/docs/product/`.

## The system

A *source* is one connected system (a SharePoint tenant, a drive, a mounted folder). A *sync
run* scans it: a full crawl lists everything, a delta run asks the provider what changed
since a stored cursor. What the scan saw is written to `source_objects`, and the rows of
`processing_state`, one per document and stage, are created or reset. The run then *hands
off* to an insertion run, whose workers claim stages, execute them and open the next one.
Two stages write about other documents too: *classify* puts a document into a matter,
*relate* says which files are versions of one document. Searches read what the last stages
wrote, filtered by the grants the source reported. The whole appliance can be backed up and
put back.

| Part | Code | State it keeps | Operations | What is hard | What makes it correct |
| --- | --- | --- | --- | --- | --- |
| Sync engine | `sync/engine.py`, `sync/deletions.py` | source rows, tombstones, delta cursor, selection fingerprint, deletion watch | full crawl, delta run, confirmation of bulk deletions | a connector that omits or fails half way; a session committed after a failure; a provider that changes under the crawl | nothing behind the cursor is lost; a bulk deletion needs confirmations in a row; the index converges to the estate |
| Sync runs | `sync/runs.py`, `orchestration/sweeper.py`, `orchestration/hatchet.py` | `pipeline_runs` rows | reserve, dispatch, scan, hand off, retry, sweep | several writers of one row; work believed dead that is alive; a caller that dies between two commits | one unfinished run per source; scans never overlap; no run blocks its source for ever |
| Stage ledger | `pipeline/runner.py` | `processing_state` rows | claim, execute, fail, unlock, recover, reset, requeue | a worker finishing work that was reset or requeued under it; an expired claim whose worker is only slow | no stage waits for ever; what is settled was derived from the current content; quarantine only after the limit |
| Insertion batches | `orchestration/insertion.py`, `orchestration/hatchet.py` | batch rows and their documents | assign, trigger, refresh progress, reconcile | one document in two batches; a finished or failed batch revived | nobody drives a document twice; the last task completes the row; a batch ends |
| Relations | `pipeline/runner.py` | documents, versions, chains, edges, parked decisions | relate, merge, order, park, replay | decisions taken outside a transaction, written over rows of other files | nothing points at a document that is gone; a parked decision is delivered; an order is not swapped |
| Matter profiles | `pipeline/matter_profile.py`, `orchestration/hatchet.py` | profile queue, profiles | mark, trigger, read, write | a mark lost while a model reads | a marked matter is profiled; a profile does not forget documents |
| Connections | `connectors/credentials.py`, `connectors/runtime/tokens.py`, `connectors/events/` | rotating tokens, handshakes, subscriptions | refresh, persist, authorize, browse, renew | a rotation that a rollback forgets; several writers of one row | the stored token is one the provider accepts; the provider keeps sending events |
| Access | `permissions.py`, `connectors/principals.py` | grants, aliases, memberships | resolve, compile, filter | two filters, SQL and search index, that must agree | nobody is shown what the source would refuse; nothing readable is missed |
| Retrieval | `retrieval.py`, `search_backend.py`, `mcp_server.py`, `downloads.py` | links | search, export, fetch | a request reads in many statements what others change | an answer was readable while it was made |
| Backup and restore | `backup/` | backup runs, archives, staging | reserve, capture, verify, prune, restore | an archive that contains its own run as unfinished | a completed backup is whole; a restored ledger is released; captures never overlap |
| Schedule, configuration, web, command line, identity | `sync/scheduler.py`, `config.py`, `web/`, `cli.py`, `identity_admin.py` | settings | call the parts above | a setting that changes under a run | covered with the part it changes |

The parts meet in the database: a scan and the workers of an earlier insertion run write
the rows of the same document; the sweeper, the dispatcher and the executing worker write
the same run row; two files that are versions of one document are related by two workers; a
crawl, the event manager and an administrator's request write the same credentials; a
scan's session holds everything it saw until it commits. Each meeting point belongs to one
module, and the modules around it see the outcome only: an insertion batch sees a document as
the first stage that is not settled, the ledger sees a scan as one commit.

`PROJECT.json` lists every component, with what is modelled of it, and every hazard with
the property that covers it or the reason why none does.

## Modules

| Module | Models | Instances for TLC | Proofs |
| --- | --- | --- | --- |
| `SourceSync` | one source, its provider and one scan at a time | `MCSourceSync` | `SourceSyncProofs` |
| `ProcessingLedger` | the ledger rows of one document and the workers on them | `MCProcessingLedger` | `ProcessingLedgerProofs` |
| `SyncRuns` | the runs of one source, who starts, executes and ends them | `MCSyncRuns` | `SyncRunsProofs` |
| `SourceLease` | abstract: the source as a lease that `SyncRuns` implements | (with `SyncRuns`) | (with `SyncRuns`) |
| `InsertionBatches` | batches, the documents they own, and who drives those | `MCInsertionBatches` | `InsertionBatchesProofs` |
| `BackupRuns` | backups and restores of the appliance | `MCBackupRuns` | `BackupRunsProofs` |
| `FileRelations` | versions, copies and references among the files of one matter | `MCFileRelations` | `MatterProofs` |
| `MatterProfiles` | the profile queue of one matter | `MCMatterProfiles` | `MatterProofs` |
| `AccessScope` | pure: who may read what, and the compiled filter | (with `Retrieval`) | (with `Retrieval`) |
| `Retrieval` | one request at a time over a database that changes under it | `MCRetrieval` | `RetrievalProofs` |
| `Connections` | the stored token and the subscriptions of one connection | `MCConnections` | `ConnectionsProofs` |

Operators whose names extend that of another definition (`ClaimableOnce` beside `Claimable`)
are *mutants*: the definition with a plausible bug in it. No specification uses them; with
one in place of the original the property it belongs to is violated, which shows that the
property depends on that line of the code. `PROJECT.json` pairs them with the properties.

A property named `Undisturbed...`, `Unstrained...`, `Unmixed...` or `Uncrossed...` begins
with a condition on a history variable. The condition is about the code: without it the
property is false, for a reason given below, and the history variable records exactly
the event that makes it so. Everything else stays possible under the condition.

### SourceSync

`db` is what is committed of one source: rows, the content version indexed of each, delta
cursor, selection fingerprint, deletion watch, and the documents owed to the pipeline. `tx`
is the session of the running scan. The provider is a set of objects with the edit that last
touched each; a delta token is a point in the sequence of edits, so a token taken before a
crawl is behind what the crawl sees.

`BeginSync` decides between crawl and delta as `SyncEngine.sync` does (fingerprint changed,
deletion under confirmation, permissions aged, no feed). A crawl is one action per object,
which the connector yields (`ObserveOne`) or passes by (`PassOver`: absent, or lost by the
connector), with provider edits in between. `CrawlEnds` is the end of `_full_sync`:
tombstones or a held deletion, cursor, fingerprint. A scan ends in `CommitScan`, or by a
connector exception, which *commits* the session (`ScanFails`), a database exception, which
rolls it back (`SessionFails`), or a dead worker (`WorkerDies`).

Abstracted: paging, metadata, the content of documents (a version number), memberships (a
step that may fail). A delta run applies its feed in one batch. The permissions of
documents change the rows as an edit does.

`strays` is history: rows that a failed crawl of another selection than the recorded one has
committed, until a crawl reaches its end. They are what `Converges` makes its one exception for.

### ProcessingLedger

One document with `N` stages in pipeline order: the first fetches, the last compiles
grants into the search index, one extracts metadata. A row is what the table has: status,
reason (`last_error`: parked, switched off, declined, permission refresh), attempts,
producer version, claim. What a stage derived is the content and the versions it was derived
from, so that "current" is a comparison: the fetch reads the staged bytes, every later stage
the content under its hash and what each stage before it last stored.

An execution is several steps, because it runs in a session of its own under READ COMMITTED:
claim; load the row and its inputs (`Begin`); commit (`Finish`) or fail, with the failure
read and written in two steps (`Raise`, `RecordFailure`). `Written` and `Recorded` write what
the ORM writes: the attributes that differ from the *loaded* row, without a condition on the
row as it is now. Around it happen scans (`ObserveChange`, `ObserveAccess`,
`ObserveDeletion`), version bumps, switches, quarantine retries, ontology changes, merges
replayed by another document, crashes, and claims that expire whether or not their worker
lives. Each disturbance has a budget per run.

`attempts` is capped at `MaxAttempts`, which it is only ever compared with. Backoff is abstracted:
a failed row may be due at any time. Every execution derives anew; the code reuses an artifact of
the same version, which is the same to the model, and `_extract_decisions` returns when a record
exists, whatever version made it (`pipeline/runner.py:2204`), so a re-run of that stage derives
nothing. What stages derive about other documents is the subject of `FileRelations` and
`MatterProfiles`.

### SyncRuns and SourceLease

`provider` is the orchestrator the installation is configured with, for good (`Hatchet` or the
local one). `status`, `known` (the engine's id is recorded), `quiet` (how long ago the row
was written) and `news` are the row; `job` is what really executes, and where it is; `engine`
is Hatchet's own record; `call` is the process that reserved the run. Every transaction is an
action: reservation, trigger, record of the id, admission (read, then write), delta drained,
scan committed, counters, launch, completion. The sweeper judges (`Judge`) and fails
(`Sweep`) in two transactions. Threads outlive Hatchet's timeout (`TimesOut`), an accepted
trigger may look refused (`TriggerRaises`), callers and workers die, the engine may forget.
An ended row is used again, so that runs follow one another without end.

`SourceLease` is what all of this is for: one holder at a time, only the holder inside, and an
expiry after which the holder may change under whoever is inside. `KeepsLease` maps unfinished
rows to holders, scanning jobs to those inside and live work believed dead to the expiry; it is
both checked (`PROPERTY`) and proved.

The handoff is retried as often as `Retries` says; the code retries three times, the run
once, because a second retry meets the same row as the first.

### InsertionBatches

The orchestrator (`provider`) is the installation's, as in `SyncRuns`. A batch is a row (`status`,
`known`, the documents it owns, whether it refreshes permissions) and a call that creates,
reserves, triggers and marks it (`call`). A document is the first of its stages that is not
settled (`at`), whether a worker holds that stage (`held`), and whether its permissions are due
(`access`); what a reset does to an attempt under way is `ProcessingLedger`'s. Each batch has one
Hatchet workflow per document, a chain of tasks with retries (`task`), which claims and derives,
then asks for the progress lock and refreshes the row or leaves that to whoever holds it. Several
sweepers pick a silent or abandoned row and reconcile it or fail it, after a verdict that may be
out of date. The local orchestrator drains the whole queue in the caller.

`overtaken` records a batch that was marked as triggered over its completion, `strained` that
live work was taken for dead.

### BackupRuns

Backups and restores are rows of the ledger that they copy: `copy` is the ledger inside each
archive, with its own run unfinished. A backup prepares its staging directory, names it on
the row, captures one component after the other (the ledger first), gives the directory back,
clears it, writes the manifest, verifies, prunes, completes. A restore stages one archive and
applies it component by component, the ledger included, so that the rows everybody writes to
are replaced under them. The next reservation releases what a restore brought back unfinished,
by looking for its directory on the disk (`release_restored_runs`).

A dispatch has three outcomes: Hatchet accepts it (`Trigger`), refuses it (`Raises`, the row is
closed), or accepts it and the answer is lost (`TriggerLost`): the caller then closes the row of a
workflow that runs (`FailDispatch`), before or after that has started, and another backup can be
reserved beside it. Such a history is marked `strained`. In the code Hatchet's own concurrency of
one still keeps the two captures apart; the model does without it. The id of the workflow, which
only the sweeper's probe reads, is left out.

Abstracted: reading the status of a row and writing `running` over it is one step (`Start`); the
retention ladder is any choice that keeps the newest `MinKeep`; a clock that goes backwards is an
order of reservations other than that of the ids; the sweeper's thresholds are its outcome
(`Sweep`); removing a staging directory does not fail; putting the ledger back is one step.

### FileRelations

`link`, `doc`, `ord`, `final`, `docs`, `crown`, `supersedes`, `refers` and `intents` are the
tables of `pipeline/runner.py`. `Materialized` is `_materialize_file_relation` from the first
statement to the last, written as operators over those tables (`Merged`, `SetApart`, `Absorbed`,
`Ordered`, `Renumbered`, `Crowned`), and `Replayed` is the replay of a parked decision. A
transaction locks and computes from what it reads (`RelateBegins`, `ClassifyBegins`) and later
writes the rows that it changed over whatever is there by then (`Commits`), unless a foreign key
or a vanished row refuses it (`Permitted`, `RollsBack`). Two things of several statements are one
step: that a classify which finds something parked looks again once it has the locks
(`pipeline/runner.py:1633`; that it returns before it locks when it finds nothing is what
`RelationsParked` shows), and that extraction loads entities, asks a model and writes under the
document it started with (`Derives`; `pipeline/runner.py:2011` to 2160). A file that moves during
that call would be derived under the document it left; the model does not see it.

The edges `supersedes` and `refers` are rows with a version at either end. A transaction
that moves one end of a row writes that column and no other, so a commit lays an edge over
the committed one column by column (`OverEdges`), and the foreign keys are of the rows as they
come out (`EdgesPermitted`). An earlier model had edges as a set of pairs, and with four files
the set could get an edge neither transaction has written; the proof of `EdgesHold` would not
go through on account of it.

What the model says about a file is any of `Statements`. One matter; redlines, e-mail threads
and provenance are left out.

### MatterProfiles

One row per matter, whose window starts again with every mark; `Triggers` is the timer with
its key per mark, `Starts` hands the folder to an agent, `Writes` writes the answer and
deletes the row, whatever has marked it since; `Sweeps` is the operator's command, with
neither window nor second look.

### AccessScope and Retrieval

`AccessScope` is pure: the predicate over versions that the SQL statement computes
(`ReadableBy`), the closure of a caller's principals (`Resolved`, `Expanded`), the compiled
scope and the filter of the index (`CompiledScope`, `Matches`), and which observations are
cited (`Shown`). A principal stands for its spellings.

`Retrieval` takes a search, an export or a fetched link through the statements of
`retrieval.py`, each of which sees what was committed by then, between the commits of others:
grants, syncs with memberships, relating, re-indexing. The walk over groups reads one level after
another (`connectors/principals.py:143`) and is one step here (`Identify`): memberships that change
between two levels are among the moments that `mixed` leaves out. `since` collects what the
request could have been answered with. Ranking is a choice among the hits.

### Connections

One OAuth connection with a rotating refresh token: `honoured` are the tokens the provider
accepts, `row` what is committed, `pending` what a crawl has written and not committed (and
locked). The crawl, the event manager and the administrator's requests each load the row,
talk to the provider, and write the whole row back. Subscriptions have the provider's side
(`upstream`: fresh, due, lapsed) and the row's (`watch`), which a pass of the manager commits
at its end.

Abstracted: access tokens, which outlive a rotation, are not told apart; the crawl redeems
and persists in one step; a session that the database rolls back ends like one whose process
died (`SyncDies`); one source with fixed targets; browsing does not wait for the row
lock; an expiry is only ever compared with the renewal margin of days.

## What the runs show

| Run | Question | Result |
| --- | --- | --- |
| `SourceSync` | `CursorSound`, `HeldObjectsIndexed`, `BulkDeletionConfirmed`, `Converges`: two objects, edits and an omission, a failure at any step, two changes of selection or policy (widened and narrowed back) | hold |
| `Ledger` | the four properties of an undisturbed document and `Settles`, for four mixes of disturbances (`Edited`, `Rerun`, `Troubled`, `Configured`), two workers | hold |
| `SyncRunsLive` | `OneActiveRun`, `UnstrainedScansAlone`, `RunsEnd`, `ChangesReachSource`, `KeepsLease`, on either orchestrator: one fault and one piece of live work believed dead | hold |
| `BatchesOwned` | `UnstrainedDrivenOnce`, `LastTaskCompletes`: two batches, two documents of two stages, a failure and work put back | hold |
| `BatchesEnd` | a batch ends, on Hatchet whatever happens, under the local orchestrator unless its process died | holds |
| `Backups` | three runs in any order, one fault or lost answer: captures alone, what archives hold, no live run released, completed is whole, runs end | hold |
| `Relations` | three files, any decision about any other (a placement is before the other, `Places`), two transactions at a time, one stage put back: no husks, no dangling edges, nothing derived under another document, delivery, order | hold |
| `RelationsParked` | a parked decision waits only for a file without a matter | violated, see below |
| `Matters` | two documents, two marks, an operator, two failures: a marked matter is profiled, nothing is forgotten | hold |
| `Answers` | three requests and commits over two versions, three observations, nested groups and an alias: answers and citations were the caller's, nothing steady is missed, the closure of groups | hold |
| `Connections` | a crawl, the manager, two requests, one fault or one browse: the token is kept, the target stays watched | hold |
| `ConnectionsBrowsed` | the stored token is always good or its successor in hand | violated, see below |

**Conditions.** What each history variable leaves out, and nothing else:

| Condition | The event it excludes | Why the property is false with it |
| --- | --- | --- |
| `~raced` (ledger) | a scan or a requeue lands while an attempt of the document executes | the attempt writes its result over the reset |
| `~skewed` (ledger, `UndisturbedIsCurrent` only) | a failure recorded over a settled row; new permissions over an index stage that is not up to date; a stage put back behind one that is not settled; a stage switched on, other than the last; a version or switch changed under an attempt or a pending refresh | each leaves a stage done that no later step compares with what the stages before it now hold |
| `strays` (`Converges`) | a crawl of a selection fails, its rows are committed, and the selection is changed back before a crawl reaches its end | the fingerprints are equal, delta runs follow, and the rows stay |
| `Stranded` (runs, batches; `RunsEnd`, `ChangesReachSource`, `BatchesEnd`) | under the local orchestrator, the process of a run or batch has died | no timer sweeps there; the row blocks its source, or owns its documents, until somebody opens the console |
| `~strained` (runs, batches, backups) | live work is believed dead: by a sweep, by Hatchet's timeout, or by a caller that lost the answer to an accepted trigger | a second one starts beside it; a batch whose documents another batch's tasks settled ends with a refresh at an early stage, which may be skipped (`LastTaskCompletes`); an archive holds the queued row of the backup beside it (`UndisturbedCopies`) |
| `b \notin overtaken` (batches) | a batch is marked as triggered over its completion | its row says running with nothing to do |
| `~mixed` (backups) | a backup is reserved while a restore is in flight | the code accepts it |
| `~disturbed` (relations) | two transactions on the files of one document overlap, or a file is related to one that is being classified | locks name files, the rows belong to documents |
| `~crossed` (profiles) | two agents have one folder open | the one that read first may write last |
| `~since.mixed` (answers) | memberships change between the statement that reads them and the one that reads the grants | groups of one moment meet grants of another |
| `dropped`, `crossed`, `lapsed` (connections) | a process dies, or a browse ends, with a token not stored; a request writes a replaced token back; a subscription runs out at the provider | see below |
| no alias of an administrator (`UnmixedFinds`) | a caller is an administrator only through an alias | the SQL predicate lets such a caller read what the choice of observations then leaves uncited |
| `spent.omits = 0` (`CursorSound`, `Converges`) | a crawl passes an object by | it is in neither the crawl nor the next delta |

None but `Stranded` excludes crashes, failures, retries, expired claims or workers that come back
after their claim was given to another.

**Bounds.** Two objects show a crawl interleaved with an edit (one seen, one not yet); two
settings (`MaxSettings`) allow a selection to be widened and narrowed back, with a failed crawl
between; edits, omissions and settings together are no more than three (`MaxSurprises`); larger
deletions, where another set of the same size is possible, are covered by the theorems, which hold
for any estate. Two stages are a stage with a predecessor and the last one, whose row is about
access; the theorems about the ledger have any number. Two workers are what two attempts on one
row need, and two attempts make the limit differ from the first failure. The run `Ledger` starts
with one of four budgets, which keeps disturbances of different kinds apart from each other, and
those of one kind together. Two run rows are enough because at most one is unfinished, which is
proved for any number. Three backups are an archive, the restore of it and what comes after. Three
files are a chain of two and a newcomer, or a file that leaves two behind; placements are `before`
the other only, and `ChainOrderKept` is for any place. A fault of a backup may be an error, a
death, a lost answer or a lost component; the answer that is lost is that of the run with the
least id (`Lossy`), which may be reserved first, second or third, and nothing else declares live
work dead (`MaxStalls = 0`); the theorems are for any number of either. Three tokens allow two
rotations by different writers. Faults are one per run, two where a retry is what matters: each
property is about the state one fault leaves behind. Every other bound is a constant named `Max...`.

**Deadlock** is not reported where the system really stops: a document that settled, a queue
that drained, a request that was answered, with the budgets used up.

**Fairness.** Only weak fairness is used, with one exception.

- `SourceSync`: a scan goes on and a next one starts (`WF(EngineStep)`); the scheduler enqueues
  due sources in a loop for ever. Nothing is assumed of the ageing of the permissions, so the
  periodic full crawl helps no liveness result.
- `ProcessingLedger`: the queue is drained, an attempt that executes ends, the recovery timer
  (`_start_claim_recovery`) expires abandoned claims (the Hatchet worker's; under the local
  orchestrator each run recovers claims before it drains, `pipeline/runner.py`'s
  `run_until_idle`), every run requeues outdated and newly enabled stages first; no disturbance is
  fair.
- `SyncRuns`: what executes goes on, and the scheduler ticks: it lives in the app process (`ki serve`), which every deployment has (`sync/scheduler.py:17`). Time passes for a row nobody
  writes. The sweeper has its timer in the Hatchet worker and nowhere else
  (`orchestration/hatchet.py:627`, 685-711, `pipeline.md:276`), so its fairness is conditional
  (`WF(Hatchet /\ Judge)`, `WF(Hatchet /\ Sweep)`): under the local orchestrator a sweep may
  happen, when somebody polls `/api/status` or `/api/runs`, and nothing promises it. The liveness
  properties make the exception that follows (`Stranded`): a run whose process died blocks its
  source, and changes need not reach it. `KI_RUN_SWEEP_SECONDS=0` makes a Hatchet installation one
  without the timer.
- `InsertionBatches`: callers and tasks go on; claims expire and sweepers go on by the timers of
  the Hatchet worker, with the same condition and the same exception. Strong fairness is for one
  thing: on Hatchet a batch with nothing behind it is picked as abandoned in the end, although its
  silence may be interrupted by writers of its row (`SF` of `Pick`).
- `BackupRuns`: what executes goes on; a run with nobody behind it is swept. That again is the
  Hatchet worker's timer; under the local orchestrator `RunsEnd` needs somebody who looks at the
  console, which an operator who waits for a backup does.
- `MatterProfiles`: what was classified is related, the window passes, the timer ticks, Hatchet
  runs what it was given, agents answer. No operator need sweep.
- `Connections`: crawls and requests end and the manager's timer fires.

## What is proved

TLAPS checks these for every value of the constants, under the named assumptions of the
modules (finite sets of objects, positive limits, natural bounds, markers such as `NoPrint`
that are none of the values they stand in for). `MatterProofs` is for both components that are
about one matter, `FileRelations` and `MatterProfiles`.

| Theorem | Says | Argument |
| --- | --- | --- |
| `SourceSyncProofs!TypeCorrect` | the state of a sync keeps its types | one step per action |
| `SourceSyncProofs!HeldStaysIndexed` | an object of a held deletion stays indexed | `ConfirmationInv` |
| `SourceSyncProofs!BulkDeletionNeedsAgreement` | a bulk deletion follows the required number of identical crawls | `ConfirmationInv` and the step that commits |
| `SourceSyncProofs!NothingBehindTheCursorIsLost` | no change behind a stored cursor is missing from the mirror, if tokens are taken first and permissions age | `CursorInv` |
| `ProcessingLedgerProofs!TypeCorrect` | rows, attempts and budgets keep their types | `Bounded`: contents and versions never pass the budget spent |
| `ProcessingLedgerProofs!UndisturbedFlows` | no row waits behind a settled one | `Flow` |
| `ProcessingLedgerProofs!QuarantineEarned` | quarantine follows a poison failure or as many failures and lost claims as the limit | `Struck` |
| `ProcessingLedgerProofs!PermissionsProjected` | a finished index stage has the permissions last seen | `Compiled` |
| `ProcessingLedgerProofs!SettledIsCurrent` | what is settled was derived from the last content by the versions configured | `Current` |
| `SyncRunsProofs!TypeCorrect` | rows and executions keep their types; only Hatchet retries | one step per action |
| `SyncRunsProofs!AtMostOneRun` | one unfinished run per source | inductive with the types |
| `SyncRunsProofs!ScansAlone` | scans never overlap unless live work was believed dead | `Honest` |
| `SyncRunsProofs!ImplementsLease` | `SyncRuns` implements `SourceLease` | each step maps to a step of the lease or a stutter |
| `InsertionBatchesProofs!TypeCorrect` | batches, tasks and positions keep their types | `Worked` |
| `InsertionBatchesProofs!DrivenOnce` | no two unfinished batches drive one document | `Inductive` |
| `InsertionBatchesProofs!LastTask` | the last task of an undisturbed batch leaves its row completed | `Lasting` |
| `BackupRunsProofs!TypeCorrect` | rows, executions and archives keep their types | one step per action |
| `BackupRunsProofs!CapturesAlone` | captures never overlap while undisturbed | `IInv` |
| `BackupRunsProofs!CopiesReleasable` | an archive holds no unfinished run but its own, which names its directory, unless a live run was declared dead (a lost answer among the causes) or a backup reserved during a restore | `IInv` |
| `BackupRunsProofs!LiveKept` | no reservation, restore or sweep fails the row of a run at work | `IInv` |
| `BackupRunsProofs!CompletedWhole` | what is marked completed is offered and whole | `IInv` |
| `RetrievalProofs!TypeCorrect` | requests, worlds and links keep their types | one step per commit and statement |
| `RetrievalProofs!ReadableIsShown` | a version that the SQL predicate lets a caller read, who is no administrator, has an observation to cite | set algebra of the two predicates |
| `RetrievalProofs!AnswersWereReadable` | an answer was readable to its caller since the request began | `IInv` |
| `RetrievalProofs!CitationsWereShown` | a citation was the caller's to see since the request began | `IInv` |
| `RetrievalProofs!SearchFinds` | a search loses no document that stayed readable and indexed throughout | `Seeks` |
| `RetrievalProofs!GroupsAreClosed` | the principals of a request are the closure of the caller under membership | `ExpandedIsClosure` |
| `RetrievalProofs!TighterGrantsOpenNothing` | fewer allows of projects and documents, and more denials of anything, open nothing | set algebra of the SQL predicate |
| `MatterProofs!TypeCorrect` | the tables of relations and the transactions on them keep their types | `Typed` |
| `MatterProofs!NoHusks` | undisturbed, every version is observed at a file and every document has a version | `Whole` |
| `MatterProofs!EdgesHold` | undisturbed, a supersession joins versions that exist, and a reference documents | `Whole` |
| `MatterProofs!DerivedFollows` | undisturbed, what was derived for a file names the document it is in | `Follows` |
| `MatterProofs!DeliveredAll` | undisturbed, no decision waits for a file that has a matter and is past classify | the classify that gives the matter replays all |
| `MatterProofs!ChainOrderKept` | undisturbed, two versions that stay in a chain keep their order whatever file is placed beside them | `Orderly` |
| `MatterProofs!ProfileTypeCorrect` | the queue row, the runs and the profile keep their types | one step per action |
| `MatterProofs!ProfileGrows` | unless two runs had the matter open, a profile keeps what it derived from | `Grounded` |
| `ConnectionsProofs!TypeCorrect` | rows, actors and subscriptions keep their types | `Bounded` |
| `ConnectionsProofs!TokenKept` | the stored token is good, or its successor on its way, unless dropped or overwritten | `Apart` |

*ConfirmationInv.* That the held objects are indexed is not inductive: the session may hold
another claim than the database. The invariant says what a claim on record repeats
(`ClaimInv`: no more than the latest commits reported), that an open session has lost no row
and not touched the claim (`OpenSessionInv`), and that an ended one holds it one scan further
or has cleared it (`EndedSessionInv`).

*CursorInv.* What lies behind a cursor is mirrored in the session as well as in the database
(`Settled`, of each), since either may be what the next scan starts from. An edit comes after
every token taken so far. A crawl has, of the objects it went past, what lies behind its own
token (`Crawled`), so that storing the token at its end is safe. The permissions are aged as
long as there is no cursor, so that the first one comes from a crawl and a delta run has one
that was taken under its own selection (`Resumable`). The theorem assumes `TokenFirst` and
`AclRefresh`; without either it is false, see below.

*Flow.* That a waiting row follows an unsettled one is broken only by a predecessor that
settles without opening it. The strengthening says that the row of an executing attempt is not
itself parked (`HeldRowsOpen`), whoever holds the claim by now, and which reasons a running row
and a loaded row can have (`Reasonable`), so that `Written` and `Recorded` never leave a row
looking parked: whatever an attempt writes over its row, its end opens the next one.

*Struck.* The attempts counted on a row are no more than the failures and lost claims since they
were reset, and one more while a claim is out (`Paid`); what an attempt that is recording a
failure found on its row was paid for in the same way (`FoundPaid`), whatever became of the
row since.

*Compiled.* The grants in the chunks are the last ones if the index stage is done, and so are
those that an attempt on it has loaded (`Startled`): new permissions raise the version under
no attempt, and reopen the row if it is settled.

*Current.* Four things hold of the rows of a document that keeps its order: only a row with all
before it settled is open (`InOrder`); the content hash is that of the content last seen
(`Hashed`); only a disabled stage is skipped for good (`Skips`); and a done stage stored what
it derived from that content and from what the done stages before it still store (`Good`),
also while only its permissions are refreshed (`Marked`). An attempt has the version and the
switch of its stage as they are configured, and a stage that settled under it was done by another
attempt of the same version (`Held`), so that the second result equals the first; what it
loaded is current (`Work`). A version bump while nothing is under way makes the row outdated,
which is why the property asks for none.

*IInv* (backups). While undisturbed, no caller takes an accepted trigger for a refused one
(`Answered`); the row of a backup at work is unfinished and names its
directory only while that is on the disk (`Claimed`); no other run is unfinished beside it
and no restore at work (`Alone`); a ledger inside an archive holds no run unfinished but the
archive's own, which names its directory, and no restore (`Copied`); what was verified stays
whole (`Intact`). They need each other: putting a ledger back keeps the claim of nobody at
work because of `Alone`, and a reservation then releases exactly what `Copied` says came back
unfinished. Which runs are restores, and what a run has through its phases (`Kinds`,
`Shaped`), holds whatever disturbs.

*Honest.* Without strain, an unfinished execution belongs to a row the sweeper has no reason
to fail: what is executing is neither abandoned nor doomed, and Hatchet does not report it
ended (`Sound`). Two executions in a scan would then be two unfinished rows, which
`AtMostOneRun` excludes.

*Inductive* (batches). `Worked`: the document of a working task is held, at the stage of the
task, and no two tasks work on it, which is why a position never passes the last stage. The
rest holds without strain: only documents a batch owns have tasks, and only once its launch
was accepted (`Launched`); a batch that was failed has nothing under way that could revive
its row, and one that a sweeper picked as abandoned is still (`Ceased`); batches that may
drive their documents own different ones (`Apart`), because a reservation leaves out what an
active batch owns.

*Lasting.* While nothing disturbs a batch, a task is never ahead of its document (`InPlace`), every
document of a launched batch has a task (`Complete`), and a batch that was handed its tasks
and is not completed has one that has still to ask or is to refresh without fail (`Awaited`).
So the last task to end is that one, and finds all documents settled.

*IInv* (answers). The history holds the present (`Recorded`). Unless memberships changed between
the two statements (`mixed`), the principals computed in one are still the caller's in the next, what
was authorized was readable at some commit of the request, and what the grants that were
loaded show was shown (`Trusted`).

*Seeks.* Take a version, its document and an observation that stay findable from the first
statement of a search on. Whatever the commits between do to the rest, each statement's
result has the three: the scope, the hits, the warmed identities, the authorized sources and the grants
(`Reached`); so the answer has the document.

*ExpandedIsClosure.* The library's induction theorems cannot be used here, so the walk over
groups is shown to exist and to hold (`LevelHolds`) from the least level where it would not. A
level that is not the last brings in a new group, so there are no more levels than groups, and
the result is closed and is within every closed set.

*Grounded.* What an agent reads and what a profile derives from is in the folder, which only
grows; and whoever has the matter open alone has read all that the profile derives from, so
what it writes holds no less.

*Apart.* That the stored token is good is not inductive: what a crawl, the manager or a
request is about to store must be good when it arrives. Tokens do not pass the number issued
(`Bounded`), so a new one is nobody else's; a successor on its way into the row is honoured,
is held by one actor, and is none that anybody may still redeem or write back (`Loose`). So
no redemption spends it before it is stored.

*Typed, Whole, Follows* (relations). Three things are said of a state of the tables: that its rows
have their types and no link leads to a row that is not there (`Typed`), that versions are
observed, documents have versions, edges join rows that exist and nothing is beyond `fresh`
(`Whole`), and that derived names and documents agree (`Follows`). `Typed` always holds; the others
while undisturbed. The argument has two halves.

The first is about one transaction, from what it read to what it will write. Every operator
(`Ensured`, `Merged`, `SetApart`, `Absorbed`, `Ordered`, ...) takes such a state to such a state
and changes nothing beyond its scope: the files it names and those that share a document with
them, their versions and documents, and identifiers not yet given (`Held`). That is also said
inside a decision, where it holds with the one version or document excepted that the decision
has just emptied and is about to absorb; which is why `AbsorbedDocumentOnly` breaks it. A
classify replays any number of parked decisions, and
the library's induction theorems cannot be used; so the replay is followed to the
least step at which it would go wrong. That it applies each waiting decision is a
pigeonhole argument: a sequence as long as the set, without repetition, reaches all of it.

The second is about transactions side by side. While undisturbed, scopes are disjoint, since
`Overlaps` compares exactly the files near those named (`ScopesApart`); so what a transaction read
is still there when it commits, within its scope (`Agree`). What is committed is then the
transaction's own rows inside its scope and the rows of the others outside it (`OverlayJoined`),
each of which is whole, and an edge has both of its ends on one side or leads between documents
that both sides keep. The other transactions find their scopes as they were (`JoinedAgree`).

*Orderly* (relations). The order of a chain takes both halves again. Within one transaction, a
renumbering is strictly monotone on the placed versions of its chain, because the rungs up to a
lower place are a proper subset of those up to a higher one, and a placing shifts all from
a place on, so it keeps the order of every two versions but the one it places
(`RenumberedSorted`, `OrderedSorted`). A relate places one version, that of its file, which is why
`OrderKept` leaves out the versions of the committing file. A classify replays any number of
decisions and may place a version of every origin; but each of these is drawn into the document
of the file classified, out of which no replay draws any, so a version that ends where it began
was never placed (`Drawn`, which is transitive as "places no version that stays" alone is not).
Side by side, a chain is wholly within the scope of a transaction or wholly outside, so a commit
gives two versions of a chain the places of one transaction's result or leaves both alone.

Only model-checked: all liveness (`Converges`, `Settles`, `RunsEnd`, `ChangesReachSource`, `BatchesEnd`,
`QueueDrains`, `AwaitedProfiled`, `Watched`), which is out of the prover's reach. Every invariant and
every action property that a passing run checks is a theorem.

## Where code and documentation disagree

Two are kept as runs that TLC finds violated:

- **A parked decision is not delivered** (`RelationsParked`). `_apply_relation_intents` returns
  before it locks when it finds nothing parked, so a relate that has not committed parks its
  decision after the target's classify has looked (`pipeline/runner.py:1622`); the comment at
  `pipeline/runner.py:1577` says that whichever transaction wins the lock sees the other's state.
- **Browsing loses the rotation** (`ConnectionsBrowsed`). Listing a connection's folders refreshes its
  token in a session that is never committed (`web/app.py:1917`), and the provider has
  revoked the stored one; `pipeline/runner.py:2533` and `connectors/runtime/providers.yaml:11`
  say that a rotation is stored because losing it is fatal.

The rest was met while modelling. Each is visible in the model named, by dropping the
condition of a property or restating it; no run is kept for it.

*SourceSync.*
- A connector exception after the tombstones are written commits them with the failure;
  `connectors.md:104` says nothing was removed.
- Widen a selection, fail half way, narrow it back: the fingerprints are equal, the next sync is a
  delta run, the wider documents stay (`connectors.md:168`). `Converges` excepts them (`strays`).
- The next sync counts the documents of a failed scan unchanged and hands nothing off
  (`pipeline.md:308`). They are picked up by the next insertion run of any source.
- A connector that takes its delta token after the listing (`TokenFirst = FALSE`, as
  `connectors/sources/google_drive.py:1742` does; the run takes it first) makes `CursorSound`
  false. The periodic crawl of `acl_refresh_hours` repairs it.
- With that crawl off (`AclRefresh = FALSE`) a source may have no cursor when its feed is read. A
  refused feed, a crawl that fails half way and commits rows, an object removed at the provider:
  the next delta run lists all there is from the beginning and deletes nothing
  (`sync/engine.py:309`), and the removed object stays behind the cursor it stores.

*SyncRuns.* Under the local orchestrator a run whose process died blocks its source until somebody
opens the console (`orchestration/hatchet.py:685` gives that as the reason for the timer it does
not have). An event coalesced into a run that has already drained the feed is acknowledged and not
read (`connectors/events/manager.py:226`); the change waits for the interval.

*ProcessingLedger.*
- A fetch that executes while a scan resets its row marks the row done with the old bytes
  (`pipeline/runner.py:553`, against `sync/engine.py:377`).
- A version bump that lands on a running stage leaves outputs of the old and the new version
  side by side until the next requeue (`pipeline.md:328`, `pipeline/runner.py:299`).
- Permissions that change while the index stage executes are not compiled: the running row is
  not reopened (`sync/engine.py:508`).
- A reset keeps `producer_version`, so a bump before the stage runs takes the waiting row for
  a finished one and queues it early (`pipeline.md:332`).
- A failure is recorded over the claim of another attempt, clearing it, and can strand the row
  behind (`pipeline/runner.py:597`).
- Outages and lost claims raise `attempts` too, so that the first failure of a document after
  them may be its last before quarantine (`pipeline.md:188` keeps them for visibility); an expired
  claim is due again whatever its attempts, so that a document that kills its worker every
  time is claimed for ever.
- A replayed merge parks stages that are running (`pipeline/runner.py:1784`).
- The look that keeps a failure from being stamped over finished work (`pipeline/runner.py:595`)
  is taken before the verdict commits: a row that settles in between is failed all the same, and
  a row skipped as switched off meanwhile can keep its status with its reason overwritten, so that
  switching the stage on again never queues it (`pipeline/runner.py:390`).
- A stage switched on is queued alone: what was derived after it stays, half-old in the words of
  `pipeline/runner.py:299`.
- A permission refresh of an index row that is out of date clears its version
  (`sync/engine.py:539`): the refresh keeps the old chunks and stamps them with the new version.

*InsertionBatches.*
- Marking a batch as triggered writes running with no look at the status: a batch whose
  tasks have already completed it runs again until it is declared dead (`orchestration/hatchet.py:900`).
- A progress refresh, or two sweepers, can revive the row of a batch that was failed, over
  documents the next batch owns; nothing drives them for it.
- A document put back after its batch has passed it waits until that batch ends: it is owned,
  and its tasks are over.

*BackupRuns.*
- When Hatchet accepts a trigger and the answer is lost, `_dispatch` closes the row of a workflow
  that runs (`backup/runs.py:280`). A second backup is then reserved, and the dump of the first
  holds its row: unfinished, with no directory, so that nothing but the sweeper can release it
  after a restore. `backup/runs.py:218` says that the only active backup row a dump can contain is
  the dumping run itself.
- A backup is accepted while a restore is in flight (`backup/runs.py:166` looks for backups only);
  `backup.md:239` and `orchestration/hatchet.py:339` say the reservation refuses either.
- Retention counts the directories of failed backups among the newest, and may keep those in place
  of backups that can be restored.
- A death in the middle of a deletion may leave a backup that has its manifest and lacks
  components; a destination that refuses a deletion with an `OSError` fails a run whose backup was
  verified.

*FileRelations.*
- Numbers are not dense after a duplicate is merged or a version leaves
  (`pipeline/runner.py:2851` says re-derived after any join, split or move), a NULL number
  gets one from a shift, and the final numbering depends on the order files arrive in.
- `latest_final_version_id` may name a version that was deleted or has moved.
- Two files that leave one shared version at the same time leave it without a source.

*MatterProfiles.* A document related while an agent has the folder open, or after the profile
was written, is in no profile until the matter is marked again
(`tests/test_matter_profile_queue.py:9` promises one more profile for a document that arrives
later): classifying marks, relating does not.

*Access and retrieval.*
- A readable document in no project is lost by the search filter as soon as its caller can see any
  project (`permissions.py:57`, against `tests/test_access_explain.py:130`).
- An absorbed document's own grants, denials included, are deleted with it
  (`pipeline/runner.py:1428`).
- `_bulk_authorized_sources` takes an administrator by the caller's own principals, the SQL
  predicate by those that aliases add.

*Connections.*
- A crawl's rotation is flushed, not committed, so a crash in the middle of a crawl loses it
  (`connectors/credentials.py:77`, against `connectors.md:342`).
- Starting a re-authorization, and a callback that is refused, late or reloaded, write back the
  whole row they loaded and can put back a token that was replaced meanwhile
  (`web/app.py:1597`); a crawl's persist drops the state of a handshake that began after it
  loaded the row.
- A subscription that ran out at the provider is renewed, in vain, on every pass and never
  created again (`connectors/events/manager.py:54` says the two sides converge).

## Not modelled

- *What stages derive*: model calls, file conversion, extraction, ranking and fusion. Their
  results reach the models as nondeterministic choices (a stage that fails, any statement about a
  file, any hit that represents its document).
- *Provider APIs*: paging, field mapping, cursor formats, rate limits, SharePoint, Drive and
  Notion themselves. `SourceSync` takes a provider that may omit, fail or change under a scan;
  most of the repository's lines are here and hold no state that outlives a call.
- *Backups*: the schedule, the retention ladder of days to years, encryption, the protocols of
  destinations, browsing an archive, the volume agent.
- *Changing the orchestrator* of an installation that has unfinished runs: the provider is fixed.
- *Scheduling*: when a source is due (`sync/scheduler.py`) is a tick at any time.
- *Connections*: the handshake of a connection that does not exist yet, the targets that a scope
  implies, the removal of subscriptions that are no longer wanted, the removal of a source.
- *Relations*: several matters, redlines, e-mail threads, and the version families of a matter
  profile (`apply_version_families`, `pipeline/matter_profile.py:925`), which takes no lock at
  all.
- *Access*: managing projects (`can_manage_project`), and the spelling of principals.
- *Selections*: which objects a selection admits (`connectors/scoping.py`).
- Parsing and formatting, the console, the command line, migrations, the benchmark and deployment.

Abstract specifications worth stating next: a mirror that jumps to the estate (implemented by
`SourceSync` when nothing fails) and a ledger that derives each content once it settles
(implemented by `ProcessingLedger` while undisturbed).

## Running

    tlc -workers 2 -config SyncRunsLive.cfg MCSyncRuns
    tlapm SyncRunsProofs.tla

| Configuration | Module |
| --- | --- |
| `SourceSync.cfg` | `MCSourceSync` |
| `Ledger.cfg` | `MCProcessingLedger` |
| `SyncRunsLive.cfg` | `MCSyncRuns` |
| `BatchesOwned.cfg`, `BatchesEnd.cfg` | `MCInsertionBatches` |
| `Backups.cfg` | `MCBackupRuns` |
| `Relations.cfg`, `RelationsParked.cfg` | `MCFileRelations` |
| `Matters.cfg` | `MCMatterProfiles` |
| `Answers.cfg` | `MCRetrieval` |
| `Connections.cfg`, `ConnectionsBrowsed.cfg` | `MCConnections` |

The largest take three minutes with two workers (two million states).
