# Verification of NiceKit

NiceKit (`packages/nicekit/src/nicekit`; the paths below are relative to it) is a Python SDK for
multi-tenant agents with a knowledge base: FastAPI endpoints, SQLAlchemy sessions on PostgreSQL, and
background work run inline or by celery. This directory holds TLA+ models of its core, the TLC runs that
check them on small instances, and TLAPS proofs for all instances.

1. [The system](#1-the-system) 2. [Modules](#2-modules) 3. [The models](#3-the-models)
4. [Runs](#4-runs) 5. [Proofs](#5-proofs) 6. [Where the code and its words differ](#6-where-the-code-and-its-words-differ)
7. [Not modelled](#7-not-modelled) 8. [Plan](#8-plan)

## 1. The system

| Component | State | Operations | Interacts with | What makes it correct |
|---|---|---|---|---|
| Outbox consumer `kb/outbox.py` | rows of `OutboxEvent`: status, attempts, claim token, lease, `available_at` | recover, claim, process, fail, dead-letter | every KB component emits events in its own transaction; handlers run in the consumer's | effects once per dispatch, no dispatch forgotten, operation and document agree with the event |
| Document lifecycle `kb/document_lifecycle.py`, `document_reingestion.py`, `document_purge.py` | `SourceDocument.lifecycle_status`, revisions, `KbDocumentOperation`, `consumption_epoch` | delete, reingest, publish, purge, retry | outbox, snapshots, ingestion runs, object storage | a withdrawn revision is in no active snapshot; a transient document has work that ends it |
| KB lifecycle `kb/lifecycle.py` | lifecycle of a knowledge base, its boundary (status and epoch) | archive, restore, purge, retry | outbox, storage, every writer and reader | a purge leaves nothing and loses nothing it was not told to; nobody writes outside the boundary |
| Snapshots `kb/snapshot.py`, collection `kb/projection_gc.py` | snapshot status, manifest, active pointer, collection mark | build, activate, roll back, collect | document lifecycle, projections, outbox | what is served, or can be gone back to, has its projections |
| Ingestion runs `kb/ingest_runs.py`, `ingestion.py` | run status, lease owner, staged artifacts | enqueue, claim, heartbeat, complete, pause, cancel, recover | dispatch, document lifecycle | an overtaken worker closes nothing; a document is never stuck |
| Embedding campaigns `kb/embedding_reindex.py` | campaigns, jobs, versions of embeddings | create, claim, embed, cut over, retry | configuration, search | the switch only when all is embedded; no vector of another text |
| Projections, search, answers, wiki, reviews | derived rows | build, query | snapshots, the boundary | answers under the boundary of now |
| Agent runs `agent/service.py`, `loop.py`, `run_inputs.py`, `terminal.py` | `ChatSession.active_run_id`, queued inputs | start, queue, interrupt, finish | tools, LLM, recovery, goals | one run per session; inputs once |
| Recovery `runtime/reliability.py` | none of its own | list and fail orphans | agent runs, ingestion runs | who is overtaken is fenced |
| iCron `agent/icron.py` | tasks, next due time | tick, claim, launch | agent runs | a due time fires once, and fires |
| Permissions `agent/permissions` | policies, grants, approvals | decide | agent tools | the decision follows rules and grants |
| LLM gateway `llm/`, cache, limits, tenancy, operations, migrations | provider health, counters, schema | - | all | - |

Hard to test in all of it: consumers, tickers and sweeps run in every API process and every worker, so every
step interleaves with the same step elsewhere; leases expire under slow work; a process may die between any
two transactions; sessions are opened with `expire_on_commit=False`, so that an object a session loaded stays
as it was while other transactions change its row, also when the row is selected again `FOR UPDATE`. The
`hazards` of `PROJECT.json` list where it bites, each with the properties that would catch it.

## 2. Modules

| Module | Content |
|---|---|
| `Outbox` | consumers, coroutines of their claims, event rows, the columns the same transactions write, user retries |
| `OutboxContract` | what the outbox promises of a dispatch, without workers, tokens or leases |
| `OutboxRefinement` | the refinement mapping: `ImplementsContract` |
| `DocumentLifecycle` | withdrawal, reingestion and purge of the documents of one knowledge base, ingest runs as far as they move a document, the served snapshot |
| `Snapshots` | builds, activation, rollback and collection of the snapshots of one knowledge base |
| `IngestRuns` | root and stages of the ingestion of one revision, with leases, sweep and user requests |
| `KbLifecycle` | archive, restore and purge of one knowledge base against its writers and readers |
| `KbContract` | what a knowledge base promises of its content |
| `KbRefinement` | two mappings: `KbLifecycle` keeps `KbContract`, and its purge keeps `OutboxContract` |
| `WithdrawalContract` | what a withdrawal promises to whoever searches |
| `DocumentRefinement`, `SnapshotRefinement` | the mappings by which `DocumentLifecycle` (of revisions) and `Snapshots` (of documents) keep it |
| `EmbeddingCampaign` | the change of the embedding model |
| `AgentRuns` | the runs of one chat session, its queue and its goal |
| `SessionContract`, `SessionRefinement` | what a chat session promises to its user, and the mapping by which `AgentRuns` keeps it |
| `Icron` | tickers, due times, clients that edit tasks |
| `MC*` | symmetry and constraints for TLC; the `.cfg` files give the constants their values |
| `*Proofs` | the theorems of the module they are named after, and their proofs (section 5) |

Modules meet in contracts. `OutboxContract`: `Outbox` implements it, and `KbLifecycle`, which has the claim, the
lease and the attempts of its one event in abridged form, implements it too. `DocumentLifecycle` has the same
deliveries without claims (a pending operation is handled, fails and is handled again, or ends in the dead
letters), which is what the contract leaves of the outbox. `WithdrawalContract`: `DocumentLifecycle` knows revisions, workers and retries
and takes a snapshot for its manifest, `Snapshots` knows rows, projections and rollbacks and takes a withdrawal for a
request and a rebuild; both keep the same promise to searches.

## 3. The models

One step of a model is one transaction, or the part of a long operation that commits nothing: row locks make
a locked transaction atomic, so deadlocks that PostgreSQL would break are not seen. `PROJECT.json` names the
lines of the code for every definition.

### Outbox

**State.** An `Event` is one dispatch of one operation, so the operation row and the lifecycle column of its
document or knowledge base are functions of it. `kind` is the event type up to the handlers registered for it:
`snapshot` stands for events without an operation, `unknown` for a type without a handler. `pc`, `job` describe
the coroutine that runs under a claim token, `round`, `remaining`, `awaited` the polling round of a consumer.
`effects` and `partial` are history: committed handler transactions, and work committed before the publication.

**Actions.** `Emit` is the request of an operation; `ReadWithdrawal`, `RetryWithdrawal`, `RetryKbPurge`,
`RetryReingestion`, `RetryPurge` are the retries. `Recover`, `Claim`, `ClaimNothing`, `GatherDone` are the steps
of `consume_outbox_once`; `Restart` is a crash of a process with its coroutines. `Load`, `DeadLetterUnknown`,
`Publish`, `FindStale`, `Raise`, `MarkFailed` are `_process_claimed_event` and what it calls; `Checkpoint` is the
commit inside the handler of a knowledge base purge; `TaskDies` is a coroutine canceled or lost to an error of
its bookkeeping. `Tick` moves time.

**Abstractions.** One tenant. A handler is its outcome on operation and lifecycle (`HandlerOutcome`): what else it
writes is in the same transaction. Time is counted in ticks. The row of a purge that is dispatched again replaces
the old one, which is terminal for ever. Which error codes a user may retry is left open. A recovery may leave any
expired row whose claim a live coroutine holds (SKIP LOCKED), and must take the others. A new claim token is any
token that nobody runs under and no row names: their number bounds the coroutines that live at one time.

### Documents

**State.** The document row and the status of each of its revisions; the root ingest run of each revision (`run`,
whether the epoch in its `stats` is still current, its workers); the operations; the knowledge base (`epoch`,
`served`). An operation is indexed by the revision it withdraws or brings back: the code keeps one withdrawal per
revision for ever (an idempotency key). A snapshot is its manifest and its epoch.

**Stale copies.** Wherever the code loads a row, then locks it, and decides on the object, the decision is on the older
copy. `request` and `kbCopy` are such copies; `worker` is the revision an ingest worker loaded when it took its run.
`Flush` is the other half: an UPDATE writes the columns whose value differs from the one loaded, and no others.

| Actions | Code |
|---|---|
| `DeleteDocument`, `RetryWithdrawal`, `WithdrawalRead`, `WithdrawalCommit`, `WithdrawalFails` | `delete_source_document`, `retry_document_operation`, `rebuild_after_document_tombstone` |
| `ReingestDocument` (`StartReingestion`, `RepublishReingestion`, `ReingestAgain`), `Publish`, `PublicationDeadLetters` | `start_or_retry_document_reingestion`, `publish_reingested_document` |
| `RefuseIngest`, `ClaimIngest`, `BeginParsing`, `FinishIngest` | `ingest_document`: refusal at the boundary, claim, the write of PARSING, the last transaction |
| `RecoverIngest`, `RecoverDocument`, `AbandonIngest` | `recover_stale_ingestion`; a worker dies |
| `RetryIngest`, `CancelIngest` | endpoints of `api/v1/kb.py` |
| `SubmitPurge`, `RetryPurge`, `PurgeDrifts`, `Purge...Fail(s)`, `PurgeDeadLetters`, `CompletePurge` | `document_purge.py`: one action per place where the phases of a purge can end |
| `ActivateSnapshot`, `MergeEntities` | a user activates a snapshot; a merge of entities advances the epoch |

**Disturbances.** A run names what may go wrong in it besides crashes and failing handlers: `stale request` (a request
works on a document it loaded earlier), `late worker` (a worker that lost its run still writes PARSING), `image
failure`, `throttling` (a rate limit puts the run back into the queue).

**Abstractions.** "failed" stands for canceled and paused documents too, and pausing is left to `IngestRuns`, as are the
claims of failed and expired runs. One late worker beside the owner of a run; one stale copy in a request or a handler.
The retry of a document whose latest revision is tombstoned (a revision added outside a reingestion) is left out. A user
activates snapshots that could be built as they are; the gates for projections and media are in `Snapshots` or nowhere.

### Snapshots

**State.** Every transaction locks the row of the knowledge base, so each is one step. `rows` are the rows of
`knowledge_snapshots`, identified by manifest and epoch as the code identifies them by a hash; `whole` and `collected` say
whether projections are there and whether `build_stats` says they were deleted; `pending` are the events of switches,
handled in any order; `bound` are transitions announced under an operation id; `copy` is the knowledge base as a
withdrawal's handler read it before its lock. Snapshots of an earlier release (`Inherited`) have no chunks of their own.

**Actions.** `BuildSnapshot` (which finds the row of the same input), `InvalidateDraft`, `ActivateSnapshot`,
`RollbackSnapshot`, `DeleteDocument`, `AdvanceEpoch`, `ReadKnowledgeBase`, `RebuildAfterTombstone`, `RebuildFails`,
`CollectProjections`.

**The epoch.** A withdrawal advances it and rebuilds; a merge of entities (`kb/entity_resolution.py:361`), an archive and a restore
(`kb/lifecycle.py:938`, `1004`) advance it and rebuild nothing (`AdvanceEpoch`). So the served snapshot may be of a passed epoch with no
withdrawal pending: it is served on, but could not be switched to again. `WithdrawalsSettle` therefore compares it
with the epoch of the last withdrawal (`withdrawnAt`, history), not with that of now. An archived knowledge base
refuses builds and switches; here an archive and a restore are two steps of `AdvanceEpoch`, with everything allowed in between, which is
more than the code does. A reingestion advances the epoch too (`kb/document_reingestion.py:599`) and rebuilds: it is in `DocumentLifecycle`.

**Abstractions.** A withdrawal here is request, read, rebuild; its operation is in `DocumentLifecycle`. Reference scanner,
image assets, reingestion and conflicts of READY events are left out. `replayed` and `withdrawnAt` are history. `Request`, `MaxDrafts`,
`MaxEpoch`, `MaxChanges` are bounds.

### Ingestion runs

**State.** `run` has the row of the root and of two stages, the second for the chunking or the only segment, each with the
epoch in its stats; `epoch` is that of the knowledge base. A worker is its place (`at`, `on`), the epoch its ingestion belongs to
(`captured`), the document status its session remembers (`seen`) and what it is about to write (`outcome`). A lease is
live or not: a heartbeat that fails once ends it, and only a new claim makes another.

**Actions.** Requests: `QueueDocument`, `CancelDocument`, `PauseDocument`, `RetryDocument`. A worker: `Deliver`, `Refuse`,
`AwaitSlot`, `CheckBoundary`, `ClaimStage`, `ReclaimStage`, `CheckRoot`, `CheckStop`, `BeginParsing`, `StageSucceeds`, `StageFails`,
`CheckSegment`, `GraphLine`, `Finish`, `Crash`. The knowledge base: `AdvanceEpoch`. Time and the sweep: `Expire`, `Stall`, `BecomesDue`, `Sweep`. A delivery needs no message: the sweep dispatches every queued
root again, however recently it was queued.

**The epoch.** `_claim_stage` is three steps. `CheckBoundary` looks at the knowledge base without a lock. `ClaimStage` upserts the row: an
upsert whose WHERE is false still locks the row it finds, so that the decision on it is in the same transaction. It claims
the row, uses an artifact of its own epoch again (`Reusable`), commits the failure of one of another epoch (`Invalidates`), or goes
without. `ReclaimStage` claims what was invalidated. Between the look and the claim the knowledge base may move on: a worker of the
passed epoch then invalidates what one of the new epoch has finished, and `Refuse` cancels a root by its primary key, whoever has it
by now. `spoiled` is the history of finished units lost in that way; `CompletedIsStaged` and `CompletedIsFinished` name them, and
say nothing else of them. An archive and a restore are two steps of `AdvanceEpoch`: an archived knowledge base is to a worker one
in another epoch.

**Abstractions.** Not in the model: the limit of the slot gate, the rejection of the facts of an invalidated run, re-extraction of typed facts, image lines in detail,
`settle_reingestion_ingest_result` (in `DocumentLifecycle`), progress, more than one segment, SKIP LOCKED.

### Knowledge bases

**State.** The row (`status`, `epoch`), the rows and stored objects of its content, legal holds, ingest runs, the purge operation
with its plan and ledger, its event, and the memory of writers (four kinds: `upload`, `share`, `ingest`, `page`), readers
and coroutines. A plan hash is the record it is computed from.

**Actions.** Writers go through `BeginRequest`/`Enqueue`/`CaptureLease`, `CheckStage`, `ClaimStage`, `LockBoundary`, `PutObject`,
`CommitItem`/`CommitRow`; readers through `BeginAnswer`, `ReadHits`, `GiveAnswer`. Administration: `Archive`, `Restore`, `Age`,
`AdvanceEpoch`, `HardDelete`, `SubmitPurge`. The purge: `Claim`, `Refuse`, `Accept`, `RemoveObject`, `ObjectFails`,
`CommitObject` (which gives the locks back), `CleanUp`, `CleanUpFails`, `Raise`, `ReleaseFailed`, `MarkFailed`, `HandlerDies`,
`Recover`, `Retry`.

**Abstractions.** The tables of a plan are rows and objects. The retry after `metadata_residuals` is left out: what is
inserted during the deletion breaks a foreign key of it. `known` and `retries` are history and bound.

### Embedding campaigns

**State.** Configuration, one chunk per knowledge base with numbered contents, `version` (the hash and the vector stored for a
chunk under a model), campaigns, jobs, and the memory of each process. **Actions.** Creation
(`Probe`, `Create`, `ReadKbs`, `InsertJob`, `CountJobs`, `Repair`), work (`Start`, `Claim`, `LoadPage`, `WriteBatch`, `Cover`,
`FinishJob`, `Count`), errors and pauses (`Breaks`, `FailJob`, `FailCampaign`, `BudgetEnds`, `PauseJob`, `PauseCampaign`, `Crash`,
`LeaseExpires`), `Retry`, `Requeue`, and the finalizer (`LockCampaign`, `Validate`, `CutOver`). The dual read is a flag
that becomes due; progress counters are derived and left out.

### Agent runs

**State.** `active_run_id`, the cancel flag, an open approval or question; for each run where its code is; the queued inputs with
owner, position and how often each has become a message; what the plan shows; the goal. `fate` is history: who was overtaken by recovery.
**Actions.** Requests (`Enqueue`, `ReadQueue`/`WriteQueue` for reordering and deletion without a lock, `SendMessage`,
`LaunchScheduled`, `CancelRun`, `SetGoal`, `EndGoal`), the turn (`Begin`, `LoopEnds`, `Consume`, `FindQueueEmpty`, `RecordUsage`,
`Settle`, `Terminate`, `Fail`, `ReturnUndecided`, `Release`), two of its tools (`UpdatePlan`, `CompleteGoal`), `Crash`, `Recover`, and the continuation of a goal
(`LockContinuation`, `StartContinuation`, ...). `inSequence` are the runs whose next message number nobody has used: the unique
constraint on it is what fences the turn of an overtaken run. **Tools** run in sessions of their own (`agent/service.py:1033-1062`) and commit
without a look at `active_run_id`, and the request to cancel is not seen by a run that is not the active one (`1762-1772`). So an
overtaken run may write the plan and complete the goal of the next run's session as long as its loop goes on: `OvertakenRunIsFenced` is
about the rest, and about what happens after the loop. A plan is one of three: nothing in progress, a step in progress, or none and a
failed one, which the user may have continued. **Abstractions.** What the model says, and which tools it calls, is
a free choice of how a loop ends; the log of events and what other tools write are left out. `max_auto_runs` is one constant: a goal that
is set anew with a smaller limit is not covered (its counter starts at 0, so that the number of its continuations is bounded all the same,
but a continuation that read the old counter may write it back above the new limit).

### Schedules

**State.** A clock, the task rows, each ticker with the moment its round began and the times it has read, the copy of a row that a
client holds. **Actions.** `CreateTask`, `ReadTask`, `UpdateTask`, `SetStatus`, `DeleteTask`; a ticker's `StartRound`, `Scan`, `Claim`,
`ScanFails`, `Launch`, `RunEnds`, `EndOrg`, `EndRound`, `Crash`. The next time of a recurring task is any later one within `Period`:
the parsing of cron expressions is left out.

## 4. Runs

| Run | Instance | Distinct states | Shows |
|---|---|---|---|
| `outbox_rows` | 2 events of five kinds, 2 consumers, 2 tokens, batch 2, 2 attempts, 1 user retry | 0.8 M | rows that leave an attempt together; the bound on attempts |
| `outbox_race` | 1 event, 2 consumers, 3 tokens, 3 attempts, leases of 2 ticks, 2 user retries | 0.2 M | claims fought over, the refinement, every dispatch settles |
| `documents_pair` | 2 documents, 2 revisions, 2 epochs; image failures, throttling | 0.5 M | the contract of a withdrawal; handlers leave other documents alone |
| `documents_purge` | 1 document that may be purged, 2 revisions, 2 epochs, all disturbances | 1.9 M | transient lifecycles end, activations are fenced |
| `snapshots` | 2 documents, one of an earlier release, 4 switches and advances of the epoch together, at most 3 of them advances (2 withdrawals, merges), 1 operation id | 0.4 M | what is served and what can be gone back to is there; the contract of a withdrawal |
| `ingest` | 2 workers, with 2 crashes or stalls or with 2 epochs | 0.7 M | completion, cancellation, staged work, and that parsing ends |
| `kb_lifecycle` | 2 items, 1 writer of four kinds, 1 reader, 2 coroutines, 3 changes of the boundary, 2 attempts, 1 retry | 1.3 M | the purge and the boundary, both contracts |
| `embedding` | 2 knowledge bases, 2 models, 2 workers, 2 campaigns, contents up to 2, 2 faults | 2.3 M | versions, switch, lost leases |
| `agents_queue` | 2 runs, 2 inputs, no goal and no plan, recovery that overtakes | 0.7 M | one run, the contract of a session |
| `agents_goal` | 2 runs, no input, a goal of 1 continuation, a plan, recovery that overtakes | 0.2 M | the limit of a goal; what an overtaken run may still do; the session is given back |
| `icron` | 1 task, 2 tickers, 1 client, periods up to 2, 3 ticks | 0.2 M | due times once, and claimed |
| `icron_once` | 1 task, 1 ticker, 3 ticks | - | a violation, section 6 |

Why that is enough: what these components do is a fight of two over one row, with a third one that has lost it.
Two consumers and three tokens are a claim that is held, one that was overtaken and one about to be taken; two
revisions are a withdrawal and the reingestion after it; two documents one whose handler runs and one that stands by;
two inputs a head and a rest; two workers the owner and the late one. Counters are bounded just high enough for the
behaviour behind them (a retry and an exhausted event; a purge after an archive, and work that meets an archive and a restore). What a
larger instance might still do differently is what the proofs are for: except for liveness, every property of these
runs is a theorem for all values of the constants. Two cases are left to the theorems on purpose: `ingest` has faults or epochs, not both in one
behaviour (`FaultsOrEpochs`), and `agents_goal` has no queued inputs, `agents_queue` no tools.

Type invariants are proved, and not checked again by the runs, but for `outbox_rows`, whose type invariant bounds the
attempts. `OneAtATime`, in `documents_purge`, keeps a stale request and a late worker of one document apart. Deadlock is
not checked where a system may be at rest: documents nobody touches, a knowledge base that is purged, a document that is
completed, a campaign that is done.

**Fairness.** Liveness is checked under assumptions the scheduling of the code justifies.
- `outbox_race`: time passes, a polling loop goes on (`run_outbox_consumer` catches every exception), a handler ends one
  way or the other, a failed attempt is booked if its coroutine lives; claims are strongly fair, since a consumer that
  is restarted again and again lives again and again long enough for one. Handlers have no time limit in the code:
  that they end is an assumption on them.
- `agents_goal`: calls to models and tools time out and a turn has a bounded number of rounds, so that it ends whatever its tools do (`TurnStep`); the sweep goes on
  (`Recover` of runs nobody executes); a continuation that holds the row ends.
- `icron`: the ticker's loop goes on and an agent run ends (weak); scans and claims are strongly fair, because a round that
  fails is followed by another.
- `ingest`: each worker goes on until it crashes; time passes, the sweep is periodic and dispatches what is queued and due (one condition for
  all of these together).

Nothing is assumed of users, crashes, lost messages or duplicates.

## 5. Proofs

Each `*Proofs` module proves its theorems for any value of the constants that satisfies the assumptions of the module it
extends: sets of any size (finite where the code counts them: items, writers, documents, events, tokens), bounds that are naturals,
`None` different from what it stands beside. The argument is the same everywhere: an inductive invariant `Inv`, one lemma
per action or group of actions, and per action one step for each part it can disturb. What has to be added to the
properties to make them inductive is what is worth reading:

| Module | Theorems | What the invariant adds, and why |
|---|---|---|
| `OutboxProofs` | `TypeCorrect`, `EffectsOnce`, `OperationsMirror`, `FailedWorkReleases`, `LiveClaims`, `OutboxImplementsContract` | `TypeInv`: a pending event has attempts left (a release never releases an exhausted one). `RowInv`: what a row's status says of its claim, effects, operation and document. `AskedOfWithdrawals`: a retry in flight is of a withdrawal, so it cannot disturb a document that a purge owns |
| `DocumentLifecycleProofs` | `TypesHold`, `WithdrawnIsNotServed`, `TransientHasWork`, `ActivationsAreFenced`, `OthersAreServedOn`, `DocumentsKeepWithdrawals` | `StampIsFinal`: what a withdrawn revision may still become; its tombstone can be overwritten by a worker that loaded it earlier, so the fact to carry is the withdrawal operation. `OlderAreWithdrawn`: only the latest revision can be in a manifest. `CopiesArePending`, `WorkIsNumbered`, `PlansAreNumbered` |
| `SnapshotsProofs` | `TypesHold`, `ServedIsUsable`, `WindowIsKept`, `LegacyIsKept`, `GarbageGoes`, `WithdrawalsAreSettled`, `WithdrawnStaysOut`, `SwitchesKeepWithdrawals` | `RowsInv`: one row is served, what can be served is whole, the collected are older than the latest retired. `WithdrawalsInv`: copies are of the past, and while a withdrawal is not in what is served a handler is left that will put it there (`WillServe`). `EventsInv`: which event will look at a retired row |
| `IngestRunsProofs` | `TypesHold`, `CompletedHasArtifacts`, `CompletedHasEnded`, `CancellationsHold`, `StagedIsKept` | `EpochsHavePassed`: what a worker captured and what a row bears is no later than the epoch of now. `PlacesAreEarned`: a worker past a stage has its artifact in the epoch it captured, unless one of a passed epoch has spoiled it. `ShownIsMade`, `EndedIsCurrent`: the artifacts behind a result are of one epoch |
| `KbLifecycleProofs` | `TypesHold`, `PurgeIsComplete`, `NothingRestorableIsLost`, `DeletionIsOfTheUnused`, `ArchiveEndsShares`, `OperationTellsThePurge`, `LedgerHolds`, `WritesAreOfTheirEpoch`, `AnswersAreOfNow`, `ContractIsKept`, `PurgeIsDispatchedOnce` | writers inside the boundary keep the status (`WritersInv`); content, objects and plan of a purge agree (`ContentInv`, `PlanInv`); claim, ledger and coroutines agree (`EventInv`, `HandlersInv`); what a reader has seen is of its epoch (`ReadersInv`) |
| `EmbeddingCampaignProofs` | `TypesHold`, `VectorsAreTrue`, `SwitchIsCovered`, `LateWorkChangesNothing` | `WorkersInv`: what a process remembers of its campaign and job; `ValidatedInv`: what a finalizer found embedded stays so until it switches, because it keeps the chunks locked |
| `AgentRunsProofs` | `TypesHold`, `RunsHoldTheSession`, `InputsAppearOnce`, `OvertakenRunsAreFenced`, `GoalRunsAreBounded`, `SessionsKeepTheirContract` | `OvertakenIsOut`: an overtaken run is out of the message sequence and its queue is empty. `FateIsCurrent`: who lost the session still executes and does not hold it. `LockedWithinLimit`: what a continuation that holds the session has read of the goal |
| `IcronProofs` | `TypesHold`, `DueTimesAreClaimedOnce` | `ReadingsAreDue`: whoever rewrites a due time writes a later one, so that a time never comes back |

**Refinements.** Six, each by mapping initial states to initial states and every step to a step of the abstract
specification or a stutter.

- `OutboxImplementsContract`: `Outbox` implements `OutboxContract`, from `SafetyInv` in the state before a step.
- `ContractIsKept`: `KbLifecycle` implements `KbContract`. The content of a knowledge base is its pages, and the objects that a committed
  row has named and that are in storage. A writer's commit is `Add`, each object removed is `Destroy`; the commit
  that ends a purge must be `FinishPurge`, which needs that the ledger is true and that nothing was committed since the
  plan; an archive ends shares that are being granted. Writers, administration and coroutines are dealt with by
  the lemmas `WritersKeep`, `AdministrationKeeps` and `CoroutinesKeep`.
- `PurgeIsDispatchedOnce`: the event of a purge, as `KbLifecycle` has it, implements `OutboxContract`. `DispatchInv` relates
  operation and event; each step of a coroutine is one of the dispatch (`GoesOn`, `Ended`, `GivenUp`, `Reopened`) or leaves it
  alone (`Untouched`). It is what makes the two models one: what the proofs of the knowledge base assume of its event is
  what `Outbox` is proved to deliver.
- `DocumentsKeepWithdrawals`, `SwitchesKeepWithdrawals`: `DocumentLifecycle` and `Snapshots` implement `WithdrawalContract`: from the request on
  what is withdrawn is in no snapshot activated afterwards, and once the withdrawal is reported as done it is out of search for
  good. A retry and a failure of a withdrawal are hidden (`RetryIsHidden`); a commit is `Finish` although its copy of the
  knowledge base is old (`CommitIsFenced`, `RebuildFinishes`); publications, activations and rollbacks are `Show`.
- `SessionsKeepTheirContract`: `AgentRuns` implements `SessionContract`. A run takes a session that is free; only the holder asks
  its user and answers; an input becomes a message in the one step that takes it from the queue, and nothing returns to the
  queue. A run that recovery overtook is not seen any more, because it is out of sequence and its queue is empty
  (`LoserEnds`). The contract has to admit one more speaker (`late`): a run that recovery evicted between its claim and the beginning
  of its turn takes its sequence number afterwards and goes on beside the next holder. Deleting an input that was consumed is
  unseen (`WriteIsDelete`).

**What is only model-checked.** Liveness (`DispatchSettles`, `SessionIsReleased`, `DueTaskIsClaimed`, `IntentIsServed`, `ParsingEnds`): it
rests on fairness and ENABLED, which the prover does not handle. Every invariant and action property of a passing
run is proved. `WithdrawnIsNotServed`, `WithdrawnStaysOut`, `InputsAppearOnce`, `NothingRestorableIsLost`, `DeletionIsOfTheUnused` and `ArchiveEndsShares` are proved and in no
run: the contracts the runs check have the visible part of them. No module uses a recursive operator.

## 6. Where the code and its words differ

Checked by a run:

- `icron_once` (`OnceTaskIsLaunched`): a task for one time is archived by the transaction that claims it
  (`agent/icron.py:1066-1072`) and its launch is then refused as `task_archived` (`713`); line 1064 says that it is archived when it has run.

Found while modelling, and in the models as the code has it:

- **Agent.** A turn that returns at a partial decision ends the run as others do: the open approval is cleared and the queue skipped,
  though a comment keeps both for the next run (`ReturnUndecided`). The tools of a run that recovery has overtaken still write: its `plan_update`
  (`agent/builtin_tools.py:475-480`) may put a step in progress after recovery has failed those there were, and nobody fails it
  afterwards unless a later run of the session is terminated, though that is what `domain/agent_plan.py:3-6` says it is for; its `update_goal` (`512`) completes whatever goal is there by then.
- **Outbox.** The docstring says handlers publish nothing before the event; the purge of a knowledge base commits after each
  object (`kb/lifecycle.py:1594`, `Checkpoint`). Of two overlapping retries of a withdrawal the second decides on a row it
  loaded before its lock, and resets an event a worker is handling: effects stay exactly-once, the attempt is lost.
- **Documents.** A DELETE loaded before a reingestion began leaves both operations pending ("reingestion operation and document lifecycle
  are inconsistent"). A failed retry of a purge withdraws a document that was reingested and served since ("source remains
  withdrawn"). A comment says a document whose images failed does not pass the publication gate: its revision is staged and the
  next build takes it. After a late worker has taken a finished document back to parsing, a retry queues no run. The write of
  PARSING (`kb/ingestion.py:1111`) compares no lease, and overwrites `canceled` and `completed`.
- **Ingestion.** A pause during parsing is overwritten, and a paused document whose images wait for review ends as
  `awaiting_review` (`kb/ingestion.py:1520`; line 1542 says otherwise: the status it reads back is the one its own session has just flushed). A
  general document is committed as completed before the fence at the end of its run (`kb/ingestion.py:2001`; the docstring of
  `IngestLeaseLostError` excludes it): `CompletedIsFinished` is stated of the others. A worker that dies between the claim of its root and
  the write of PARSING, or that loaded the document as parsing, leaves the status to the sweep. A worker of a passed epoch that stalls between its look at the boundary and its claim
  invalidates an artifact of the new epoch, and one that is refused cancels the root and the document whoever has them
  (`kb/ingestion.py:1025-1030` writes both by primary key): a document that has been completed can become canceled.
- **Knowledge bases.** A legal hold can be put on a document between the revalidation of a purge and the deletion of its object
  (`api/v1/kb.py:2502` does not look at the knowledge base): the hold is there and the object is gone. A purge that failed by drift asks for a new
  preflight, which needs an archived knowledge base, and no action leads back to that. A stage checks the boundary without a lock
  (`_claim_stage`); an upload that dies leaves an orphan object. An answer's lease compares the snapshot by value.
- **Snapshots.** A rollback sent again under the same operation id switches again and writes no event (`Announce`); a collected row
  whose rebuild failed once is built again with its mark reset.
- **Embedding.** The last job and its campaign are finished in two transactions: a process that dies between them, or an archive during the
  dual read, leaves a campaign `running` with every job ready, which no sweep moves on. A late failure fails a completed
  campaign, and a late finish reopens one for dual reading. A knowledge base archived before the switch and restored after it lacks the new vectors.
  A process with a cached configuration builds chunks under the old fingerprint.

## 7. Not modelled

The map covers about a seventh of the implementation's lines. Most of the rest changes no state that steps interleave on: queries and
ranking (`kb/search.py`), listings and administration (`api/v1`), the column definitions and migrations, the built-in tools, and extraction
and generation by language models. Beyond that:

- **Agent permissions**: a pure decision over rules and grants, evaluated in one call.
- **LLM gateway**: cool-down and selection of providers, in the memory of one process.
- **Search, answers, wiki**: read-only, or writers of derived rows; their lease on the boundary is in `KbLifecycle`.
- **Cache, limits, secrets, tenancy, operations**: counters with expiry, identities, probes; row-level security is PostgreSQL's.
- **Periodic sweeps** beyond those of the modelled components, **context compression**, the **demo application**.
- **Row-lock deadlocks** between transactions, since a locked transaction is one step.

`components` of `PROJECT.json` gives the status of each part and the reason.

## 8. Plan

1. A contract of a schedule refined by `Icron`, and of a queued job refined by `IngestRuns` and `EmbeddingCampaign`, which lease their work alike.
2. `IngestRuns` against the ingest steps of `DocumentLifecycle`: that the latter sees only what the former allows.
