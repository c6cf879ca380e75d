------------------------------- MODULE Outbox -------------------------------
(***************************************************************************)
(* The knowledge outbox of nicekit/kb/outbox.py: events written in the     *)
(* same transaction as a domain change, and consumer processes that claim  *)
(* them under a lease, run their handlers and publish them, retry them or  *)
(* give them up.  One tenant is modelled (a consumer serves the tenants    *)
(* one after the other and row-level security isolates them).              *)
(*                                                                         *)
(* An event stands for the dispatch of one domain operation on one         *)
(* aggregate, so the operation row and the lifecycle column of the         *)
(* document (or knowledge base) that the consumer writes together with the *)
(* event are functions of the event.  A purge that is dispatched again     *)
(* gets a new event row; the old row is terminal for ever, so the variable *)
(* describes the newest row.                                               *)
(*                                                                         *)
(* A database transaction is one step; a handler spans several, because    *)
(* the event is read without a lock when the handler starts and compared   *)
(* again, by claim token, only when it is published.                       *)
(***************************************************************************)
EXTENDS Integers, FiniteSets

CONSTANTS
    Event,               \* dispatches that may be requested
    Consumer,            \* consumer loops: API processes and celery workers
    Task,                \* claim tokens in use at one time (bound)
    None,                \* SQL NULL: no claim, no job
    EmittedKinds,        \* the kinds of event the producers emit
    BatchSize,           \* kb_outbox_batch_size
    Concurrency,         \* kb_outbox_concurrency
    MaxAttempts,         \* kb_outbox_max_attempts
    LeaseTicks,          \* kb_outbox_lease_seconds, in ticks
    RetryBase,           \* kb_outbox_retry_base_seconds, in ticks
    RetryMax,            \* kb_outbox_retry_max_seconds, in ticks
    PurgeWorkerEnabled,  \* kb_lifecycle_purge_worker_enabled
    MaxUserRetries       \* bound on the retries users ask for, per event

\* Event types by the handlers registered for them; no handler is registered
\* for "unknown" (an event written by a newer release).
Kinds == {"snapshot", "withdrawal", "reingestion", "purge", "kb_purge",
          "unknown"}

ASSUME CardinalAssumption == IsFiniteSet(Event) /\ IsFiniteSet(Task)
ASSUME NoneAssumption == None \notin Task \cup Event
ASSUME KindAssumption == EmittedKinds \subseteq Kinds
ASSUME SettingsAssumption ==
    /\ BatchSize \in Nat \ {0}
    /\ Concurrency \in Nat \ {0}
    /\ MaxAttempts \in Nat \ {0}
    /\ LeaseTicks \in Nat \ {0}
    /\ RetryBase \in Nat \ {0}
    /\ RetryMax \in Nat \ {0}
    /\ MaxUserRetries \in Nat
    /\ PurgeWorkerEnabled \in BOOLEAN

VARIABLES
    (* the event row *)
    kind,         \* event_type
    status,       \* OutboxStatus, "absent" before the row is inserted
    attempts,     \* attempts
    claim,        \* claimed_by
    lease,        \* ticks left before claim_expires_at
    delay,        \* ticks left before available_at
    (* the rows the same transactions write *)
    op,           \* status of the operation, "none" where there is none
    lifecycle,    \* lifecycle_status of the document or knowledge base
    (* the consumers' memory *)
    pc,           \* where the coroutine of a claim token is
    job,          \* the event it was started for
    round,        \* where a consumer's polling round is
    remaining,    \* events the round may still claim
    awaited,      \* the coroutines the round's gather waits for
    (* history, and the users *)
    effects,      \* handler transactions committed for this dispatch
    partial,      \* handler work committed ahead of the publication
    userRetries,  \* retries users asked for
    asked         \* of these, the requests still before their transaction

rowVars == <<kind, status, attempts, claim, lease, delay>>
domainVars == <<op, lifecycle>>
consumerVars == <<round, remaining, awaited>>
taskVars == <<pc, job>>
historyVars == <<effects, partial, userRetries, asked>>
vars == <<rowVars, domainVars, consumerVars, taskVars, historyVars>>

Statuses == {"absent", "pending", "processing", "published", "dead_letter"}
OpStatuses == {"none", "pending", "processing", "completed", "failed",
               "dead_letter"}
Lifecycles == {"none", "withdrawal_pending", "reingestion_pending",
               "purge_pending", "withdrawn", "active", "purged"}
TaskStates == {"idle", "claimed", "handling", "checkpointed", "raised"}
Rounds == {"recover", "claim", "gather"}

TypeOK ==
    /\ kind \in [Event -> Kinds]
    /\ status \in [Event -> Statuses]
    /\ attempts \in [Event -> 0..MaxAttempts]
    /\ claim \in [Event -> Task \cup {None}]
    /\ lease \in [Event -> 0..LeaseTicks]
    /\ delay \in [Event -> 0..RetryMax]
    /\ op \in [Event -> OpStatuses]
    /\ lifecycle \in [Event -> Lifecycles]
    /\ pc \in [Task -> TaskStates]
    /\ job \in [Task -> Event \cup {None}]
    /\ round \in [Consumer -> Rounds]
    /\ remaining \in [Consumer -> 0..BatchSize]
    /\ awaited \in [Consumer -> SUBSET Task]
    /\ effects \in [Event -> Nat]
    /\ partial \in [Event -> BOOLEAN]
    /\ userRetries \in [Event -> 0..MaxUserRetries]
    /\ asked \in [Event -> 0..MaxUserRetries]

Init ==
    /\ kind \in [Event -> EmittedKinds]
    /\ status = [e \in Event |-> "absent"]
    /\ attempts = [e \in Event |-> 0]
    /\ claim = [e \in Event |-> None]
    /\ lease = [e \in Event |-> 0]
    /\ delay = [e \in Event |-> 0]
    /\ op = [e \in Event |-> "none"]
    /\ lifecycle = [e \in Event |-> "none"]
    /\ pc = [t \in Task |-> "idle"]
    /\ job = [t \in Task |-> None]
    /\ round = [c \in Consumer |-> "recover"]
    /\ remaining = [c \in Consumer |-> 0]
    /\ awaited = [c \in Consumer |-> {}]
    /\ effects = [e \in Event |-> 0]
    /\ partial = [e \in Event |-> FALSE]
    /\ userRetries = [e \in Event |-> 0]
    /\ asked = [e \in Event |-> 0]

-----------------------------------------------------------------------------
(***************************************************************************)
(* Producers and users                                                     *)
(***************************************************************************)

HasOperation(e) == kind[e] \notin {"snapshot", "unknown"}

\* The lifecycle a request leaves its document or knowledge base in.
RequestedLifecycle(e) ==
    IF kind[e] = "withdrawal" THEN "withdrawal_pending"
    ELSE IF kind[e] = "reingestion" THEN "reingestion_pending"
    ELSE IF kind[e] \in {"purge", "kb_purge"} THEN "purge_pending"
    ELSE "none"

\* A domain transaction writes the event, its operation and the lifecycle.
Emit(e) ==
    /\ status[e] = "absent"
    /\ status' = [status EXCEPT ![e] = "pending"]
    /\ op' = [op EXCEPT ![e] = IF HasOperation(e) THEN "pending" ELSE "none"]
    /\ lifecycle' = [lifecycle EXCEPT ![e] = RequestedLifecycle(e)]
    /\ UNCHANGED <<kind, attempts, claim, lease, delay, consumerVars, taskVars,
                   historyVars>>

\* A dispatch starts afresh: the same row is reset, or a new one inserted.
Redispatch(e) ==
    /\ status' = [status EXCEPT ![e] = "pending"]
    /\ attempts' = [attempts EXCEPT ![e] = 0]
    /\ claim' = [claim EXCEPT ![e] = None]
    /\ lease' = [lease EXCEPT ![e] = 0]
    /\ delay' = [delay EXCEPT ![e] = 0]
    /\ effects' = [effects EXCEPT ![e] = 0]

\* Whether the recorded error is one the code lets a user retry is left open.
Retryable(e) == op[e] \in {"failed", "dead_letter"}

\* A withdrawal is retried in two steps.  The endpoint reads the operation to
\* learn its type; the transaction that follows locks the row, but the status
\* it tests is the one the endpoint's session remembers.
ReadWithdrawal(e) ==
    /\ kind[e] = "withdrawal"
    /\ Retryable(e)
    /\ userRetries[e] < MaxUserRetries
    /\ userRetries' = [userRetries EXCEPT ![e] = @ + 1]
    /\ asked' = [asked EXCEPT ![e] = @ + 1]
    /\ UNCHANGED <<rowVars, domainVars, consumerVars, taskVars, effects, partial>>

\* The event is reset whatever its status.  An operation that is completed by
\* now keeps its completed_at, and the table's check constraint refuses it.
RetryWithdrawal(e) ==
    /\ asked[e] > 0
    /\ asked' = [asked EXCEPT ![e] = @ - 1]
    /\ IF op[e] # "completed"
       THEN Redispatch(e) /\ op' = [op EXCEPT ![e] = "pending"]
       ELSE UNCHANGED <<status, attempts, claim, lease, delay, effects, op>>
    /\ UNCHANGED <<kind, lifecycle, partial, userRetries, consumerVars, taskVars>>

\* The retry of a knowledge base purge tests the operation it has locked.
RetryKbPurge(e) ==
    /\ kind[e] = "kb_purge"
    /\ Retryable(e)
    /\ userRetries[e] < MaxUserRetries
    /\ Redispatch(e)
    /\ op' = [op EXCEPT ![e] = "pending"]
    /\ userRetries' = [userRetries EXCEPT ![e] = @ + 1]
    /\ UNCHANGED <<kind, lifecycle, partial, asked, consumerVars, taskVars>>

\* A reingestion whose release event exists: event, operation and document.
RetryReingestion(e) ==
    /\ kind[e] = "reingestion"
    /\ Retryable(e)
    /\ lifecycle[e] = "withdrawn"
    /\ userRetries[e] < MaxUserRetries
    /\ Redispatch(e)
    /\ op' = [op EXCEPT ![e] = "pending"]
    /\ lifecycle' = [lifecycle EXCEPT ![e] = "reingestion_pending"]
    /\ userRetries' = [userRetries EXCEPT ![e] = @ + 1]
    /\ UNCHANGED <<kind, partial, asked, consumerVars, taskVars>>

\* A document purge is retried by operation (the lifecycle stays WITHDRAWN)
\* or submitted again (PURGE_PENDING); a new event row is written only when
\* the last one is finished.
RetryPurge(e) ==
    /\ kind[e] = "purge"
    /\ Retryable(e)
    /\ userRetries[e] < MaxUserRetries
    /\ IF status[e] \in {"published", "dead_letter"}
       THEN Redispatch(e)
       ELSE UNCHANGED <<status, attempts, claim, lease, delay, effects>>
    /\ op' = [op EXCEPT ![e] = "pending"]
    /\ \/ UNCHANGED lifecycle
       \/ /\ lifecycle[e] = "withdrawn"
          /\ lifecycle' = [lifecycle EXCEPT ![e] = "purge_pending"]
    /\ userRetries' = [userRetries EXCEPT ![e] = @ + 1]
    /\ UNCHANGED <<kind, partial, asked, consumerVars, taskVars>>

-----------------------------------------------------------------------------
(***************************************************************************)
(* A failed attempt: retry or dead letter, with the operation in step      *)
(***************************************************************************)

Exhausted_OneMore(e) == attempts[e] > MaxAttempts
Exhausted(e) == attempts[e] >= MaxAttempts

\* retry_base * 2^(attempts - 1), at most retry_max.
Backoff(e) ==
    LET doubled == RetryBase * 2^(attempts[e] - 1)
    IN  IF doubled \in 0..RetryMax THEN doubled ELSE RetryMax

SyncOperationFailure_Skipped(S, dead) == UNCHANGED domainVars
SyncOperationFailure_DocumentLeft(S, dead) ==
    /\ op' = [e \in Event |->
                IF e \in S /\ HasOperation(e) /\ op[e] # "completed"
                THEN IF e \in dead THEN "failed" ELSE "pending"
                ELSE op[e]]
    /\ UNCHANGED lifecycle

\* _sync_operation_failure, for the events S of one transaction.
SyncOperationFailure(S, dead) ==
    LET open(e) == e \in S /\ HasOperation(e) /\ op[e] # "completed"
    IN  /\ op' = [e \in Event |->
                    IF ~open(e) THEN op[e]
                    ELSE IF e \notin dead THEN "pending"
                    ELSE IF kind[e] = "purge" THEN "failed"
                    ELSE "dead_letter"]
        /\ lifecycle' = [e \in Event |->
                           IF /\ open(e)
                              /\ e \in dead
                              /\ kind[e] \in {"purge", "reingestion"}
                           THEN "withdrawn" ELSE lifecycle[e]]

\* The events S leave PROCESSING, those of dead for DEAD_LETTER, the others
\* to be claimed again when the wait of each is over.
ReleaseFailed(S, dead, wait) ==
    /\ status' = [e \in Event |->
                    IF e \in dead THEN "dead_letter"
                    ELSE IF e \in S THEN "pending" ELSE status[e]]
    /\ claim' = [e \in Event |-> IF e \in S THEN None ELSE claim[e]]
    /\ lease' = [e \in Event |-> IF e \in S THEN 0 ELSE lease[e]]
    /\ delay' = [e \in Event |-> IF e \in S \ dead THEN wait[e] ELSE delay[e]]
    /\ SyncOperationFailure(S, dead)
    /\ UNCHANGED <<kind, attempts, historyVars>>

-----------------------------------------------------------------------------
(***************************************************************************)
(* A consumer's polling round                                              *)
(***************************************************************************)

\* Handling of knowledge base purges can be switched off.
Consumed(e) == PurgeWorkerEnabled \/ kind[e] # "kb_purge"

LeaseExpired_AnyStatus(e) == status[e] # "absent" /\ lease[e] = 0
LeaseExpired_Never(e) == status[e] = "processing" /\ lease[e] < 0
LeaseExpired(e) == status[e] = "processing" /\ lease[e] = 0

\* A live coroutine holds the claim: its transaction may hold the row.
RowMayBeLocked(e) == claim[e] \in Task /\ pc[claim[e]] # "idle"

\* _recover_expired_leases: all expired claims in one transaction, without
\* the rows that are locked (SKIP LOCKED).
Recover(c) ==
    /\ round[c] = "recover"
    /\ LET expired == {e \in Event : LeaseExpired(e) /\ Consumed(e)}
       IN  \E S \in SUBSET expired :
             /\ \A e \in expired \ S : RowMayBeLocked(e)
             /\ ReleaseFailed(S, {e \in S : Exhausted(e)},
                              [e \in Event |-> 0])
    /\ round' = [round EXCEPT ![c] = "claim"]
    /\ remaining' = [remaining EXCEPT ![c] = BatchSize]
    /\ UNCHANGED <<awaited, taskVars>>

Claimable(e) == status[e] = "pending" /\ delay[e] = 0 /\ Consumed(e)

\* A token is a new UUID: nobody runs under it and no row names it.
FreshToken(t) == pc[t] = "idle" /\ \A e \in Event : claim[e] # t

AtMost(m, n) == IF m <= n THEN m ELSE n

\* The events of S, each claimed under a token of its own.
TakeClaims(S, token) ==
    /\ status' = [e \in Event |-> IF e \in S THEN "processing" ELSE status[e]]
    /\ attempts' = [e \in Event |->
                      IF e \in S THEN attempts[e] + 1 ELSE attempts[e]]
    /\ claim' = [e \in Event |-> IF e \in S THEN token[e] ELSE claim[e]]
    /\ lease' = [e \in Event |-> IF e \in S THEN LeaseTicks ELSE lease[e]]
    /\ pc' = [t \in Task |->
                IF \E e \in S : token[e] = t THEN "claimed" ELSE pc[t]]
    /\ job' = [t \in Task |->
                 IF \E e \in S : token[e] = t
                 THEN CHOOSE e \in S : token[e] = t ELSE job[t]]

\* _claim_pending, and the start of one coroutine per claim.  A batch that is
\* not full ends the round after its gather.
Claim(c) ==
    /\ round[c] = "claim"
    /\ LET claimable == {e \in Event : Claimable(e)}
           limit == AtMost(remaining[c], Concurrency)
       IN  \E S \in SUBSET claimable :
             /\ S # {}
             /\ Cardinality(S) = AtMost(limit, Cardinality(claimable))
             /\ \E token \in [S -> {t \in Task : FreshToken(t)}] :
                  /\ \A d, e \in S : token[d] = token[e] => d = e
                  /\ TakeClaims(S, token)
                  /\ awaited' = [awaited EXCEPT ![c] = {token[e] : e \in S}]
             /\ remaining' = [remaining EXCEPT ![c] =
                                IF Cardinality(S) < limit THEN 0
                                ELSE @ - Cardinality(S)]
    /\ round' = [round EXCEPT ![c] = "gather"]
    /\ UNCHANGED <<kind, delay, domainVars, historyVars>>

\* Nothing to claim: the round is over.
ClaimNothing(c) ==
    /\ round[c] = "claim"
    /\ \A e \in Event : ~Claimable(e)
    /\ round' = [round EXCEPT ![c] = "recover"]
    /\ remaining' = [remaining EXCEPT ![c] = 0]
    /\ UNCHANGED <<rowVars, domainVars, awaited, taskVars, historyVars>>

\* Every coroutine of the batch has returned.
GatherDone(c) ==
    /\ round[c] = "gather"
    /\ awaited[c] = {}
    /\ round' = [round EXCEPT ![c] =
                   IF remaining[c] > 0 THEN "claim" ELSE "recover"]
    /\ UNCHANGED <<rowVars, domainVars, remaining, awaited, taskVars,
                   historyVars>>

-----------------------------------------------------------------------------
(***************************************************************************)
(* The coroutine of one claim: _process_claimed_event                      *)
(***************************************************************************)

OwnsClaim_Unchecked(t) == status[job[t]] # "absent"
OwnsClaim_AnyToken(t) == status[job[t]] = "processing"
\* The comparison every settling statement makes.
OwnsClaim(t) == status[job[t]] = "processing" /\ claim[job[t]] = t

TaskEnds(t) ==
    /\ pc' = [pc EXCEPT ![t] = "idle"]
    /\ job' = [job EXCEPT ![t] = None]
    /\ awaited' = [c \in Consumer |-> awaited[c] \ {t}]

TaskContinues(t, state) ==
    /\ pc' = [pc EXCEPT ![t] = state]
    /\ UNCHANGED <<job, awaited>>

\* The event is read without a lock; handlers run in the same transaction.
Load(t) ==
    /\ pc[t] = "claimed"
    /\ OwnsClaim(t)
    /\ kind[job[t]] # "unknown"
    /\ TaskContinues(t, "handling")
    /\ UNCHANGED <<rowVars, domainVars, round, remaining, historyVars>>

\* _dead_letter_unknown: no handler is registered for the event's type.
DeadLetterUnknown(t) ==
    /\ pc[t] = "claimed"
    /\ OwnsClaim(t)
    /\ kind[job[t]] = "unknown"
    /\ ReleaseFailed({job[t]}, {job[t]}, delay)
    /\ TaskEnds(t)
    /\ UNCHANGED <<round, remaining>>

\* What a handler leaves of the operation and the lifecycle; a purge that is
\* refused, or fails part-way, returns normally.
HandlerOutcome(k, o, l) ==
    \/ k = "withdrawal" /\ o = "completed" /\ l = "withdrawn"
    \/ k = "reingestion" /\ o = "completed" /\ l = "active"
    \/ k \in {"purge", "kb_purge"} /\ o = "completed" /\ l = "purged"
    \/ k = "purge" /\ o = "failed" /\ l = "withdrawn"
    \/ k = "kb_purge" /\ o = "failed" /\ l = "purge_pending"

\* The lifecycles in which the handlers do not raise.
HandlerAccepts(e) ==
    /\ kind[e] = "reingestion" => lifecycle[e] = "reingestion_pending"
    /\ kind[e] = "kb_purge" => lifecycle[e] = "purge_pending"

RunHandlers(e) ==
    IF ~HasOperation(e) \/ op[e] = "completed"
    THEN UNCHANGED domainVars
    ELSE /\ HandlerAccepts(e)
         /\ \E o \in OpStatuses, l \in Lifecycles :
              /\ HandlerOutcome(kind[e], o, l)
              /\ op' = [op EXCEPT ![e] = o]
              /\ lifecycle' = [lifecycle EXCEPT ![e] = l]

\* The handlers' writes and the publication are one transaction; its commit
\* may succeed although the connection reports an error.
Publish(t) ==
    LET e == job[t] IN
    /\ pc[t] \in {"handling", "checkpointed"}
    /\ OwnsClaim(t)
    /\ RunHandlers(e)
    /\ status' = [status EXCEPT ![e] = "published"]
    /\ claim' = [claim EXCEPT ![e] = None]
    /\ lease' = [lease EXCEPT ![e] = 0]
    /\ effects' = [effects EXCEPT ![e] = @ + 1]
    /\ \/ TaskEnds(t)
       \/ TaskContinues(t, "raised")
    /\ UNCHANGED <<kind, attempts, delay, partial, userRetries, asked, round,
                   remaining>>

\* No row matched: the claim was lost, the transaction is rolled back.
FindStale(t) ==
    /\ pc[t] \in {"claimed", "handling", "checkpointed", "raised"}
    /\ ~OwnsClaim(t)
    /\ TaskEnds(t)
    /\ UNCHANGED <<rowVars, domainVars, round, remaining, historyVars>>

\* A handler raises: its transaction is rolled back.
Raise(t) ==
    /\ pc[t] \in {"handling", "checkpointed"}
    /\ TaskContinues(t, "raised")
    /\ UNCHANGED <<rowVars, domainVars, round, remaining, historyVars>>

\* The purge of a knowledge base commits after each deleted object and renews
\* the lease of the row, whoever holds it; the table's check constraint
\* refuses a claim_expires_at on a row that is not being processed.
Checkpoint(t) ==
    LET e == job[t] IN
    /\ pc[t] \in {"handling", "checkpointed"}
    /\ kind[e] = "kb_purge"
    /\ op[e] # "completed"
    /\ IF status[e] = "processing"
       THEN /\ op' = IF pc[t] = "handling"
                     THEN [op EXCEPT ![e] = "processing"] ELSE op
            /\ lease' = [lease EXCEPT ![e] = LeaseTicks]
            /\ partial' = [partial EXCEPT ![e] = TRUE]
            /\ TaskContinues(t, "checkpointed")
       ELSE /\ UNCHANGED <<op, lease, partial>>
            /\ TaskContinues(t, "raised")
    /\ UNCHANGED <<kind, status, attempts, claim, delay, lifecycle, round,
                   remaining, effects, userRetries, asked>>

\* _mark_failed_attempt, in a transaction of its own.
MarkFailed(t) ==
    LET e == job[t] IN
    /\ pc[t] = "raised"
    /\ OwnsClaim(t)
    /\ ReleaseFailed({e}, IF Exhausted(e) THEN {e} ELSE {},
                     [d \in Event |-> Backoff(d)])
    /\ TaskEnds(t)
    /\ UNCHANGED <<round, remaining>>

\* A coroutine is lost: canceled, or its bookkeeping raises.  The gather that
\* waits for it raises and the round is over; the other coroutines go on.
TaskDies(t) ==
    /\ pc[t] # "idle"
    /\ pc' = [pc EXCEPT ![t] = "idle"]
    /\ job' = [job EXCEPT ![t] = None]
    /\ round' = [c \in Consumer |->
                   IF t \in awaited[c] THEN "recover" ELSE round[c]]
    /\ remaining' = [c \in Consumer |->
                       IF t \in awaited[c] THEN 0 ELSE remaining[c]]
    /\ awaited' = [c \in Consumer |->
                     IF t \in awaited[c] THEN {} ELSE awaited[c]]
    /\ UNCHANGED <<rowVars, domainVars, historyVars>>

\* A process dies with its coroutines and is started again.
Restart(c) ==
    /\ round[c] # "recover"
    /\ pc' = [t \in Task |-> IF t \in awaited[c] THEN "idle" ELSE pc[t]]
    /\ job' = [t \in Task |-> IF t \in awaited[c] THEN None ELSE job[t]]
    /\ round' = [round EXCEPT ![c] = "recover"]
    /\ remaining' = [remaining EXCEPT ![c] = 0]
    /\ awaited' = [awaited EXCEPT ![c] = {}]
    /\ UNCHANGED <<rowVars, domainVars, historyVars>>

-----------------------------------------------------------------------------
\* Time: every lease and every wait is one tick nearer to its end.
Tick ==
    /\ \E e \in Event : lease[e] > 0 \/ delay[e] > 0
    /\ lease' = [e \in Event |-> IF lease[e] > 0 THEN lease[e] - 1 ELSE 0]
    /\ delay' = [e \in Event |-> IF delay[e] > 0 THEN delay[e] - 1 ELSE 0]
    /\ UNCHANGED <<kind, status, attempts, claim, domainVars, consumerVars,
                   taskVars, historyVars>>

EventStep(e) ==
    \/ Emit(e) \/ ReadWithdrawal(e) \/ RetryWithdrawal(e)
    \/ RetryKbPurge(e) \/ RetryReingestion(e) \/ RetryPurge(e)

ConsumerStep(c) ==
    Recover(c) \/ Claim(c) \/ ClaimNothing(c) \/ GatherDone(c) \/ Restart(c)

TaskStep(t) ==
    \/ Load(t) \/ DeadLetterUnknown(t) \/ Publish(t) \/ FindStale(t)
    \/ Raise(t) \/ Checkpoint(t) \/ MarkFailed(t) \/ TaskDies(t)

Next ==
    \/ \E e \in Event : EventStep(e)
    \/ \E c \in Consumer : ConsumerStep(c)
    \/ \E t \in Task : TaskStep(t)
    \/ Tick

Spec == Init /\ [][Next]_vars

\* Handlers end, polling rounds go on, and time passes.  A process that is
\* restarted over and over lives, again and again, to its next claim.
Fairness ==
    /\ WF_vars(Tick)
    /\ \A c \in Consumer :
         /\ WF_vars(Recover(c))
         /\ WF_vars(ClaimNothing(c) \/ GatherDone(c))
         /\ SF_vars(Claim(c))
    /\ \A t \in Task :
         /\ WF_vars(Load(t) \/ DeadLetterUnknown(t) \/ FindStale(t))
         /\ WF_vars(Publish(t) \/ Raise(t))
         /\ WF_vars(MarkFailed(t))

FairSpec == Spec /\ Fairness

-----------------------------------------------------------------------------
(***************************************************************************)
(* Properties                                                              *)
(***************************************************************************)

\* Handlers are retried and workers overtake each other, yet the effects of a
\* dispatch are committed exactly once, together with its publication.
EffectsOncePerDispatch ==
    \A e \in Event : effects[e] = IF status[e] = "published" THEN 1 ELSE 0

\* The operation a client polls tells the truth about the event that drives
\* it: open while the event is, failed when the event is dead, and never
\* pending when nothing will run it.
OperationMirrorsDispatch ==
    \A e \in Event : HasOperation(e) =>
        /\ status[e] = "pending" => op[e] = "pending"
        /\ status[e] = "processing" => op[e] \in {"pending", "processing"}
        /\ status[e] = "published" => op[e] \in {"completed", "failed"}
        /\ status[e] = "dead_letter" => op[e] \in {"failed", "dead_letter"}

\* Work that was given up releases its document: a failed reingestion or
\* purge leaves it WITHDRAWN, from where it can be asked for again.
FailedWorkReleasesDocument ==
    \A e \in Event :
        kind[e] \in {"reingestion", "purge"} /\ Retryable(e)
            => lifecycle[e] = "withdrawn"

\* While its lease runs, a claim is settled by the coroutine it was given to
\* and by nobody else: no recovery, no overtaken worker, and no user, but for
\* a withdrawal's retry that was asked for while the operation had failed.
LiveClaimStep ==
    \A e \in Event :
        status[e] = "processing" /\ lease[e] > 0 /\ claim'[e] # claim[e]
            => LET t == claim[e]
               IN  \/ job[t] = e /\ pc[t] \in TaskStates \ {"idle"}
                      /\ pc'[t] # pc[t]
                   \/ kind[e] = "withdrawal" /\ asked'[e] < asked[e]
LiveClaimSettledByHolder == [][LiveClaimStep]_vars

\* A dispatch is never forgotten: whatever crashes, it is published or it is
\* given up where an operator sees it.
DispatchSettles ==
    \A e \in Event :
        status[e] \in {"pending", "processing"}
            ~> status[e] \in {"published", "dead_letter"}
=============================================================================
