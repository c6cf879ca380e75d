---------------------------- MODULE KbLifecycle ----------------------------
(***************************************************************************)
(* One knowledge base of nicekit/kb/lifecycle.py: it is archived, restored *)
(* or purged under a deletion plan, while requests and workers write into  *)
(* it and questions are answered from it.                                  *)
(*                                                                         *)
(* The boundary between the two is the row of the knowledge base: its      *)
(* status and its consumption epoch.  A writer takes the row FOR KEY SHARE *)
(* and keeps it until its commit; archive, restore and purge take it FOR   *)
(* UPDATE.  A purge gives its locks back with the commit after each        *)
(* deleted object.                                                         *)
(*                                                                         *)
(* An item is one piece of content: a row and, unless it is a page, the    *)
(* object in storage that the row names.  A plan hash is the record it is  *)
(* computed from.  That a request names the plan of now is no part of the  *)
(* model: a stale plan is refused and changes nothing.                     *)
(***************************************************************************)
EXTENDS Integers, FiniteSets

CONSTANTS
    Item,        \* content that may be written
    Writer,      \* requests, ingestion workers and wiki updates
    Kinds,       \* the kinds of writer there are
    Reader,      \* questions being answered
    Handler,     \* coroutines of the outbox consumers that run the purge
    None,        \* nobody
    MaxEpoch,    \* bound: changes of the boundary
    MaxAttempts, \* kb_outbox_max_attempts
    MaxRetries   \* bound: retries users ask for

WriterKinds == {"upload", "share", "ingest", "page"}

ASSUME FiniteAssumption == IsFiniteSet(Item) /\ IsFiniteSet(Writer)
ASSUME NoneAssumption == None \notin Handler \cup Item
ASSUME KindAssumption == Kinds \subseteq WriterKinds
ASSUME BoundAssumption ==
    MaxEpoch \in Nat /\ MaxAttempts \in Nat \ {0} /\ MaxRetries \in Nat

VARIABLES
    (* the row of the knowledge base *)
    status,    \* lifecycle_status, "deleted" when the row is gone
    epoch,     \* consumption_epoch
    aged,      \* the retention period since archived_at is over
    (* the rows that belong to it *)
    shared,    \* a KbShare exists
    rows,      \* items with a row
    keys,      \* of these, the ones whose row names an object
    held,      \* documents under a legal hold
    run,       \* the IngestRun of a worker
    op,        \* the KnowledgeBaseLifecycleOperation and its purge objects
    event,     \* the event of the purge
    (* object storage *)
    stored,    \* objects that exist
    (* the memory of requests, workers and coroutines *)
    writer,
    reader,
    handler,
    (* history *)
    known,     \* objects a committed row has named
    retries    \* retries users asked for

kbVars == <<status, epoch, aged>>
contentVars == <<shared, rows, keys, held, run>>
purgeVars == <<op, event, handler, retries>>
vars == <<kbVars, contentVars, purgeVars, stored, writer, reader, known>>

Statuses == {"active", "archived", "purge_pending", "purged", "deleted"}
RunStatuses == {"none", "active", "ended"}
OpStatuses == {"none", "pending", "processing", "completed", "failed",
               "dead_letter"}
Errors == {"none", "purge_plan_drift", "object_delete_failed",
           "object_identity_changed", "metadata_cleanup_failed",
           "purge_dispatch_dead_letter", "purge_dispatch_retry_scheduled"}
\* _RETRYABLE_OPERATION_ERROR_CODES; "metadata_residuals" is left out, because
\* what is inserted during the deletion breaks a foreign key of it.
Retryable == {"object_delete_failed", "metadata_cleanup_failed",
              "purge_dispatch_dead_letter"}
Codes == {"legal_hold_active", "active_jobs", "retention_period_active"}
\* FORCE_BYPASSABLE_BLOCKER_CODES
Bypassable == {"retention_period_active"}

Epochs == 0..MaxEpoch
\* What a plan hash is computed from.
Plans == [status : Statuses, epoch : Epochs, rows : SUBSET Item,
          keys : SUBSET Item, runs : SUBSET Writer, jobs : SUBSET Writer,
          shared : BOOLEAN, held : SUBSET Item, stored : SUBSET Item,
          codes : SUBSET Codes]
NoPlan == [status |-> "deleted", epoch |-> 0, rows |-> {}, keys |-> {},
           runs |-> {}, jobs |-> {}, shared |-> FALSE, held |-> {},
           stored |-> {}, codes |-> {}]

WriterStates == [at : {"idle", "working", "checked", "locked", "stored"},
                 kind : WriterKinds \cup {"none"}, epoch : Epochs,
                 item : Item \cup {None}]
ReaderStates == [at : {"idle", "reading", "answered"}, epoch : Epochs,
                 seen : SUBSET Epochs]
HandlerStates == [at : {"idle", "claimed", "locked", "open", "raised"},
                  todo : SUBSET Item, removed : Item \cup {None}]

TypeOK ==
    /\ status \in Statuses /\ epoch \in Epochs /\ aged \in BOOLEAN
    /\ shared \in BOOLEAN
    /\ rows \in SUBSET Item /\ keys \in SUBSET rows /\ held \in SUBSET rows
    /\ run \in [Writer -> RunStatuses]
    /\ op \in [status : OpStatuses, error : Errors, force : BOOLEAN,
               plan : Plans, todo : SUBSET Item]
    /\ event \in [status : {"none", "pending", "processing", "published",
                            "dead_letter"},
                  owner : Handler \cup {None}, attempts : 0..MaxAttempts]
    /\ stored \in SUBSET Item /\ known \in SUBSET Item
    /\ writer \in [Writer -> WriterStates]
    /\ reader \in [Reader -> ReaderStates]
    /\ handler \in [Handler -> HandlerStates]
    /\ retries \in 0..MaxRetries

IdleWriter == [at |-> "idle", kind |-> "none", epoch |-> 0, item |-> None]
IdleReader == [at |-> "idle", epoch |-> 0, seen |-> {}]
NoHandler == [at |-> "idle", todo |-> {}, removed |-> None]
NoOperation == [status |-> "none", error |-> "none", force |-> FALSE,
                plan |-> NoPlan, todo |-> {}]

Init ==
    /\ status = "active" /\ epoch = 0 /\ aged = FALSE
    /\ shared = FALSE
    /\ rows = {} /\ keys = {} /\ held = {}
    /\ run = [w \in Writer |-> "none"]
    /\ op = NoOperation
    /\ event = [status |-> "none", owner |-> None, attempts |-> 0]
    /\ stored = {} /\ known = {}
    /\ writer = [w \in Writer |-> IdleWriter]
    /\ reader = [r \in Reader |-> IdleReader]
    /\ handler = [h \in Handler |-> NoHandler]
    /\ retries = 0

-----------------------------------------------------------------------------
(***************************************************************************)
(* The lock on the row of the knowledge base                               *)
(***************************************************************************)

\* Writers that hold the row FOR KEY SHARE, coroutines FOR UPDATE.
Sharing == {w \in Writer : writer[w].at \in {"locked", "stored"}}
Purging == {h \in Handler : handler[h].at = "locked"}

MayShare == Purging = {}
\* Mutant: the lifecycle does not wait for the writers in the boundary.
MayUpdate_IgnoresWriters == Purging = {}
MayUpdate == Purging = {} /\ Sharing = {}

-----------------------------------------------------------------------------
(***************************************************************************)
(* Writers                                                                 *)
(***************************************************************************)

SetWriter(w, s) == writer' = [writer EXCEPT ![w] = s]
WriterAt(w, at) == SetWriter(w, [writer[w] EXCEPT !.at = at])
WriterEnds(w) == SetWriter(w, IdleWriter)

\* Documents, revisions and attempts have new identifiers, and so their keys.
Fresh == {i \in Item : /\ i \notin rows \cup stored \cup known
                       /\ \A w \in Writer : writer[w].item # i}

\* _require_own_kb: a request that writes takes the row and tests its status.
BeginRequest(w) ==
    /\ writer[w].at = "idle"
    /\ MayShare
    /\ status = "active"
    /\ \E k \in Kinds \cap {"upload", "share"}, i \in Fresh :
         SetWriter(w, [at |-> "locked", kind |-> k, epoch |-> epoch, item |-> i])
    /\ UNCHANGED <<kbVars, contentVars, purgeVars, stored, reader, known>>

\* enqueue_document_ingestion: the run is committed with the epoch of now.
Enqueue(w) ==
    /\ writer[w].at = "idle"
    /\ "ingest" \in Kinds
    /\ MayShare
    /\ status = "active"
    /\ \E i \in Fresh :
         SetWriter(w, [at |-> "working", kind |-> "ingest", epoch |-> epoch,
                       item |-> i])
    /\ run' = [run EXCEPT ![w] = "active"]
    /\ UNCHANGED <<kbVars, shared, rows, keys, held, purgeVars, stored, reader,
                   known>>

\* capture_active_knowledge_base_lease, without a lock.
CaptureLease(w) ==
    /\ writer[w].at = "idle"
    /\ "page" \in Kinds
    /\ status = "active"
    /\ \E i \in Fresh :
         SetWriter(w, [at |-> "working", kind |-> "page", epoch |-> epoch,
                       item |-> i])
    /\ UNCHANGED <<kbVars, contentVars, purgeVars, stored, reader, known>>

\* Mutant: the status alone is compared.
InBoundary_AnyEpoch(e) == status = "active"
\* _knowledge_base_boundary_error, active_knowledge_base_lease_is_current
InBoundary(e) == status = "active" /\ epoch = e

\* A worker that finds the boundary crossed gives up, and its run fails.
GiveUp(w) ==
    /\ WriterEnds(w)
    /\ run' = IF run[w] = "active" THEN [run EXCEPT ![w] = "ended"] ELSE run

\* _claim_stage looks at the boundary without a lock ...
CheckStage(w) ==
    /\ writer[w].at = "working"
    /\ writer[w].kind = "ingest"
    /\ IF InBoundary(writer[w].epoch)
       THEN WriterAt(w, "checked") /\ UNCHANGED run
       ELSE GiveUp(w)
    /\ UNCHANGED <<kbVars, shared, rows, keys, held, purgeVars, stored, reader,
                   known>>

\* ... before it claims: whatever the status has become, the run of the stage
\* is inserted, unless the document it belongs to is gone.
ClaimStage(w) ==
    /\ writer[w].at = "checked"
    /\ IF status \notin {"purged", "deleted"}
       THEN WriterAt(w, "working") /\ run' = [run EXCEPT ![w] = "active"]
       ELSE WriterEnds(w) /\ UNCHANGED run
    /\ UNCHANGED <<kbVars, shared, rows, keys, held, purgeVars, stored, reader,
                   known>>

\* Before it writes, the worker takes the row and looks again.
LockBoundary(w) ==
    /\ writer[w].at = "working"
    /\ MayShare
    /\ IF InBoundary(writer[w].epoch)
       THEN WriterAt(w, "locked") /\ UNCHANGED run
       ELSE GiveUp(w)
    /\ UNCHANGED <<kbVars, shared, rows, keys, held, purgeVars, stored, reader,
                   known>>

\* The object is put into storage ahead of the commit of its row.
PutObject(w) ==
    /\ writer[w].at = "locked"
    /\ writer[w].kind \in {"upload", "ingest"}
    /\ WriterAt(w, "stored")
    /\ stored' = stored \cup {writer[w].item}
    /\ UNCHANGED <<kbVars, contentVars, purgeVars, reader, known>>

\* An upload, or the artifact of a stage whose run is still the worker's.
CommitItem(w) ==
    LET i == writer[w].item IN
    /\ writer[w].at = "stored"
    /\ WriterEnds(w)
    /\ IF writer[w].kind = "ingest" => run[w] = "active"
       THEN /\ rows' = rows \cup {i}
            /\ keys' = keys \cup {i}
            /\ known' = known \cup {i}
            /\ run' = IF writer[w].kind = "ingest"
                      THEN [run EXCEPT ![w] = "ended"] ELSE run
       ELSE UNCHANGED <<rows, keys, known, run>>
    /\ UNCHANGED <<kbVars, shared, held, purgeVars, stored, reader>>

\* A share, or a page of the wiki.
CommitRow(w) ==
    /\ writer[w].at = "locked"
    /\ writer[w].kind \in {"share", "page"}
    /\ WriterEnds(w)
    /\ IF writer[w].kind = "share"
       THEN shared' = TRUE /\ UNCHANGED rows
       ELSE rows' = rows \cup {writer[w].item} /\ UNCHANGED shared
    /\ UNCHANGED <<kbVars, keys, held, run, purgeVars, stored, reader, known>>

\* A request or a worker dies; its transaction is rolled back.
WriterDies(w) ==
    /\ writer[w].at # "idle"
    /\ WriterEnds(w)
    /\ UNCHANGED <<kbVars, contentVars, purgeVars, stored, reader, known>>

\* The sweep ends a run whose lease is over, a cancellation any other,
\* whether a worker is still at it or not.
EndRun(w) ==
    /\ run[w] = "active"
    /\ run' = [run EXCEPT ![w] = "ended"]
    /\ UNCHANGED <<kbVars, shared, rows, keys, held, purgeVars, stored, writer,
                   reader, known>>

\* A legal hold is put on a document and lifted from it, whatever the status
\* of the knowledge base.
ChangeHold(i) ==
    /\ i \in keys
    /\ held' = IF i \in held THEN held \ {i} ELSE held \cup {i}
    /\ UNCHANGED <<kbVars, shared, rows, keys, run, purgeVars, stored, writer,
                   reader, known>>

-----------------------------------------------------------------------------
(***************************************************************************)
(* Questions                                                               *)
(***************************************************************************)

\* capture_active_knowledge_base_leases
BeginAnswer(r) ==
    /\ reader[r].at # "reading"
    /\ status = "active"
    /\ reader' = [reader EXCEPT ![r] =
                    [at |-> "reading", epoch |-> epoch, seen |-> {}]]
    /\ UNCHANGED <<kbVars, contentVars, purgeVars, stored, writer, known>>

\* One of the queries of the search; what it returns is of the epoch of now.
ReadHits(r) ==
    /\ reader[r].at = "reading"
    /\ status = "active"
    /\ reader' = [reader EXCEPT ![r].seen = @ \cup {epoch}]
    /\ UNCHANGED <<kbVars, contentVars, purgeVars, stored, writer, known>>

\* The lease is compared under the lock, and the answer is given or dropped.
GiveAnswer(r) ==
    /\ reader[r].at = "reading"
    /\ MayShare
    /\ reader' = [reader EXCEPT ![r] =
                    IF InBoundary(reader[r].epoch)
                    THEN [IdleReader EXCEPT !.at = "answered"] ELSE IdleReader]
    /\ UNCHANGED <<kbVars, contentVars, purgeVars, stored, writer, known>>

-----------------------------------------------------------------------------
(***************************************************************************)
(* The deletion plan, archive and restore                                  *)
(***************************************************************************)

Jobs == {w \in Writer : run[w] = "active"}
Runs == {w \in Writer : run[w] # "none"}
ArchivedStatus == status \in {"archived", "purge_pending"}

\* _purge_blockers
Blockers ==
    {c \in Codes : \/ c = "legal_hold_active" /\ held # {}
                   \/ c = "active_jobs" /\ Jobs # {}
                   \/ c = "retention_period_active" /\ ArchivedStatus /\ ~aged}

\* _plan_payload; a purge that is pending counts as archived.
Payload ==
    [status |-> IF ArchivedStatus THEN "archived" ELSE status,
     epoch |-> epoch, rows |-> rows, keys |-> keys, runs |-> Runs,
     jobs |-> Jobs, shared |-> shared, held |-> held,
     stored |-> stored \cap keys, codes |-> Blockers]

\* _execution_hash leaves the identity of the objects out.
Executed(p) == [p EXCEPT !.stored = {}]

\* archive_knowledge_base
Archive ==
    /\ status = "active"
    /\ MayUpdate
    /\ epoch + 1 < MaxEpoch
    /\ status' = "archived" /\ epoch' = epoch + 1 /\ aged' = FALSE
    /\ shared' = FALSE
    /\ UNCHANGED <<rows, keys, held, run, purgeVars, stored, writer, reader,
                   known>>

\* restore_knowledge_base
Restore ==
    /\ status = "archived"
    /\ MayUpdate
    /\ epoch + 1 < MaxEpoch
    /\ status' = "active" /\ epoch' = epoch + 1 /\ aged' = FALSE
    /\ UNCHANGED <<contentVars, purgeVars, stored, writer, reader, known>>

\* The retention period ends.
Age ==
    /\ ArchivedStatus
    /\ ~aged
    /\ aged' = TRUE
    /\ UNCHANGED <<status, epoch, contentVars, purgeVars, stored, writer, reader,
                   known>>

\* The withdrawal of a document moves the boundary as well.
AdvanceEpoch ==
    /\ status = "active"
    /\ MayUpdate
    /\ rows # {}
    /\ epoch + 1 < MaxEpoch
    /\ epoch' = epoch + 1
    /\ UNCHANGED <<status, aged, contentVars, purgeVars, stored, writer, reader,
                   known>>

\* hard_delete_empty_knowledge_base: whatever was archived has left events.
HardDelete ==
    /\ status = "active"
    /\ MayUpdate
    /\ rows = {} /\ Runs = {} /\ ~shared /\ epoch = 0
    /\ status' = "deleted"
    /\ UNCHANGED <<epoch, aged, contentVars, purgeVars, stored, writer, reader,
                   known>>

\* submit_knowledge_base_purge: force passes over the blockers it may.
SubmitPurge(force) ==
    /\ status = "archived"
    /\ MayUpdate
    /\ Blockers \subseteq (IF force THEN Bypassable ELSE {})
    /\ status' = "purge_pending"
    /\ op' = [status |-> "pending", error |-> "none", force |-> force,
              plan |-> Executed(Payload), todo |-> keys]
    /\ event' = [status |-> "pending", owner |-> None, attempts |-> 0]
    /\ UNCHANGED <<epoch, aged, contentVars, handler, retries, stored, writer,
                   reader, known>>

-----------------------------------------------------------------------------
(***************************************************************************)
(* The purge: execute_knowledge_base_purge in a coroutine of the outbox    *)
(***************************************************************************)

SetHandler(h, s) == handler' = [handler EXCEPT ![h] = s]
HandlerEnds(h) == SetHandler(h, NoHandler)

\* The claim of the outbox.
Claim(h) ==
    /\ handler[h].at = "idle"
    /\ event.status = "pending"
    /\ event' = [status |-> "processing", owner |-> h,
                 attempts |-> event.attempts + 1]
    /\ SetHandler(h, [NoHandler EXCEPT !.at = "claimed"])
    /\ UNCHANGED <<kbVars, contentVars, op, retries, stored, writer, reader, known>>

\* Mutant: the publication does not test the claim.
Owns_Unchecked(h) == TRUE
\* The coroutine still has the claim.
Owns(h) == event.status = "processing" /\ event.owner = h

\* The handler returns: what it has written is committed with the publication
\* of its event, or rolled back when the claim is lost.
Publish(h, o) ==
    /\ IF Owns(h)
       THEN op' = o /\ event' = [event EXCEPT !.status = "published", !.owner = None]
       ELSE UNCHANGED <<op, event>>
    /\ HandlerEnds(h)

Failed(error) == [op EXCEPT !.status = "failed", !.error = error]

\* The plan is computed again and compared, blockers included.
PlanDrifted ==
    \/ Executed(Payload) # op.plan
    \/ ~(Blockers \subseteq (IF op.force THEN Bypassable ELSE {}))

\* Nothing is left to do, or the plan no longer holds.
Refuse(h) ==
    /\ handler[h].at = "claimed"
    /\ Purging = {}
    /\ \/ op.status = "completed" /\ Publish(h, op)
       \/ /\ op.status # "completed"
          /\ Sharing = {}
          /\ PlanDrifted
          /\ Publish(h, Failed("purge_plan_drift"))
    /\ UNCHANGED <<kbVars, contentVars, retries, stored, writer, reader, known>>

\* Operation and knowledge base are locked until the first commit.
Accept(h) ==
    /\ handler[h].at = "claimed"
    /\ MayUpdate
    /\ op.status # "completed"
    /\ ~PlanDrifted
    /\ SetHandler(h, [at |-> "locked", todo |-> op.todo, removed |-> None])
    /\ UNCHANGED <<kbVars, contentVars, op, event, retries, stored, writer, reader,
                   known>>

Deleting(h) == handler[h].at \in {"locked", "open"} /\ handler[h].removed = None

\* remove_object_if_unchanged: an object that is gone already is no error.
RemoveObject(h) ==
    /\ Deleting(h)
    /\ \E i \in handler[h].todo :
         /\ stored' = stored \ {i}
         /\ SetHandler(h, [handler[h] EXCEPT !.removed = i])
    /\ UNCHANGED <<kbVars, contentVars, op, event, retries, writer, reader, known>>

\* Storage fails, or the object is not the one of the preview.
ObjectFails(h) ==
    /\ Deleting(h)
    /\ \/ handler[h].todo # {} /\ Publish(h, Failed("object_delete_failed"))
       \/ /\ handler[h].todo \cap stored # {}
          /\ Publish(h, Failed("object_identity_changed"))
    /\ UNCHANGED <<kbVars, contentVars, retries, stored, writer, reader, known>>

\* Mutant: the commit after an object takes the others for deleted too.
CommitObject_AllDone(h) ==
    /\ handler[h].removed # None
    /\ event.status = "processing"
    /\ op' = [op EXCEPT !.todo = {}, !.status = "processing", !.error = "none"]
    /\ SetHandler(h, [at |-> "open", todo |-> handler[h].todo \ {handler[h].removed},
                      removed |-> None])
    /\ UNCHANGED <<kbVars, contentVars, event, retries, stored, writer, reader,
                   known>>

\* The commit after an object releases the locks; it renews the lease of the
\* event, which a check constraint refuses unless the event is processing.
CommitObject(h) ==
    LET i == handler[h].removed IN
    /\ i # None
    /\ IF event.status = "processing"
       THEN /\ op' = [op EXCEPT !.todo = @ \ {i},
                                !.status = IF handler[h].at = "locked"
                                           THEN "processing" ELSE @,
                                !.error = IF handler[h].at = "locked"
                                          THEN "none" ELSE @]
            /\ SetHandler(h, [at |-> "open", todo |-> handler[h].todo \ {i},
                              removed |-> None])
       ELSE /\ SetHandler(h, [NoHandler EXCEPT !.at = "raised"])
            /\ UNCHANGED op
    /\ UNCHANGED <<kbVars, contentVars, event, retries, stored, writer, reader,
                   known>>

\* The rows go, and the shell that stays is purged: one transaction.
CleanUp(h) ==
    /\ Deleting(h)
    /\ handler[h].todo = {}
    /\ Purging \subseteq {h}
    /\ IF Owns(h)
       THEN /\ status' = "purged" /\ epoch' = epoch + 1
            /\ rows' = {} /\ keys' = {} /\ held' = {} /\ shared' = FALSE
            /\ run' = [w \in Writer |-> "none"]
       ELSE UNCHANGED <<status, epoch, rows, keys, held, shared, run>>
    /\ Publish(h, [op EXCEPT !.status = "completed", !.error = "none"])
    /\ UNCHANGED <<aged, retries, stored, writer, reader, known>>

\* A savepoint undoes a deletion that fails, rows that others inserted meanwhile
\* being one reason.
CleanUpFails(h) ==
    /\ Deleting(h)
    /\ handler[h].todo = {}
    /\ Purging \subseteq {h}
    /\ Publish(h, Failed("metadata_cleanup_failed"))
    /\ UNCHANGED <<kbVars, contentVars, retries, stored, writer, reader, known>>

\* The handler raises; its open transaction is rolled back.
Raise(h) ==
    /\ handler[h].at \in {"claimed", "locked", "open"}
    /\ SetHandler(h, [NoHandler EXCEPT !.at = "raised"])
    /\ UNCHANGED <<kbVars, contentVars, op, event, retries, stored, writer, reader,
                   known>>

Exhausted == event.attempts >= MaxAttempts

\* An attempt is over: another one, or the dead letter, with the operation.
ReleaseFailed ==
    LET dead == Exhausted IN
    /\ event' = [event EXCEPT !.status = IF dead THEN "dead_letter" ELSE "pending",
                              !.owner = None]
    /\ op' = IF op.status = "completed" THEN op
             ELSE [op EXCEPT !.status = IF dead THEN "dead_letter" ELSE "pending",
                             !.error = IF dead THEN "purge_dispatch_dead_letter"
                                       ELSE "purge_dispatch_retry_scheduled"]

MarkFailed(h) ==
    /\ handler[h].at = "raised"
    /\ Purging = {}
    /\ IF Owns(h) THEN ReleaseFailed ELSE UNCHANGED <<op, event>>
    /\ HandlerEnds(h)
    /\ UNCHANGED <<kbVars, contentVars, retries, stored, writer, reader, known>>

\* A coroutine is lost, with the locks it has.
HandlerDies(h) ==
    /\ handler[h].at # "idle"
    /\ HandlerEnds(h)
    /\ UNCHANGED <<kbVars, contentVars, op, event, retries, stored, writer, reader,
                   known>>

\* The lease is over: the coroutine is dead, or merely slow.
Recover ==
    /\ event.status = "processing"
    /\ Purging = {}
    /\ ReleaseFailed
    /\ UNCHANGED <<kbVars, contentVars, handler, retries, stored, writer, reader,
                   known>>

\* retry_lifecycle_operation
Retry ==
    /\ op.status \in {"failed", "dead_letter"}
    /\ op.error \in Retryable
    /\ Purging = {}
    /\ retries < MaxRetries
    /\ retries' = retries + 1
    /\ op' = [op EXCEPT !.status = "pending", !.error = "none"]
    /\ event' = [status |-> "pending", owner |-> None, attempts |-> 0]
    /\ UNCHANGED <<kbVars, contentVars, handler, stored, writer, reader, known>>

-----------------------------------------------------------------------------
Write(w) ==
    \/ BeginRequest(w) \/ Enqueue(w) \/ CaptureLease(w)
    \/ CheckStage(w) \/ ClaimStage(w) \/ LockBoundary(w)
    \/ PutObject(w) \/ CommitItem(w) \/ CommitRow(w)
    \/ WriterDies(w) \/ EndRun(w)
Answer(r) == BeginAnswer(r) \/ ReadHits(r) \/ GiveAnswer(r)
Administer ==
    \/ Archive \/ Restore \/ HardDelete \/ Retry
    \/ \E force \in BOOLEAN : SubmitPurge(force)
    \/ \E i \in Item : ChangeHold(i)
\* What a coroutine does of its own accord, if it does not fail.
Work(h) ==
    \/ Claim(h) \/ Refuse(h) \/ Accept(h) \/ RemoveObject(h) \/ CommitObject(h)
    \/ CleanUp(h) \/ MarkFailed(h)
Fail(h) == ObjectFails(h) \/ CleanUpFails(h) \/ Raise(h) \/ HandlerDies(h)

Next ==
    \/ \E w \in Writer : Write(w)
    \/ \E r \in Reader : Answer(r)
    \/ \E h \in Handler : Work(h) \/ Fail(h)
    \/ Administer
    \/ Age
    \/ AdvanceEpoch
    \/ Recover

Spec == Init /\ [][Next]_vars

-----------------------------------------------------------------------------
(***************************************************************************)
(* Properties                                                              *)
(***************************************************************************)

\* What has been purged is gone: no row, run or share is left, and no object
\* that a row ever named is left behind in storage, whatever workers were in
\* the middle of when the purge began.
PurgedIsEmpty ==
    status = "purged" => /\ rows = {} /\ Runs = {} /\ ~shared
                         /\ known \cap stored = {}

\* As long as a knowledge base can still be restored nothing of it is lost:
\* no coroutine of an earlier or refused purge deletes its objects.
RestorableIsIntact ==
    status \in {"active", "archived"} => known \subseteq stored /\ keys = known

\* Only a knowledge base that was never used disappears without a trace.
DeletedWasUnused == status = "deleted" => known = {} /\ rows = {} /\ Runs = {}

\* A writer holds the boundary it was asked under when its rows are committed:
\* nothing asked for before an archive arrives during it or after a restore.
WritesStayInTheirEpoch ==
    [][\A i \in Item : i \in rows' \ rows =>
         /\ status = "active"
         /\ \E w \in Writer : writer[w].item = i /\ writer[w].epoch = epoch]_vars

\* Archiving ends every share, also one that is being granted.
ArchivedIsNotShared == status # "active" => ~shared

\* An answer is made only of what was read under the boundary that holds when
\* it is given.
AnswersAreCurrent ==
    [][\A r \in Reader :
         reader[r].at # "answered" /\ reader'[r].at = "answered"
         => status = "active" /\ reader[r].seen \subseteq {epoch}]_vars

\* The operation tells what has become of the knowledge base: a coroutine that
\* lost its claim neither completes it nor reports a failure over its success.
CompletedIsPurged == op.status = "completed" <=> status = "purged"

\* The ledger of a purge takes no object for deleted that is still there.
LedgerIsTrue ==
    op.status # "none" => \A i \in op.plan.keys \ op.todo : i \notin stored

=============================================================================
