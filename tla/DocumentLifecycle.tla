-------------------------- MODULE DocumentLifecycle --------------------------
(***************************************************************************)
(* The life of the source documents of one knowledge base: withdrawal      *)
(* (kb/document_lifecycle.py), reingestion (kb/document_reingestion.py),   *)
(* permanent purge (kb/document_purge.py), the root ingest run of a        *)
(* revision (kb/ingestion.py, kb/ingest_runs.py) as far as it moves the    *)
(* document, and the snapshot the knowledge base serves (kb/snapshot.py).  *)
(*                                                                         *)
(* A database transaction is one step, except where the code uses a row it *)
(* read before it had the lock.  Sessions do not expire what they loaded   *)
(* and a later SELECT ... FOR UPDATE returns the object already loaded, so *)
(* in four places a decision is taken on the older copy: the document in   *)
(* DELETE and in POST /reingest, the knowledge base in the withdrawal      *)
(* handler, and the revision an ingest worker goes on to write.  Each has  *)
(* a step that reads and a step that commits.                              *)
(*                                                                         *)
(* The handlers are those of the outbox: an operation is "pending" while   *)
(* its event may still be delivered, "failed" when the event is in the     *)
(* dead letters (or, for a purge, when the handler recorded the failure).  *)
(***************************************************************************)
EXTENDS Integers, FiniteSets

CONSTANTS
    Doc,          \* source documents
    Managed,      \* those that users act on; the others stay published (bound)
    Purgeable,    \* those that an administrator may purge (bound)
    MaxRevision,  \* bound on the revisions of a document
    MaxEpoch,     \* bound on the consumption epoch
    Disturbance,  \* what goes wrong in a run, out of Disturbances (bound)
    None          \* SQL NULL

ASSUME DocAssumption == 
    IsFiniteSet(Doc) /\ Managed \subseteq Doc /\ Purgeable \subseteq Managed
\* A request works on an old copy of its document; a worker that lost its run
\* writes while another one has it; the images of a document cannot be
\* enriched; the model throttles an ingestion.
Disturbances == {"stale request", "late worker", "image failure", "throttling"}

ASSUME BoundAssumption ==
    /\ MaxRevision \in Nat \ {0}
    /\ MaxEpoch \in Nat
    /\ Disturbance \subseteq Disturbances

Rev == 1..MaxRevision
Epoch == 0..MaxEpoch

\* A snapshot is identified by the hash of its manifest and of its
\* configuration, which holds the consumption epoch.
Snapshot == [revs : SUBSET (Doc \X Rev), epoch : Epoch]

ASSUME NoneAssumption ==
    None \notin Snapshot \cup {"active", "withdrawal_pending", "withdrawn",
                               "reingestion_pending", "purge_pending", "purged"}

VARIABLES
    (* the document row and its revisions *)
    lifecycle,    \* lifecycle_status
    docStatus,    \* status; "failed" also stands for canceled, and
                  \* "image_failed" for completed with that error
    latest,       \* the highest revision_no
    revision,     \* status of each revision; "staged" also stands for active
    (* the root ingest run of each revision and the workers that run it *)
    run,          \* status
    captured,     \* stats["consumption_epoch"] is the current epoch
    worker,       \* the last worker that claimed it, and one before (bound)
    (* operations, by the revision they withdraw or bring back *)
    withdrawal,   \* status of the withdrawal of a revision
    reingestion,  \* status of the reingestion that created a revision
    boundary,     \* its impact_summary["consumption_epoch"] is the current one
    released,     \* its event document.reingestion.staged exists
    (* the purge operation of a document *)
    purge,        \* status; "drifted" is failed and not retryable
    phase,        \* phase of the manifest; "objects" is planned as well
    planned,      \* the manifest covers the revisions 1 .. planned
    sourceGone,   \* the source object has been deleted
    (* the knowledge base and its snapshots *)
    epoch,        \* consumption_epoch
    served,       \* the active snapshot
    (* copies read before the lock, by the request or handler in progress *)
    request,      \* lifecycle seen by DELETE or POST /reingest of a document
    kbCopy        \* knowledge base seen by a withdrawal handler

docVars == <<lifecycle, docStatus, latest, revision>>
ingestVars == <<run, captured, worker>>
opVars == <<withdrawal, reingestion, boundary, released>>
purgeVars == <<purge, phase, planned, sourceGone>>
seenVars == <<request, kbCopy>>
vars == <<docVars, ingestVars, opVars, purgeVars, epoch, served, seenVars>>

Lifecycles == {"active", "withdrawal_pending", "withdrawn",
               "reingestion_pending", "purge_pending", "purged"}
DocStatuses == {"uploaded", "parsing", "completed", "image_failed", "failed"}
RevisionStatuses == {"none", "uploaded", "parsing", "staged", "tombstoned",
                     "gone"}
RunStatuses == {"none", "queued", "running", "succeeded", "failed"}
WorkerStates == {"idle", "claimed", "reclaimed"}
Workers == [owner : WorkerStates, late : WorkerStates]
NoWorkers == [owner |-> "idle", late |-> "idle"]
OpStatuses == {"none", "pending", "failed", "completed"}
PurgeStatuses == OpStatuses \cup {"drifted"}
Phases == {"objects", "metadata_deletion", "verification"}
KbCopies == [rev : Rev, epoch : Epoch, served : Snapshot \cup {None}]

Requests == [kind : {"delete", "reingest"}, seen : Lifecycles]

TypeOK ==
    /\ lifecycle \in [Doc -> Lifecycles]
    /\ docStatus \in [Doc -> DocStatuses]
    /\ latest \in [Doc -> Rev]
    /\ revision \in [Doc -> [Rev -> RevisionStatuses]]
    /\ \A d \in Doc, n \in Rev : revision[d][n] = "none" <=> n > latest[d]
    /\ run \in [Doc -> [Rev -> RunStatuses]]
    /\ captured \in [Doc -> [Rev -> BOOLEAN]]
    /\ worker \in [Doc -> [Rev -> Workers]]
    /\ withdrawal \in [Doc -> [Rev -> OpStatuses]]
    /\ reingestion \in [Doc -> [Rev -> OpStatuses]]
    /\ boundary \in [Doc -> [Rev -> BOOLEAN]]
    /\ released \in [Doc -> [Rev -> BOOLEAN]]
    /\ purge \in [Doc -> PurgeStatuses]
    /\ phase \in [Doc -> Phases]
    /\ planned \in [Doc -> 0..MaxRevision]
    /\ sourceGone \in [Doc -> BOOLEAN]
    /\ epoch \in Epoch
    /\ served \in Snapshot \cup {None}
    /\ request \in [Doc -> Requests \cup {None}]
    /\ kbCopy \in [Doc -> KbCopies \cup {None}]

FirstOnly(first, other) == [n \in Rev |-> IF n = 1 THEN first ELSE other]

\* Every document has one revision: already published in the first snapshot,
\* or just uploaded, with its ingestion queued.
Init ==
    \E published \in SUBSET Doc :
        /\ Doc \ Managed \subseteq published
        /\ lifecycle = [d \in Doc |-> "active"]
        /\ docStatus = [d \in Doc |-> IF d \in published THEN "completed"
                                                         ELSE "uploaded"]
        /\ latest = [d \in Doc |-> 1]
        /\ revision = [d \in Doc |->
                          FirstOnly(IF d \in published THEN "staged"
                                                       ELSE "uploaded", "none")]
        /\ run = [d \in Doc |->
                     FirstOnly(IF d \in published THEN "succeeded"
                                                  ELSE "queued", "none")]
        /\ served = IF published = {} THEN None
                    ELSE [revs |-> published \X {1}, epoch |-> 0]
        /\ captured = [d \in Doc |-> [n \in Rev |-> n = 1]]
        /\ worker = [d \in Doc |-> [n \in Rev |-> NoWorkers]]
        /\ withdrawal = [d \in Doc |-> [n \in Rev |-> "none"]]
        /\ reingestion = [d \in Doc |-> [n \in Rev |-> "none"]]
        /\ boundary = [d \in Doc |-> [n \in Rev |-> FALSE]]
        /\ released = [d \in Doc |-> [n \in Rev |-> FALSE]]
        /\ purge = [d \in Doc |-> "none"]
        /\ phase = [d \in Doc |-> "objects"]
        /\ planned = [d \in Doc |-> 0]
        /\ sourceGone = [d \in Doc |-> FALSE]
        /\ epoch = 0
        /\ request = [d \in Doc |-> None]
        /\ kbCopy = [d \in Doc |-> None]

-----------------------------------------------------------------------------
(***************************************************************************)
(* Reading the rows.                                                       *)
(***************************************************************************)
LatestRevision(d) == revision[d][latest[d]]

\* A revision keeps tombstoned_at, and its withdrawal operation, for ever.
Stamped(d, n) == withdrawal[d][n] # "none"

\* The most recently completed withdrawal; its revision is the highest, since
\* a revision is added only after the one before has been withdrawn.
LastWithdrawn(d, n) ==
    /\ withdrawal[d][n] = "completed"
    /\ \A k \in Rev : k > n => withdrawal[d][k] # "completed"

\* What the flush of an object whose column was loaded as "seen" and set to
\* "new" leaves in the row: no column is updated that seems unchanged.
Flush(seen, new, row) == IF seen = new THEN row ELSE new

\* The revision of a document that a build selects, if the document is active.
LatestStaged(d, n) ==
    /\ LatestRevision(d) # "tombstoned"
    /\ revision[d][n] = "staged"
    /\ \A k \in Rev : k > n => revision[d][k] # "staged"

Manifest_AnyLifecycle(D) == {m \in D \X Rev : LatestStaged(m[1], m[2])}

\* The manifest of a build over the documents of D.
Manifest(D) ==
    {m \in D \X Rev : lifecycle[m[1]] = "active" /\ LatestStaged(m[1], m[2])}

\* What was captured before is behind for ever.
AdvanceEpoch ==
    /\ epoch < MaxEpoch
    /\ epoch' = epoch + 1
    /\ captured' = [d \in Doc |-> [n \in Rev |-> FALSE]]
    /\ boundary' = [d \in Doc |-> [n \in Rev |-> FALSE]]

(***************************************************************************)
(* Deleting (withdrawing) a document.                                      *)
(***************************************************************************)
\* One copy is held at a time (a bound).
NoCopy == \A d \in Doc : request[d] = None /\ kbCopy[d] = None

\* A request loads the document before it takes the lock; the copy it then
\* works on may be old.
RequestReads(d, kind) ==
    /\ "stale request" \in Disturbance /\ NoCopy
    /\ kind = "reingest" => lifecycle[d] \in {"withdrawn", "reingestion_pending"}
    /\ request' = [request EXCEPT ![d] = [kind |-> kind, seen |-> lifecycle[d]]]
    /\ UNCHANGED <<docVars, ingestVars, opVars, purgeVars, epoch, served, kbCopy>>

Sees(d, kind, seen) ==
    \/ seen = lifecycle[d] /\ UNCHANGED request
    \/ /\ request[d] = [kind |-> kind, seen |-> seen]
       /\ request' = [request EXCEPT ![d] = None]

\* The request is refused, finds the tombstone already there, or hits the
\* unique key of an operation that exists for a revision overwritten since.
DeleteRefused(d, seen) ==
    /\ \/ seen = "reingestion_pending"
       \/ LatestRevision(d) \in {"tombstoned", "gone"}
       \/ Stamped(d, latest[d])
    /\ UNCHANGED <<docVars, ingestVars, opVars, purgeVars, epoch>>

Withdraw(d, seen) ==
    /\ seen # "reingestion_pending"
    /\ LatestRevision(d) \notin {"tombstoned", "gone"}
    /\ ~Stamped(d, latest[d])
    /\ revision' = [revision EXCEPT ![d][latest[d]] = "tombstoned"]
    /\ lifecycle' = [lifecycle EXCEPT
          ![d] = Flush(seen, "withdrawal_pending", lifecycle[d])]
    /\ AdvanceEpoch
    /\ run' = [run EXCEPT ![d] =
                  [n \in Rev |-> IF run[d][n] \in {"queued", "running"}
                                 THEN "failed" ELSE run[d][n]]]
    /\ withdrawal' = [withdrawal EXCEPT ![d][latest[d]] = "pending"]
    /\ UNCHANGED <<docStatus, latest, worker, reingestion, released, purgeVars>>

DeleteDocument(d) ==
    /\ \E seen \in Lifecycles : /\ Sees(d, "delete", seen)
                                /\ DeleteRefused(d, seen) \/ Withdraw(d, seen)
    /\ UNCHANGED <<served, kbCopy>>

\* POST /document-operations/{id}/retry of a withdrawal.
RetryWithdrawal(d, n) ==
    /\ withdrawal[d][n] = "failed"
    /\ withdrawal' = [withdrawal EXCEPT ![d][n] = "pending"]
    /\ UNCHANGED <<docVars, ingestVars, reingestion, boundary, released,
                   purgeVars, epoch, served, seenVars>>

\* The handler of document.tombstoned reads the knowledge base ...
WithdrawalRead(d, n) ==
    /\ withdrawal[d][n] = "pending"
    /\ NoCopy
    /\ kbCopy' = [kbCopy EXCEPT
                     ![d] = [rev |-> n, epoch |-> epoch, served |-> served]]
    /\ UNCHANGED <<docVars, ingestVars, opVars, purgeVars, epoch, served,
                   request>>

WithdrawalCommit_NotActivated(d) ==
    /\ kbCopy[d] # None
    /\ withdrawal' = [withdrawal EXCEPT ![d][kbCopy[d].rev] = "completed"]
    /\ lifecycle' = [lifecycle EXCEPT ![d] = "withdrawn"]
    /\ kbCopy' = [kbCopy EXCEPT ![d] = None]
    /\ UNCHANGED <<docStatus, latest, revision, ingestVars, reingestion,
                   boundary, released, purgeVars, epoch, served, request>>

\* ... and goes on with that copy when it has the lock: it builds a snapshot
\* for the epoch it saw and replaces the snapshot it saw, if that one is still
\* the active one (or nothing need be replaced).
WithdrawalCommit(d) ==
    LET copy == kbCopy[d]
        target == [revs |-> Manifest(Doc), epoch |-> copy.epoch]
    IN  /\ copy # None
        /\ target = served \/ copy.served = served
        /\ served' = target
        /\ withdrawal' = [withdrawal EXCEPT ![d][copy.rev] = "completed"]
        /\ lifecycle' = [lifecycle EXCEPT ![d] = "withdrawn"]
        /\ kbCopy' = [kbCopy EXCEPT ![d] = None]
        /\ UNCHANGED <<docStatus, latest, revision, ingestVars, reingestion,
                       boundary, released, purgeVars, epoch, request>>

\* The handler raises: the event is delivered again, or given up.
WithdrawalFails(d) ==
    /\ kbCopy[d] # None
    /\ \E status \in {"pending", "failed"} :
          withdrawal' = [withdrawal EXCEPT ![d][kbCopy[d].rev] = status]
    /\ kbCopy' = [kbCopy EXCEPT ![d] = None]
    /\ UNCHANGED <<docVars, ingestVars, reingestion, boundary, released,
                   purgeVars, epoch, served, request>>

(***************************************************************************)
(* Reingesting a withdrawn document.                                       *)
(***************************************************************************)
\* enqueue_document_ingestion: only a run that is over is queued again.
Enqueue(d, n) ==
    \/ /\ run[d][n] \in {"none", "failed"}
       /\ run' = [run EXCEPT ![d][n] = "queued"]
       /\ captured' = [captured EXCEPT ![d][n] = TRUE]
    \/ /\ run[d][n] \notin {"none", "failed"}
       /\ UNCHANGED <<run, captured>>

Reopen(d, n) ==
    /\ lifecycle' = [lifecycle EXCEPT ![d] = "reingestion_pending"]
    /\ reingestion' = [reingestion EXCEPT ![d][n] = "pending"]
    /\ boundary' = [boundary EXCEPT ![d][n] = TRUE]

\* The first reingestion after the withdrawal of revision n - 1.
StartReingestion(d, n) ==
    /\ reingestion[d][n] = "none"
    /\ LatestRevision(d) = "tombstoned" /\ Stamped(d, latest[d])
    /\ n = latest[d] + 1
    /\ latest' = [latest EXCEPT ![d] = n]
    /\ revision' = [revision EXCEPT ![d][n] = "uploaded"]
    /\ docStatus' = [docStatus EXCEPT ![d] = "uploaded"]
    /\ Reopen(d, n)
    /\ Enqueue(d, n)
    /\ UNCHANGED released

\* The publication is in the dead letters: only its event is reset.
RepublishReingestion(d, n) ==
    /\ reingestion[d][n] = "failed" /\ revision[d][n] # "gone"
    /\ released[d][n]
    /\ Reopen(d, n)
    /\ UNCHANGED <<latest, revision, docStatus, run, captured, released>>

\* The ingestion failed: it is queued again, unless the revision has been
\* tombstoned (enqueue_document_ingestion then raises).
ReingestAgain(d, n) ==
    /\ reingestion[d][n] = "failed" /\ revision[d][n] # "gone"
    /\ ~released[d][n]
    /\ ~Stamped(d, n)
    /\ revision' = [revision EXCEPT ![d][n] = "uploaded"]
    /\ docStatus' = [docStatus EXCEPT ![d] = "uploaded"]
    /\ Reopen(d, n)
    /\ Enqueue(d, n)
    /\ UNCHANGED <<latest, released>>

ReingestDocument(d) ==
    /\ \E seen \in Lifecycles :
          /\ Sees(d, "reingest", seen)
          /\ \/ /\ seen = "withdrawn"
                /\ \E n \in Rev \ {1} :
                      /\ LastWithdrawn(d, n - 1)
                      /\ \/ StartReingestion(d, n)
                         \/ RepublishReingestion(d, n)
                         \/ ReingestAgain(d, n)
                /\ UNCHANGED <<worker, withdrawal>>
             \/ UNCHANGED <<docVars, ingestVars, opVars>>  \* refused, or no news
    /\ UNCHANGED <<purgeVars, epoch, served, kbCopy>>

ReingestionOpen(d, n) == reingestion[d][n] \in {"pending", "failed"}

\* settle_reingestion_ingest_result raises when the operation is open and the
\* document is not waiting for it, and the transaction fails with it.
SettleFailure_DocumentLeft(d, n) ==
    /\ \/ /\ ReingestionOpen(d, n) /\ lifecycle[d] = "reingestion_pending"
          /\ reingestion' = [reingestion EXCEPT ![d][n] = "failed"]
       \/ ~ReingestionOpen(d, n) /\ UNCHANGED reingestion
    /\ UNCHANGED <<lifecycle, released>>

SettleFailure(d, n) ==
    /\ \/ /\ ReingestionOpen(d, n) /\ lifecycle[d] = "reingestion_pending"
          /\ reingestion' = [reingestion EXCEPT ![d][n] = "failed"]
          /\ lifecycle' = [lifecycle EXCEPT ![d] = "withdrawn"]
       \/ ~ReingestionOpen(d, n) /\ UNCHANGED <<reingestion, lifecycle>>
    /\ UNCHANGED released

SettleSuccess(d, n) ==
    /\ \/ /\ ReingestionOpen(d, n) /\ lifecycle[d] = "reingestion_pending"
          /\ reingestion' = [reingestion EXCEPT ![d][n] = "pending"]
          /\ released' = [released EXCEPT ![d][n] = TRUE]
       \/ ~ReingestionOpen(d, n) /\ UNCHANGED <<reingestion, released>>
    /\ UNCHANGED lifecycle

Baseline_Forgotten(d) == {m \in {} : m[1] # d}

\* The revisions of the other documents that the active snapshot serves and
\* that may be served on.
Baseline(d) ==
    IF served = None THEN {}
    ELSE {m \in served.revs : /\ m[1] # d
                              /\ revision[m[1]][m[2]] = "staged"
                              /\ ~Stamped(m[1], m[2])
                              /\ lifecycle[m[1]] = "active"}

\* The handler of document.reingestion.staged: one transaction.
Publish(d, n) ==
    LET target == [revs |-> Baseline(d) \cup {<<d, n>>}, epoch |-> epoch + 1]
    IN  /\ reingestion[d][n] = "pending" /\ released[d][n]
        /\ lifecycle[d] = "reingestion_pending"
        /\ boundary[d][n]
        /\ revision[d][n] = "staged" /\ ~Stamped(d, n)
        /\ latest[d] = n
        /\ \A m \in target.revs : LatestRevision(m[1]) # "tombstoned"
        /\ AdvanceEpoch
        /\ lifecycle' = [lifecycle EXCEPT ![d] = "active"]
        /\ reingestion' = [reingestion EXCEPT ![d][n] = "completed"]
        /\ served' = target
        /\ UNCHANGED <<docStatus, latest, revision, run, worker, withdrawal,
                       released, purgeVars, seenVars>>

\* The attempts of the event are used up.
PublicationDeadLetters(d, n) ==
    /\ reingestion[d][n] = "pending" /\ released[d][n]
    /\ reingestion' = [reingestion EXCEPT ![d][n] = "failed"]
    /\ lifecycle' = [lifecycle EXCEPT ![d] = "withdrawn"]
    /\ UNCHANGED <<docStatus, latest, revision, ingestVars, withdrawal,
                   boundary, released, purgeVars, epoch, served, seenVars>>

(***************************************************************************)
(* The ingestion of a revision.                                            *)
(***************************************************************************)
\* The knowledge base has crossed its boundary since the run was queued.
RefuseIngest(d, n) ==
    /\ run[d][n] = "queued"
    /\ ~captured[d][n]
    /\ run' = [run EXCEPT ![d][n] = "failed"]
    /\ docStatus' = [docStatus EXCEPT ![d] = "failed"]
    /\ SettleFailure(d, n)
    /\ UNCHANGED <<latest, revision, captured, worker, withdrawal, boundary,
                   purgeVars, epoch, served, seenVars>>

\* A worker owns the run and has found nothing against going on.  One that had
\* it before may still be about to write.
ClaimIngest(d, n) ==
    LET before == worker[d][n]
    IN  /\ run[d][n] = "queued"
        /\ captured[d][n]
        /\ docStatus[d] # "failed"
        /\ run' = [run EXCEPT ![d][n] = "running"]
        /\ \E claim \in {"claimed", "reclaimed"} :
              /\ claim = "reclaimed" <=> revision[d][n] = "parsing"
              /\ \/ /\ before.owner = "idle"
                    /\ worker' = [worker EXCEPT ![d][n].owner = claim]
                 \/ /\ before.owner # "idle" /\ before.late = "idle"
                    /\ "late worker" \in Disturbance
                    /\ worker' = [worker EXCEPT
                          ![d][n] = [owner |-> claim, late |-> before.owner]]
        /\ UNCHANGED <<docVars, captured, opVars, purgeVars, epoch, served,
                       seenVars>>

\* It then writes the document and the revision it loaded, whatever has
\* happened to them.
BeginParsing(d, n) ==
    \E role \in {"owner", "late"} :
        /\ worker[d][n][role] # "idle"
        /\ revision[d][n] # "gone"
        /\ revision' = [revision EXCEPT ![d][n] =
                           Flush(IF worker[d][n][role] = "reclaimed"
                                 THEN "parsing" ELSE "uploaded",
                                 "parsing", revision[d][n])]
        /\ docStatus' = [docStatus EXCEPT ![d] = "parsing"]
        /\ worker' = [worker EXCEPT ![d][n][role] = "idle"]
        /\ UNCHANGED <<lifecycle, latest, run, captured, opVars, purgeVars,
                       epoch, served, seenVars>>

(* The last transaction of the worker, fenced by the run it must still own.  *)
IngestSucceeds(d, n) ==
    /\ captured[d][n] /\ ~sourceGone[d]
    /\ docStatus' = [docStatus EXCEPT ![d] = "completed"]
    /\ revision' = [revision EXCEPT ![d][n] = "staged"]
    /\ run' = [run EXCEPT ![d][n] = "succeeded"]
    /\ SettleSuccess(d, n)

\* The text is staged, but the run fails so that it can be queued again.
ImagesFail(d, n) ==
    /\ "image failure" \in Disturbance
    /\ captured[d][n] /\ ~sourceGone[d]
    /\ docStatus' = [docStatus EXCEPT ![d] = "image_failed"]
    /\ revision' = [revision EXCEPT ![d][n] = "staged"]
    /\ run' = [run EXCEPT ![d][n] = "failed"]
    /\ SettleFailure(d, n)

IngestFails(d, n) ==
    /\ docStatus' = [docStatus EXCEPT ![d] = "failed"]
    /\ revision' = [revision EXCEPT ![d][n] = "uploaded"]
    /\ run' = [run EXCEPT ![d][n] = "failed"]
    /\ SettleFailure(d, n)

\* The run goes back to the queue; nothing is settled.
IngestThrottled(d, n) ==
    /\ "throttling" \in Disturbance
    /\ docStatus' = [docStatus EXCEPT ![d] = "uploaded"]
    /\ revision' = [revision EXCEPT ![d][n] = "uploaded"]
    /\ run' = [run EXCEPT ![d][n] = "queued"]
    /\ ReingestionOpen(d, n) => lifecycle[d] = "reingestion_pending"
    /\ UNCHANGED <<lifecycle, reingestion, released>>

FinishIngest(d, n) ==
    /\ run[d][n] = "running" /\ worker[d][n].owner = "idle"
    /\ \/ IngestSucceeds(d, n) \/ ImagesFail(d, n)
       \/ IngestFails(d, n) \/ IngestThrottled(d, n)
    /\ UNCHANGED <<latest, captured, worker, withdrawal, boundary, purgeVars,
                   epoch, served, seenVars>>

\* recover_stale_ingestion: the lease of the run has expired.  Its worker is
\* dead, or late.
RecoverIngest(d, n) ==
    /\ run[d][n] = "running"
    /\ run' = [run EXCEPT ![d][n] = "failed"]
    /\ docStatus' = [docStatus EXCEPT ![d] =
                        IF @ = "parsing" /\ \A k \in Rev \ {n} : run[d][k] # "running"
                        THEN "failed" ELSE @]
    /\ UNCHANGED <<lifecycle, latest, revision, captured, worker, opVars,
                   purgeVars, epoch, served, seenVars>>

\* The same sweep finds a document in parsing that no run works on.
RecoverDocument(d) ==
    /\ docStatus[d] = "parsing"
    /\ \A n \in Rev : run[d][n] # "running"
    /\ docStatus' = [docStatus EXCEPT ![d] = "failed"]
    /\ UNCHANGED <<lifecycle, latest, revision, ingestVars, opVars, purgeVars,
                   epoch, served, seenVars>>

\* A worker that lost its run dies before it writes.
AbandonIngest(d, n) ==
    \E role \in {"owner", "late"} :
        /\ worker[d][n][role] # "idle"
        /\ role = "owner" => run[d][n] # "running"
        /\ worker' = [worker EXCEPT ![d][n][role] = "idle"]
        /\ UNCHANGED <<docVars, run, captured, opVars, purgeVars, epoch,
                       served, seenVars>>

\* POST /documents/{id}/retry.  After an image failure the revision stays
\* staged, and may be the one that is served.
RetryIngest(d) ==
    /\ lifecycle[d] \in {"active", "reingestion_pending"}
    /\ docStatus[d] \in {"failed", "image_failed"}
    /\ \A n \in Rev : run[d][n] \notin {"queued", "running"}
    /\ ~Stamped(d, latest[d])
    /\ docStatus' = [docStatus EXCEPT ![d] = "uploaded"]
    /\ Enqueue(d, latest[d])
    /\ UNCHANGED <<lifecycle, latest, revision, worker, opVars, purgeVars,
                   epoch, served, seenVars>>

CancelIngest(d) ==
    /\ docStatus[d] \in {"uploaded", "parsing"}
    /\ docStatus' = [docStatus EXCEPT ![d] = "failed"]
    /\ run' = [run EXCEPT ![d] =
                  [n \in Rev |-> IF run[d][n] \in {"queued", "running"}
                                 THEN "failed" ELSE run[d][n]]]
    /\ SettleFailure(d, latest[d])
    /\ UNCHANGED <<latest, revision, captured, worker, withdrawal, boundary,
                   purgeVars, epoch, served, seenVars>>

(***************************************************************************)
(* Purging a withdrawn document.                                           *)
(***************************************************************************)
\* A new plan replaces the manifest of a purge that failed, unless the manifest
\* says that objects have been deleted.  It does once their phase is over: the
\* handler changes the manifest it loaded in place before it assigns a copy,
\* the flush finds the copy equal to what was loaded, and writes nothing.
SubmitPurge(d) ==
    /\ purge[d] \in {"none", "failed", "drifted"}
    /\ lifecycle[d] = "withdrawn"
    /\ \E n \in Rev : withdrawal[d][n] = "completed"
    /\ \/ /\ planned[d] = latest[d] /\ LatestRevision(d) # "gone"
          /\ UNCHANGED <<planned, phase>>
       \/ /\ planned[d] # latest[d] /\ phase[d] = "objects"
          /\ planned' = [planned EXCEPT ![d] = latest[d]]
          /\ phase' = [phase EXCEPT ![d] = "objects"]
    /\ purge' = [purge EXCEPT ![d] = "pending"]
    /\ lifecycle' = [lifecycle EXCEPT ![d] = "purge_pending"]
    /\ UNCHANGED <<docStatus, latest, revision, ingestVars, opVars, sourceGone,
                   epoch, served, seenVars>>

\* POST /document-operations/{id}/retry of a purge.
RetryPurge(d) ==
    /\ purge[d] = "failed"
    /\ purge' = [purge EXCEPT ![d] = "pending"]
    /\ UNCHANGED <<docVars, ingestVars, opVars, phase, planned, sourceGone,
                   epoch, served, seenVars>>

PlanHolds(d) ==
    /\ lifecycle[d] \in {"withdrawn", "purge_pending"}
    /\ planned[d] = latest[d]

PurgeFails(d, status) ==
    /\ purge[d] = "pending"
    /\ purge' = [purge EXCEPT ![d] = status]
    /\ lifecycle' = [lifecycle EXCEPT ![d] = "withdrawn"]
    /\ UNCHANGED <<docStatus, latest, opVars, planned, epoch, served,
                   seenVars>>

\* The plan is made again until the objects are deleted; when it no longer
\* holds the operation is over.
PurgeDrifts(d) ==
    /\ phase[d] = "objects" /\ ~PlanHolds(d)
    /\ PurgeFails(d, "drifted")
    /\ UNCHANGED <<revision, ingestVars, phase, sourceGone>>

MayPurge(d) == phase[d] = "objects" => PlanHolds(d)

\* The store fails, before or after it has deleted some object.
PurgeObjectsFail(d) ==
    /\ phase[d] = "objects" /\ PlanHolds(d)
    /\ PurgeFails(d, "failed")
    /\ sourceGone' = [sourceGone EXCEPT ![d] = TRUE]
    /\ UNCHANGED <<revision, ingestVars, phase>>

PurgeMetadataFails(d) ==
    /\ MayPurge(d) /\ phase[d] # "verification"
    /\ PurgeFails(d, "failed")
    /\ phase' = [phase EXCEPT ![d] = "metadata_deletion"]
    /\ sourceGone' = [sourceGone EXCEPT ![d] = TRUE]
    /\ UNCHANGED <<revision, ingestVars>>

DeleteMetadata(d) ==
    /\ revision' = [revision EXCEPT ![d] =
                       [n \in Rev |-> IF n <= planned[d] THEN "gone"
                                                         ELSE revision[d][n]]]
    /\ run' = [run EXCEPT ![d] =
                  [n \in Rev |-> IF n <= planned[d] THEN "none" ELSE run[d][n]]]
    /\ sourceGone' = [sourceGone EXCEPT ![d] = TRUE]
    /\ UNCHANGED <<captured, worker>>

\* For the same reason a retry that began after the objects does not record
\* that the metadata is gone as well.
PurgeVerificationFails(d) ==
    /\ MayPurge(d)
    /\ PurgeFails(d, "failed")
    /\ phase' = [phase EXCEPT ![d] = IF @ = "objects" THEN "verification" ELSE @]
    /\ DeleteMetadata(d)

\* The object store fails before anything is deleted, or the event is given
\* up.
PurgeDeadLetters(d) ==
    /\ PurgeFails(d, "failed")
    /\ UNCHANGED <<revision, ingestVars, phase, sourceGone>>

CompletePurge(d) ==
    /\ purge[d] = "pending"
    /\ MayPurge(d)
    /\ purge' = [purge EXCEPT ![d] = "completed"]
    /\ lifecycle' = [lifecycle EXCEPT ![d] = "purged"]
    /\ DeleteMetadata(d)
    /\ UNCHANGED <<docStatus, latest, opVars, phase, planned, epoch, served,
                   seenVars>>

(***************************************************************************)
(* Snapshots built and activated by users; entities merged by users.  A    *)
(* build selects the latest revisions of documents a user chose, and a     *)
(* snapshot is activated only if it could be built again as it is.         *)
(***************************************************************************)
ActivateSnapshot ==
    /\ \E D \in SUBSET Doc : served' = [revs |-> Manifest(D), epoch |-> epoch]
    /\ UNCHANGED <<docVars, ingestVars, opVars, purgeVars, epoch, seenVars>>

MergeEntities ==
    /\ AdvanceEpoch
    /\ UNCHANGED <<docVars, run, worker, withdrawal, reingestion, released,
                   purgeVars, served, seenVars>>

-----------------------------------------------------------------------------
WithdrawalStep(d) ==
    \/ RequestReads(d, "delete") \/ DeleteDocument(d)
    \/ WithdrawalCommit(d) \/ WithdrawalFails(d)
    \/ \E n \in Rev : RetryWithdrawal(d, n) \/ WithdrawalRead(d, n)

ReingestionStep(d) ==
    \/ RequestReads(d, "reingest") \/ ReingestDocument(d)
    \/ \E n \in Rev : Publish(d, n) \/ PublicationDeadLetters(d, n)

IngestStep(d) ==
    \/ RetryIngest(d) \/ CancelIngest(d) \/ RecoverDocument(d)
    \/ \E n \in Rev : \/ RefuseIngest(d, n) \/ ClaimIngest(d, n)
                      \/ BeginParsing(d, n) \/ FinishIngest(d, n)
                      \/ AbandonIngest(d, n) \/ RecoverIngest(d, n)

PurgeStep(d) ==
    \/ SubmitPurge(d) \/ RetryPurge(d)
    \/ PurgeDrifts(d) \/ PurgeObjectsFail(d) \/ PurgeMetadataFails(d)
    \/ PurgeVerificationFails(d) \/ PurgeDeadLetters(d) \/ CompletePurge(d)

Next ==
    \/ \E d \in Managed : \/ WithdrawalStep(d) \/ ReingestionStep(d)
                          \/ IngestStep(d)
    \/ \E d \in Purgeable : PurgeStep(d)
    \/ ActivateSnapshot \/ MergeEntities

Spec == Init /\ [][Next]_vars

-----------------------------------------------------------------------------
(***************************************************************************)
(* Properties.                                                             *)
(***************************************************************************)
\* Once the withdrawal of a revision is reported as completed the knowledge
\* base does not serve it: the handler of document.tombstoned completes it in
\* the transaction that switches the snapshot, and nothing that was begun
\* before (a reingestion, an ingest, an activation by a user) brings the
\* revision back.
WithdrawnRevisionsAreNotServed ==
    \A d \in Doc, n \in Rev :
        withdrawal[d][n] = "completed" /\ served # None
            => <<d, n>> \notin served.revs

\* A document never waits for nothing: while its lifecycle is a transient one,
\* an operation exists that will end it, or that a user can retry.  A request
\* refused, an ingest that fails or a dead letter must not forget the one of
\* the two.
TransientLifecycleHasWork ==
    \A d \in Doc :
        /\ lifecycle[d] = "withdrawal_pending"
              => \E n \in Rev : withdrawal[d][n] \in {"pending", "failed"}
        /\ lifecycle[d] = "reingestion_pending"
              => \E n \in Rev : reingestion[d][n] = "pending"
        /\ lifecycle[d] = "purge_pending" => purge[d] = "pending"

\* No activation, by a handler or by a user, serves a revision whose document
\* is not active or that was ever withdrawn (_validate_snapshot_document_fence
\* and the manifests it checks), whatever was read before the lock.
ActivationIsFenced ==
    [][served' # served /\ served' # None =>
          \A m \in served'.revs : /\ lifecycle'[m[1]] = "active"
                                  /\ withdrawal'[m[1]][m[2]] = "none"]_vars

StaysActive(d) == lifecycle[d] = "active" /\ lifecycle'[d] = "active"

\* Withdrawing or reingesting one document takes no other away: a document that
\* is active before and after the handler of an operation on another one, and
\* whose served revision nobody withdrew or began to parse again, is served on.
HandlersKeepTheOthers ==
    [][withdrawal' # withdrawal \/ reingestion' # reingestion =>
          \A m \in Doc \X Rev :
              /\ served # None /\ m \in served.revs
              /\ StaysActive(m[1]) /\ ~Stamped(m[1], m[2])
              /\ revision[m[1]][m[2]] = "staged"
              => m \in served'.revs]_vars
==============================================================================
