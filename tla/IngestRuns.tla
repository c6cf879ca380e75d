------------------------------ MODULE IngestRuns ------------------------------
(***************************************************************************)
(* The ingestion of one revision of one document: the run rows with their  *)
(* leases (kb/ingest_runs.py), the workers that execute them               *)
(* (kb/ingestion.py), the requests that queue, pause, cancel and retry     *)
(* (api/v1/kb.py) and the sweep that recovers what was left behind         *)
(* (runtime/reliability.py).                                               *)
(*                                                                         *)
(* There is a row for the document as a whole (the root) and one for each  *)
(* stage.  A row is owned through a lease: whoever closes it must still    *)
(* own it, and a heartbeat keeps the lease alive until it fails once.  So  *)
(* a lease is live or it is not, and nothing revives it but a new claim.   *)
(*                                                                         *)
(* The message that delivers a root may be late, lost or duplicated: the   *)
(* sweep dispatches every queued root again, however recently it was       *)
(* queued, because it compares the age of the row.  A delivery therefore   *)
(* needs no message here, only a root it does not refuse.                  *)
(*                                                                         *)
(* An ingestion belongs to one epoch of the knowledge base: the root bears *)
(* the epoch in which it was queued, a worker captures it, and the worker  *)
(* gives up when it finds that the knowledge base is in a later one, for a *)
(* document was withdrawn, entities were merged, or the base was archived. *)
(* It looks without a lock before it claims a row, and with one before it  *)
(* publishes.                                                              *)
(*                                                                         *)
(* The status of the document is written by the session of the worker,     *)
(* which writes a column only if it differs from what it has in memory,    *)
(* and which writes before every query: the status that a worker reads at  *)
(* its end is the one it has just written.                                 *)
(***************************************************************************)
EXTENDS Integers, FiniteSets

CONSTANTS
    Worker,    \* deliveries in progress at one time
    None,      \* SQL NULL, or nothing
    MaxFaults, \* bound on the crashes and stalls of workers
    MaxEpoch   \* bound on the epochs of the knowledge base

Root == "document"
Stage == {"parse", "text"}  \* "text" is the chunking or the only segment
Unit == Stage \cup {Root}

RunStatus == {"none", "queued", "running", "staged", "succeeded", "failed",
              "canceled"}
\* "completed" also stands for awaiting_review for the sake of extracted facts,
\* "needs_review" is awaiting_review for images or for the facts of the graph, and
\* "image_failed" is one of the two with that error.
Done == {"completed", "needs_review", "image_failed"}

\* A general document is cut into chunks, of the others facts are extracted.
Kind == {"general", "facts"}
Stopped == {"canceled", "paused"}
Retryable == {"failed", "canceled", "paused", "image_failed"}
DocStatus == {"staged", "uploaded", "parsing"} \cup Retryable \cup Done
Outcome == Done \cup {"failed", "canceled", "uploaded"}
Place == {"idle", "read", "check", "claim", "reclaim", "claimed", "stop",
          "begin", "work", "segment", "graph", "finish"}
Epoch == 0..MaxEpoch

ASSUME IngestAssumption ==
    /\ None \notin Worker \cup DocStatus
    /\ MaxFaults \in Nat /\ MaxEpoch \in Nat

VARIABLES
    kind,       \* what becomes of the document, see Kind
    epoch,      \* consumption_epoch of the knowledge base
    docStatus,  \* status
    run,        \* the row of each unit of work
    at,         \* where each worker is
    on,         \* the unit it is about to claim or has claimed
    captured,   \* the epoch that its ingestion belongs to
    seen,       \* the status of the document in the memory of its session
    outcome,    \* the status it is about to write
    spoiled,    \* history: finished units that a worker of a passed epoch has
                \* overwritten, and that were not finished again
    faults      \* crashes and stalls so far

workerVars == <<at, on, captured, seen, outcome>>
vars == <<kind, epoch, docStatus, run, workerVars, spoiled, faults>>

\* A row that nobody owns.  Its epoch, in the stats, is read in a root that is to
\* be executed and in a unit that is finished.
Row(status, e) == [status |-> status, owner |-> None, live |-> FALSE,
                   due |-> status = "queued", epoch |-> e]
Ended(status) == Row(status, 0)

\* One that a worker has just claimed.
Held(w) == [status |-> "running", owner |-> w, live |-> TRUE, due |-> FALSE,
            epoch |-> captured[w]]

\* A root that is to wait until its available_at.
Delayed(e) == [Row("queued", e) EXCEPT !.due = FALSE]

Rows == [status : RunStatus \ {"running"}, owner : {None}, live : {FALSE},
         due : BOOLEAN, epoch : Epoch]
        \cup [status : {"running"}, owner : Worker, live : BOOLEAN,
              due : {FALSE}, epoch : Epoch]

TypeOK ==
    /\ kind \in Kind
    /\ epoch \in Epoch
    /\ docStatus \in DocStatus
    /\ run \in [Unit -> Rows]
    /\ at \in [Worker -> Place]
    /\ on \in [Worker -> Unit]
    /\ captured \in [Worker -> Epoch]
    /\ seen \in [Worker -> DocStatus \cup {None}]
    /\ outcome \in [Worker -> Outcome \cup {None}]
    /\ spoiled \subseteq Unit
    /\ faults \in 0..MaxFaults

Init ==
    /\ kind \in Kind
    /\ epoch = 0
    /\ docStatus = "staged"
    /\ run = [u \in Unit |-> Ended("none")]
    /\ at = [w \in Worker |-> "idle"]
    /\ on = [w \in Worker |-> Root]
    /\ captured = [w \in Worker |-> 0]
    /\ seen = [w \in Worker |-> None]
    /\ outcome = [w \in Worker |-> None]
    /\ spoiled = {}
    /\ faults = 0

-----------------------------------------------------------------------------
(* The lease protocol (kb/ingest_runs.py). *)

Claimable_NeverQueued(u) ==
    \/ run[u].status \in {"none", "failed"}
    \/ run[u].status = "running" /\ ~run[u].live

\* The WHERE of the upsert in claim_ingest_run: a queued row that is due, a
\* failed one, and a running one whose lease has expired.
Claimable(u) ==
    \/ run[u].status \in {"none", "failed"}
    \/ run[u].status = "queued" /\ run[u].due
    \/ run[u].status = "running" /\ ~run[u].live

\* The fence of everything an owner does to its row.
Owns(w, u) == run[u].owner = w /\ run[u].live

Close(u, row) == run' = [run EXCEPT ![u] = row]

\* A unit is queued again by a request, unless it is under way or finished.
Enqueue == IF run[Root].status \in {"none", "failed", "canceled"}
           THEN Row("queued", epoch) ELSE run[Root]

-----------------------------------------------------------------------------
(* Requests (api/v1/kb.py).  Each locks the document for its transaction. *)

\* The knowledge base moves on: entities are merged, another document is
\* withdrawn, or the base is archived or restored.  (Between the two it refuses
\* every request, and to a worker it looks like a base in another epoch.)
AdvanceEpoch ==
    /\ epoch < MaxEpoch
    /\ epoch' = epoch + 1
    /\ UNCHANGED <<kind, docStatus, run, workerVars, spoiled, faults>>

\* POST /documents/ingestion-queue
QueueDocument ==
    /\ docStatus = "staged"
    /\ docStatus' = "uploaded"
    /\ Close(Root, Enqueue)
    /\ UNCHANGED <<kind, epoch, workerVars, spoiled, faults>>

CancelDocument_QueuedOnly ==
    /\ docStatus \in {"uploaded", "parsing", "paused"}
    /\ docStatus' = "canceled"
    /\ run' = [u \in Unit |-> IF run[u].status = "queued"
                              THEN Ended("canceled") ELSE run[u]]
    /\ UNCHANGED <<kind, epoch, workerVars, spoiled, faults>>

\* POST /documents/{doc_id}/cancel
CancelDocument ==
    /\ docStatus \in {"uploaded", "parsing", "paused"}
    /\ docStatus' = "canceled"
    /\ run' = [u \in Unit |-> IF run[u].status \in {"queued", "running"}
                              THEN Ended("canceled") ELSE run[u]]
    /\ UNCHANGED <<kind, epoch, workerVars, spoiled, faults>>

\* POST /documents/{doc_id}/pause: the worker that runs goes on.
PauseDocument ==
    /\ docStatus = "parsing"
    /\ docStatus' = "paused"
    /\ run' = [u \in Unit |-> IF run[u].status = "queued"
                              THEN Ended("canceled") ELSE run[u]]
    /\ UNCHANGED <<kind, epoch, workerVars, spoiled, faults>>

ResetSegments_All ==
    [u \in Unit |-> IF u = Root THEN Enqueue
                    ELSE IF run[u].status = "none" THEN run[u]
                    ELSE Ended("failed")]

\* _reset_canceled_ingest_segments: a canceled row cannot be claimed.
ResetSegments ==
    [u \in Unit |-> IF u = Root THEN Enqueue
                    ELSE IF run[u].status = "canceled" THEN Ended("failed")
                    ELSE run[u]]

\* POST /documents/{doc_id}/reingest and /resume, and their batch.
RetryDocument ==
    /\ docStatus \in Retryable
    /\ run[Root].status \notin {"queued", "running"}
    /\ docStatus' = "uploaded"
    /\ run' = ResetSegments
    /\ UNCHANGED <<kind, epoch, workerVars, spoiled, faults>>

-----------------------------------------------------------------------------
(* A worker (ingest_document). *)

Goes(w, place) == at' = [at EXCEPT ![w] = place]
GoesTo(w, place, u) == Goes(w, place) /\ on' = [on EXCEPT ![w] = u]

\* Its row may outlive a worker, so an owner is not used again before that.
Fresh(w) == at[w] = "idle" /\ \A u \in Unit : run[u].owner # w

\* The root is read, and the document, which stays in memory as it was.
Deliver(w) ==
    /\ Fresh(w)
    /\ run[Root].status \in {"queued", "running"}
    /\ Goes(w, "read")
    /\ captured' = [captured EXCEPT ![w] = run[Root].epoch]
    /\ seen' = [seen EXCEPT ![w] = IF docStatus \in {"canceled", "parsing"}
                                  THEN docStatus ELSE None]
    /\ UNCHANGED <<kind, epoch, docStatus, run, on, outcome, spoiled, faults>>

Leave(w) ==
    /\ GoesTo(w, "idle", Root)
    /\ captured' = [captured EXCEPT ![w] = 0]
    /\ seen' = [seen EXCEPT ![w] = None]
    /\ outcome' = [outcome EXCEPT ![w] = None]

Ends(w, result) ==
    /\ GoesTo(w, "finish", Root)
    /\ outcome' = [outcome EXCEPT ![w] = result]
    /\ UNCHANGED <<captured, seen>>

Moves(w, place, u) == GoesTo(w, place, u) /\ UNCHANGED <<captured, seen, outcome>>

\* _knowledge_base_boundary_error
Crossed(w) == captured[w] # epoch

\* A column is written that differs from the session's memory.
Stops(w) == docStatus' = IF seen[w] = "canceled" THEN docStatus ELSE "canceled"

\* _STAGED_RUN_STATUSES
Finished(u) == run[u].status \in {"staged", "succeeded"}

Spoils(u) == spoiled' = IF Finished(u) THEN spoiled \cup {u} ELSE spoiled

\* A root of a passed epoch is canceled, whoever has it now.
Refuse(w) ==
    /\ at[w] = "read" /\ Crossed(w)
    /\ Close(Root, Ended("canceled"))
    /\ Spoils(Root)
    /\ Stops(w)
    /\ Leave(w)
    /\ UNCHANGED <<kind, epoch, faults>>

AwaitSlot(w) ==
    /\ at[w] = "read" /\ ~Crossed(w)
    /\ Moves(w, "check", Root)
    /\ UNCHANGED <<kind, epoch, docStatus, run, spoiled, faults>>

\* Without a claim there is no work: the root may be another worker's, and an
\* error before the root is claimed is nobody's.
GoesWithout(w, u) == IF u = Root THEN Leave(w) ELSE Ends(w, "failed")

\* What follows the artifact of a stage; a root that has one needs no worker.
After(w, u) ==
    \/ u = Root /\ Leave(w)
    \/ u = "parse" /\ Moves(w, "segment", "text")
    \/ u = "text" /\ kind = "general" /\ Moves(w, "graph", Root)
    \/ u = "text" /\ kind # "general" /\ \E result \in Done : Ends(w, result)

\* The first statement of _claim_stage, without a lock.
CheckBoundary(w) ==
    /\ at[w] = "check"
    /\ IF Crossed(w) THEN GoesWithout(w, on[w]) ELSE Moves(w, "claim", on[w])
    /\ UNCHANGED <<kind, epoch, docStatus, run, spoiled, faults>>

Holds(w, u) ==
    /\ Claimable(u)
    /\ Close(u, Held(w))
    /\ Moves(w, IF u = Root THEN "claimed" ELSE "work", u)
    /\ UNCHANGED spoiled

Reusable_AnyEpoch(w, u) == Finished(u)

\* The artifact of a unit that is finished is used again in its epoch.
Reusable(w, u) == Finished(u) /\ run[u].epoch = captured[w]

\* A worker of another epoch has it made anew: it commits the failure of the row
\* that its claim has locked, and claims again.
Invalidates(w, u) ==
    /\ Finished(u) /\ ~Reusable(w, u)
    /\ Close(u, Ended("failed"))
    /\ IF Crossed(w) THEN Spoils(u) ELSE UNCHANGED spoiled
    /\ Moves(w, "reclaim", u)

\* The rest of _claim_stage
ClaimStage(w, u) ==
    /\ at[w] = "claim" /\ on[w] = u
    /\ \/ Holds(w, u)
       \/ Invalidates(w, u)
       \/ Reusable(w, u) /\ After(w, u) /\ UNCHANGED <<run, spoiled>>
       \/ /\ ~Claimable(u) /\ ~Finished(u)
          /\ GoesWithout(w, u)
          /\ UNCHANGED <<run, spoiled>>
    /\ UNCHANGED <<kind, epoch, docStatus, faults>>

ReclaimStage(w, u) ==
    /\ at[w] = "reclaim" /\ on[w] = u
    /\ \/ Holds(w, u)
       \/ ~Claimable(u) /\ GoesWithout(w, u) /\ UNCHANGED <<run, spoiled>>
    /\ UNCHANGED <<kind, epoch, docStatus, faults>>

\* The boundary again, when the root is claimed.
CheckRoot(w) ==
    /\ at[w] = "claimed"
    /\ \/ /\ Crossed(w)
          /\ IF Owns(w, Root) THEN Stops(w) /\ Close(Root, Ended("canceled"))
                              ELSE UNCHANGED <<docStatus, run>>
          /\ Leave(w)
       \/ ~Crossed(w) /\ Moves(w, "stop", Root) /\ UNCHANGED <<docStatus, run>>
    /\ UNCHANGED <<kind, epoch, spoiled, faults>>

\* A document that was stopped before it began.
CheckStop(w) ==
    /\ at[w] = "stop"
    /\ \/ /\ docStatus \in Stopped
          /\ Close(Root, IF Owns(w, Root) THEN Ended("canceled") ELSE run[Root])
          /\ Leave(w)
       \/ docStatus \notin Stopped /\ Moves(w, "begin", Root) /\ UNCHANGED run
    /\ UNCHANGED <<kind, epoch, docStatus, spoiled, faults>>

\* Nothing is checked here.
BeginParsing(w) ==
    /\ at[w] = "begin"
    /\ docStatus' = IF seen[w] = "parsing" THEN docStatus ELSE "parsing"
    /\ seen' = [seen EXCEPT ![w] = "parsing"]
    /\ GoesTo(w, "check", "parse")
    /\ UNCHANGED <<kind, epoch, run, captured, outcome, spoiled, faults>>

\* The boundary is looked at once more, with the lock of the knowledge base.
StageSucceeds(w, u) ==
    /\ at[w] = "work" /\ on[w] = u
    /\ Owns(w, u) /\ ~Crossed(w)
    /\ Close(u, Row("staged", captured[w]))
    /\ spoiled' = spoiled \ {u}
    /\ After(w, u)
    /\ UNCHANGED <<kind, epoch, docStatus, faults>>

\* An error, a boundary crossed, or the lease is lost.  The model may throttle
\* the text stage: the document is to be taken up again.
StageFails(w, u) ==
    /\ at[w] = "work" /\ on[w] = u
    /\ Close(u, IF Owns(w, u) THEN Ended("failed") ELSE run[u])
    /\ \E result \in {"failed"} \cup (IF u = "text" THEN {"uploaded"} ELSE {}) :
           Ends(w, result)
    /\ UNCHANGED <<kind, epoch, docStatus, spoiled, faults>>

\* A segment of extraction asks first whether the document has been stopped.
\* Images that wait for a review turn this, too, into awaiting_review.
CheckSegment(w) ==
    /\ at[w] = "segment"
    /\ \/ /\ kind # "general" /\ docStatus \in Stopped
          /\ \E result \in {"canceled", "needs_review"} : Ends(w, result)
       \/ /\ kind = "general" \/ docStatus \notin Stopped
          /\ Moves(w, "check", "text")
    /\ UNCHANGED <<kind, epoch, docStatus, run, spoiled, faults>>

\* The chunks of a general document are there: its status is completed, in
\* memory, and the entity graph commits the session it shares.
GraphLine(w) ==
    /\ at[w] = "graph"
    /\ GoesTo(w, "finish", Root)
    /\ \/ /\ docStatus' = "completed"
          /\ seen' = [seen EXCEPT ![w] = "completed"]
       \/ UNCHANGED <<docStatus, seen>>  \* auto_entities is off, or an error
    /\ \E result \in Done : outcome' = [outcome EXCEPT ![w] = result]
    /\ UNCHANGED <<kind, epoch, run, captured, spoiled, faults>>

\* The status column is written, so that reading it again tells nothing new.
Written(w) == outcome[w] \notin {"completed", "image_failed"} \/ seen[w] # "completed"

Final(w) == IF ~Written(w) /\ docStatus = "canceled" THEN "canceled"
            ELSE outcome[w]

\* How the root ends: a throttled one is queued again, and one whose images
\* failed counts as failed, so that it can be retried.
RootRow(w, result) ==
    CASE result \in {"completed", "needs_review"} -> Row("succeeded", captured[w])
      [] result = "canceled" -> Ended("canceled")
      [] result = "uploaded" -> Delayed(captured[w])
      [] OTHER -> Ended("failed")

\* What the document and its root come to.  A result of a passed epoch is not
\* shown.
Concludes(w) ==
    IF Final(w) \in Done /\ Crossed(w)
    THEN docStatus' = "canceled" /\ Close(Root, Ended("canceled")) /\ UNCHANGED spoiled
    ELSE /\ docStatus' = IF Written(w) \/ docStatus \in Done THEN Final(w)
                         ELSE docStatus
         /\ Close(Root, RootRow(w, Final(w)))
         /\ spoiled' = IF Final(w) \in Done THEN spoiled \ {Root} ELSE spoiled

Finish_Unfenced(w) ==
    /\ at[w] = "finish"
    /\ \/ Owns(w, Root) /\ Concludes(w)
       \/ /\ ~Owns(w, Root)
          /\ docStatus' = Final(w)
          /\ UNCHANGED <<run, spoiled>>
    /\ Leave(w)
    /\ UNCHANGED <<kind, epoch, faults>>

\* The document and its root in one transaction, if the root is still owned.
Finish(w) ==
    /\ at[w] = "finish"
    /\ \/ Owns(w, Root) /\ Concludes(w)
       \/ ~Owns(w, Root) /\ UNCHANGED <<docStatus, run, spoiled>>
    /\ Leave(w)
    /\ UNCHANGED <<kind, epoch, faults>>

WorkerStep(w) ==
    \/ Refuse(w)
    \/ AwaitSlot(w)
    \/ CheckBoundary(w)
    \/ \E u \in Unit : ClaimStage(w, u) \/ ReclaimStage(w, u)
    \/ CheckRoot(w)
    \/ CheckStop(w)
    \/ BeginParsing(w)
    \/ \E u \in Stage : StageSucceeds(w, u) \/ StageFails(w, u)
    \/ CheckSegment(w)
    \/ GraphLine(w)
    \/ Finish(w)

-----------------------------------------------------------------------------
(* Time, faults and recovery. *)

Crash(w) ==
    /\ at[w] # "idle" /\ faults < MaxFaults
    /\ faults' = faults + 1
    /\ Leave(w)
    /\ UNCHANGED <<kind, epoch, docStatus, run, spoiled>>

Ages(u) ==
    /\ run[u].live
    /\ run' = [run EXCEPT ![u].live = FALSE]
    /\ UNCHANGED <<kind, epoch, docStatus, workerVars, spoiled>>

\* The lease of a worker that is gone, and of one that did not run in time.
Expire(u) == Ages(u) /\ at[run[u].owner] = "idle" /\ UNCHANGED faults

Stall(u) ==
    /\ Ages(u) /\ at[run[u].owner] # "idle"
    /\ faults < MaxFaults /\ faults' = faults + 1

BecomesDue ==
    /\ run[Root].status = "queued" /\ ~run[Root].due
    /\ run' = [run EXCEPT ![Root].due = TRUE]
    /\ UNCHANGED <<kind, epoch, docStatus, workerVars, spoiled, faults>>

Expired == {u \in Unit : run[u].status = "running" /\ ~run[u].live}
Abandoned == docStatus = "parsing" /\ \A u \in Unit : ~run[u].live

Sweep_ExpiredOnly ==
    /\ Expired # {}
    /\ run' = [u \in Unit |-> IF u \in Expired THEN Ended("failed") ELSE run[u]]
    /\ docStatus' = IF Abandoned THEN "failed" ELSE docStatus
    /\ UNCHANGED <<kind, epoch, workerVars, spoiled, faults>>

\* recover_stale_ingestion: expired runs fail, and so does a document that is
\* being parsed, for its expired run or for its age, when no lease is live.
Sweep ==
    /\ Expired # {} \/ Abandoned
    /\ run' = [u \in Unit |-> IF u \in Expired THEN Ended("failed") ELSE run[u]]
    /\ docStatus' = IF Abandoned THEN "failed" ELSE docStatus
    /\ UNCHANGED <<kind, epoch, workerVars, spoiled, faults>>

-----------------------------------------------------------------------------

Request == QueueDocument \/ CancelDocument \/ PauseDocument \/ RetryDocument

Next ==
    \/ Request
    \/ AdvanceEpoch
    \/ Sweep
    \/ BecomesDue
    \/ \E w \in Worker : Deliver(w) \/ WorkerStep(w) \/ Crash(w)
    \/ \E u \in Unit : Expire(u) \/ Stall(u)

Spec == Init /\ [][Next]_vars

\* The sweep that dispatches what is queued and due.
Redispatch ==
    /\ run[Root].status = "queued" /\ run[Root].due
    /\ \E w \in Worker : Deliver(w)

\* A worker that has begun goes on until it crashes, time passes, and the sweep
\* is periodic.  Nothing is assumed of users, faults and duplicates.
Fairness ==
    /\ \A w \in Worker : WF_vars(WorkerStep(w))
    /\ WF_vars(BecomesDue \/ Sweep \/ Redispatch \/ \E u \in Unit : Expire(u))

FairSpec == Spec /\ Fairness

-----------------------------------------------------------------------------
(* Properties. *)

\* The stages behind a result: a document may wait for the review of its images
\* without its facts, for CheckSegment.
Behind(status) == IF status = "needs_review" THEN {"parse"} ELSE Stage

\* A document whose facts are extracted is shown as completed only when every
\* stage behind the result has staged its artifact, all in one epoch of the
\* knowledge base, whichever workers, retries and recoveries it took.  A stage
\* may miss only because a worker of a passed epoch, stalled between its look at
\* the boundary and its claim, has overwritten it.  (General documents are
\* written early, by GraphLine, and it does not hold for them.)
CompletedIsStaged ==
    kind # "general" /\ docStatus \in Done
        => \E e \in Epoch : \A u \in Behind(docStatus) \ spoiled :
               run[u].status = "staged" /\ run[u].epoch = e

\* A document whose facts are extracted is completed only by a worker that
\* still owned its root, and no worker that lost it can complete it or take up
\* the finished root again, except one of a passed epoch that stalled.
CompletedIsFinished ==
    kind # "general" /\ docStatus \in {"completed", "needs_review"} /\ Root \notin spoiled
        => run[Root].status = "succeeded"

\* After a cancellation no worker owns the root any more, except one that has
\* just claimed a failed root and is about to notice (or crashed before it did).
CancelIsHonoured ==
    docStatus = "canceled" /\ run[Root].live
        => at[run[Root].owner] \in {"claimed", "stop", "idle"}

\* What a stage has staged is used again by every worker of the same epoch: no
\* retry, resumption, cancellation or recovery makes a stage run again that has
\* been paid for, only a worker that claims it for another epoch does.
StagedWorkIsKept ==
    [][\A u \in Stage :
           run[u].status = "staged" /\ run'[u] # run[u]
               => \E w \in Worker : /\ at[w] = "claim" /\ on[w] = u
                                    /\ captured[w] # run[u].epoch]_vars

\* A root that has been queued does not stay so, though messages are lost,
\* workers crash and the queue delays it.
IntentIsServed == []<>(run[Root].status # "queued")

\* A document does not stay in parsing: it is finished, stopped or recovered.
ParsingEnds == []<>(docStatus # "parsing")

=============================================================================
