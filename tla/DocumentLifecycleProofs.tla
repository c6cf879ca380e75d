----------------------- MODULE DocumentLifecycleProofs -----------------------
(***************************************************************************)
(* Theorems about the documents of a knowledge base, for any number of     *)
(* documents and any bounds on revisions and on the epoch, with every      *)
(* stale copy a request or a handler may work on.                          *)
(***************************************************************************)
EXTENDS DocumentRefinement, TLAPS

USE DocAssumption, BoundAssumption, NoneAssumption

(***************************************************************************)
(* The inductive invariant.                                                *)
(***************************************************************************)
\* Work exists only for revisions that exist.
WorkIsNumbered ==
    \A d \in Doc, n \in Rev :
        n > latest[d] => /\ run[d][n] = "none" /\ worker[d][n] = NoWorkers
                         /\ withdrawal[d][n] = "none"
                         /\ reingestion[d][n] = "none"

PlansAreNumbered == \A d \in Doc : planned[d] <= latest[d]

\* A revision that was ever withdrawn is never staged again, although a late
\* worker may write over its tombstone: no run of it can be queued.
StampIsFinal ==
    \A d \in Doc, n \in Rev :
        Stamped(d, n) => /\ revision[d][n] \in {"tombstoned", "parsing", "gone"}
                         /\ run[d][n] \notin {"queued", "running"}

\* A revision is added only after the one before has been withdrawn.
OlderAreWithdrawn ==
    \A d \in Doc, n \in Rev : n < latest[d] => withdrawal[d][n] = "completed"

\* A handler works on a withdrawal that is pending.
CopiesArePending ==
    \A d \in Doc :
        kbCopy[d] # None => withdrawal[d][kbCopy[d].rev] = "pending"

\* What the parts of the invariant other than the types say.
Bookkeeping ==
    /\ WorkIsNumbered /\ PlansAreNumbered
    /\ StampIsFinal /\ OlderAreWithdrawn /\ CopiesArePending
    /\ WithdrawnRevisionsAreNotServed /\ TransientLifecycleHasWork

Inv == TypeOK /\ Bookkeeping

-----------------------------------------------------------------------------
(***************************************************************************)
(* Types, one lemma per group of actions.                                  *)
(***************************************************************************)
LEMMA EnqueueTypes ==
    ASSUME TypeOK, NEW d \in Doc, NEW n \in Rev, Enqueue(d, n)
    PROVE  /\ run' \in [Doc -> [Rev -> RunStatuses]]
           /\ captured' \in [Doc -> [Rev -> BOOLEAN]]
<1>1. CASE run[d][n] \in {"none", "failed"}
  <2>1. /\ run' = [run EXCEPT ![d][n] = "queued"]
        /\ captured' = [captured EXCEPT ![d][n] = TRUE]
    BY <1>1 DEF Enqueue
  <2> QED
    BY <2>1 DEF TypeOK, RunStatuses
<1>2. CASE run[d][n] \notin {"none", "failed"}
  BY <1>2 DEF Enqueue, TypeOK
<1> QED
  BY <1>1, <1>2

\* What a worker writes of itself is one of its two places.
LEMMA WorkerWrites ==
    ASSUME NEW d \in Doc, NEW n \in Rev, NEW role \in {"owner", "late"},
           worker \in [Doc -> [Rev -> Workers]], worker[d][n][role] # "idle",
           worker' = [worker EXCEPT ![d][n][role] = "idle"]
    PROVE  worker' \in [Doc -> [Rev -> Workers]] /\ worker[d][n] # NoWorkers
<1>1. worker[d][n] # NoWorkers
  BY DEF NoWorkers
<1>2. worker[d][n] \in Workers
  OBVIOUS
<1>3. [worker[d][n] EXCEPT ![role] = "idle"] \in Workers
  BY <1>2 DEF Workers, WorkerStates
<1>4. worker' = [worker EXCEPT ![d] =
                    [worker[d] EXCEPT ![n] = [worker[d][n] EXCEPT ![role] = "idle"]]]
  OBVIOUS
<1> QED
  BY <1>1, <1>3, <1>4

LEMMA SettleFailureTypes ==
    ASSUME TypeOK, NEW d \in Doc, NEW n \in Rev, SettleFailure(d, n)
    PROVE  /\ lifecycle' \in [Doc -> Lifecycles]
           /\ reingestion' \in [Doc -> [Rev -> OpStatuses]]
           /\ released' \in [Doc -> [Rev -> BOOLEAN]]
<1>1. CASE ReingestionOpen(d, n)
  <2>1. /\ reingestion' = [reingestion EXCEPT ![d][n] = "failed"]
        /\ lifecycle' = [lifecycle EXCEPT ![d] = "withdrawn"]
        /\ released' = released
    BY <1>1 DEF SettleFailure
  <2> QED
    BY <2>1 DEF TypeOK, Lifecycles, OpStatuses
<1>2. CASE ~ReingestionOpen(d, n)
  BY <1>2 DEF SettleFailure, TypeOK
<1> QED
  BY <1>1, <1>2

LEMMA SettleSuccessTypes ==
    ASSUME TypeOK, NEW d \in Doc, NEW n \in Rev, SettleSuccess(d, n)
    PROVE  /\ lifecycle' \in [Doc -> Lifecycles]
           /\ reingestion' \in [Doc -> [Rev -> OpStatuses]]
           /\ released' \in [Doc -> [Rev -> BOOLEAN]]
<1>1. CASE ReingestionOpen(d, n)
  <2>1. /\ reingestion' = [reingestion EXCEPT ![d][n] = "pending"]
        /\ released' = [released EXCEPT ![d][n] = TRUE]
        /\ lifecycle' = lifecycle
    BY <1>1 DEF SettleSuccess
  <2> QED
    BY <2>1 DEF TypeOK, OpStatuses
<1>2. CASE ~ReingestionOpen(d, n)
  BY <1>2 DEF SettleSuccess, TypeOK
<1> QED
  BY <1>1, <1>2

LEMMA WithdrawalTypes ==
    ASSUME Inv, NEW d \in Doc, WithdrawalStep(d)
    PROVE  TypeOK'
<1> USE DEF Inv, TypeOK, Lifecycles, DocStatuses, RevisionStatuses, RunStatuses,
      OpStatuses, PurgeStatuses, Phases, Requests, KbCopies,
      Snapshot, Epoch, Rev, docVars, ingestVars, opVars, purgeVars, seenVars
<1>1. CASE RequestReads(d, "delete")
  BY <1>1 DEF RequestReads, NoCopy
<1>2. CASE DeleteDocument(d)
  <2>1. PICK seen \in Lifecycles : /\ Sees(d, "delete", seen)
                                   /\ DeleteRefused(d, seen) \/ Withdraw(d, seen)
    BY <1>2 DEF DeleteDocument
  <2>2. request' \in [Doc -> Requests \cup {None}] /\ UNCHANGED <<served, kbCopy>>
    <3>1. request' = request \/ request' = [request EXCEPT ![d] = None]
      BY <2>1 DEF Sees
    <3>2. request' \in [Doc -> Requests \cup {None}]
      <4>1. request \in [Doc -> Requests \cup {None}]
        OBVIOUS
      <4> HIDE DEF Inv, TypeOK, Requests
      <4> QED
        BY <3>1, <4>1
    <3> QED
      BY <1>2, <3>2 DEF DeleteDocument
  <2>3. CASE DeleteRefused(d, seen)
    BY <2>2, <2>3 DEF DeleteRefused
  <2>4. CASE Withdraw(d, seen)
    <3>1. /\ revision' \in [Doc -> [Rev -> RevisionStatuses]]
          /\ \A c \in Doc, k \in Rev : revision'[c][k] = "none" <=> k > latest'[c]
      BY <2>4 DEF Withdraw
    <3>2. lifecycle' \in [Doc -> Lifecycles]
      BY <2>4 DEF Withdraw, Flush
    <3>3. epoch' \in Epoch /\ captured' \in [Doc -> [Rev -> BOOLEAN]]
          /\ boundary' \in [Doc -> [Rev -> BOOLEAN]]
      BY <2>4 DEF Withdraw, AdvanceEpoch
    <3>4. /\ run' \in [Doc -> [Rev -> RunStatuses]]
          /\ withdrawal' \in [Doc -> [Rev -> OpStatuses]]
      BY <2>4 DEF Withdraw
    <3> QED
      BY <2>2, <2>4, <3>1, <3>2, <3>3, <3>4 DEF Withdraw
  <2> QED
    BY <2>1, <2>3, <2>4
<1>3. CASE WithdrawalCommit(d)
  BY <1>3 DEF WithdrawalCommit, Manifest, LatestStaged
<1>4. CASE WithdrawalFails(d)
  BY <1>4 DEF WithdrawalFails
<1>5. ASSUME NEW n \in Rev, RetryWithdrawal(d, n) PROVE TypeOK'
  BY <1>5 DEF RetryWithdrawal
<1>6. ASSUME NEW n \in Rev, WithdrawalRead(d, n) PROVE TypeOK'
  BY <1>6 DEF WithdrawalRead, NoCopy
<1> QED
  BY <1>1, <1>2, <1>3, <1>4, <1>5, <1>6 DEF WithdrawalStep

LEMMA ReingestionTypes ==
    ASSUME Inv, NEW d \in Doc, ReingestionStep(d)
    PROVE  TypeOK'
<1> USE DEF Inv, TypeOK, Lifecycles, DocStatuses, RevisionStatuses, RunStatuses,
      OpStatuses, PurgeStatuses, Phases, Requests, KbCopies,
      Snapshot, Epoch, Rev, docVars, ingestVars, opVars, purgeVars, seenVars
<1>1. CASE RequestReads(d, "reingest")
  BY <1>1 DEF RequestReads, NoCopy
<1>2. CASE ReingestDocument(d)
  <2>1. /\ request' \in [Doc -> Requests \cup {None}]
        /\ UNCHANGED <<purgeVars, epoch, served, kbCopy>>
    <3>1. PICK seen \in Lifecycles : Sees(d, "reingest", seen)
      BY <1>2 DEF ReingestDocument
    <3>2. request' = request \/ request' = [request EXCEPT ![d] = None]
      BY <3>1 DEF Sees
    <3>3. request' \in [Doc -> Requests \cup {None}]
      <4>1. request \in [Doc -> Requests \cup {None}]
        OBVIOUS
      <4> HIDE DEF Inv, TypeOK, Requests
      <4> QED
        BY <3>2, <4>1
    <3> QED
      BY <1>2, <3>3 DEF ReingestDocument
  <2>2. CASE UNCHANGED <<docVars, ingestVars, opVars>>
    BY <2>1, <2>2
  <2>3. ASSUME NEW n \in Rev, UNCHANGED <<worker, withdrawal>>, Reopen(d, n),
               /\ latest' \in [Doc -> Rev]
               /\ revision' \in [Doc -> [Rev -> RevisionStatuses]]
               /\ \A c \in Doc, k \in Rev :
                     revision'[c][k] = "none" <=> k > latest'[c]
               /\ docStatus' \in [Doc -> DocStatuses],
               Enqueue(d, n), UNCHANGED released
        PROVE  TypeOK'
    <3>1. /\ lifecycle' \in [Doc -> Lifecycles]
          /\ reingestion' \in [Doc -> [Rev -> OpStatuses]]
          /\ boundary' \in [Doc -> [Rev -> BOOLEAN]]
      BY <2>3 DEF Reopen
    <3>2. /\ run' \in [Doc -> [Rev -> RunStatuses]]
          /\ captured' \in [Doc -> [Rev -> BOOLEAN]]
      BY <2>3, EnqueueTypes
    <3> QED
      BY <2>1, <2>3, <3>1, <3>2
  <2>4. ASSUME NEW n \in Rev, UNCHANGED <<worker, withdrawal>>, StartReingestion(d, n)
        PROVE  TypeOK'
    <3>1. /\ latest' = [latest EXCEPT ![d] = n] /\ n = latest[d] + 1
          /\ revision' = [revision EXCEPT ![d][n] = "uploaded"]
          /\ docStatus' = [docStatus EXCEPT ![d] = "uploaded"]
      BY <2>4 DEF StartReingestion
    <3>2. /\ latest' \in [Doc -> Rev]
          /\ revision' \in [Doc -> [Rev -> RevisionStatuses]]
          /\ docStatus' \in [Doc -> DocStatuses]
      BY <3>1
    <3>3. \A c \in Doc, k \in Rev : revision'[c][k] = "none" <=> k > latest'[c]
      BY <3>1
    <3> QED
      BY <2>3, <2>4, <3>2, <3>3 DEF StartReingestion
  <2>5. ASSUME NEW n \in Rev, UNCHANGED <<worker, withdrawal>>, ReingestAgain(d, n)
        PROVE  TypeOK'
    <3>1. n <= latest[d]
      BY <2>5 DEF ReingestAgain, Bookkeeping, WorkIsNumbered
    <3>2. /\ latest' = latest
          /\ revision' = [revision EXCEPT ![d][n] = "uploaded"]
          /\ docStatus' = [docStatus EXCEPT ![d] = "uploaded"]
      BY <2>5 DEF ReingestAgain
    <3>3. /\ latest' \in [Doc -> Rev]
          /\ revision' \in [Doc -> [Rev -> RevisionStatuses]]
          /\ docStatus' \in [Doc -> DocStatuses]
      BY <3>2
    <3>4. \A c \in Doc, k \in Rev : revision'[c][k] = "none" <=> k > latest'[c]
      BY <3>1, <3>2
    <3> QED
      BY <2>3, <2>5, <3>3, <3>4 DEF ReingestAgain
  <2>6. ASSUME NEW n \in Rev, UNCHANGED <<worker, withdrawal>>,
               RepublishReingestion(d, n)
        PROVE  TypeOK'
    BY <2>1, <2>6 DEF RepublishReingestion, Reopen
  <2> QED
    BY <1>2, <2>2, <2>4, <2>5, <2>6 DEF ReingestDocument
<1>3. ASSUME NEW n \in Rev, Publish(d, n) PROVE TypeOK'
  <2>1. epoch < MaxEpoch /\ epoch' = epoch + 1
    BY <1>3 DEF Publish, AdvanceEpoch
  <2>2. served' = [revs |-> Baseline(d) \cup {<<d, n>>}, epoch |-> epoch + 1]
    BY <1>3 DEF Publish
  <2>3. Baseline(d) \subseteq Doc \X Rev
    BY DEF Baseline
  <2>4. epoch' \in Epoch /\ served' \in Snapshot
    BY <2>1, <2>2, <2>3
  <2>5. /\ captured' \in [Doc -> [Rev -> BOOLEAN]]
        /\ boundary' \in [Doc -> [Rev -> BOOLEAN]]
    BY <1>3 DEF Publish, AdvanceEpoch
  <2>6. /\ lifecycle' \in [Doc -> Lifecycles]
        /\ reingestion' \in [Doc -> [Rev -> OpStatuses]]
    BY <1>3 DEF Publish
  <2>7. UNCHANGED <<docStatus, latest, revision, run, worker, withdrawal,
                    released, purgeVars, seenVars>>
    BY <1>3 DEF Publish
  <2> QED
    BY <2>4, <2>5, <2>6, <2>7
<1>4. ASSUME NEW n \in Rev, PublicationDeadLetters(d, n) PROVE TypeOK'
  BY <1>4 DEF PublicationDeadLetters
<1> QED
  BY <1>1, <1>2, <1>3, <1>4 DEF ReingestionStep

LEMMA IngestTypes ==
    ASSUME Inv, NEW d \in Doc, IngestStep(d)
    PROVE  TypeOK'
<1> USE DEF Inv, TypeOK, Lifecycles, DocStatuses, RevisionStatuses, RunStatuses,
      OpStatuses, PurgeStatuses, Phases, Requests, KbCopies,
      Snapshot, Epoch, Rev, docVars, ingestVars, opVars, purgeVars, seenVars
<1>1. CASE RetryIngest(d)
  <2>1. /\ run' \in [Doc -> [Rev -> RunStatuses]]
        /\ captured' \in [Doc -> [Rev -> BOOLEAN]]
    BY <1>1, EnqueueTypes DEF RetryIngest
  <2> QED
    BY <1>1, <2>1 DEF RetryIngest
<1>2. CASE CancelIngest(d)
  <2>1. /\ lifecycle' \in [Doc -> Lifecycles]
        /\ reingestion' \in [Doc -> [Rev -> OpStatuses]]
        /\ released' \in [Doc -> [Rev -> BOOLEAN]]
    BY <1>2, SettleFailureTypes DEF CancelIngest
  <2>2. run' \in [Doc -> [Rev -> RunStatuses]]
    BY <1>2 DEF CancelIngest
  <2> QED
    BY <1>2, <2>1, <2>2 DEF CancelIngest
<1>3. CASE RecoverDocument(d)
  BY <1>3 DEF RecoverDocument
<1>4. ASSUME NEW n \in Rev, RefuseIngest(d, n) PROVE TypeOK'
  <2>1. /\ lifecycle' \in [Doc -> Lifecycles]
        /\ reingestion' \in [Doc -> [Rev -> OpStatuses]]
        /\ released' \in [Doc -> [Rev -> BOOLEAN]]
    BY <1>4, SettleFailureTypes DEF RefuseIngest
  <2> QED
    BY <1>4, <2>1 DEF RefuseIngest
<1>5. ASSUME NEW n \in Rev, ClaimIngest(d, n) PROVE TypeOK'
  <2>1. /\ run' = [run EXCEPT ![d][n] = "running"]
        /\ UNCHANGED <<docVars, captured, opVars, purgeVars, epoch, served, seenVars>>
    BY <1>5 DEF ClaimIngest
  <2>2. worker' \in [Doc -> [Rev -> Workers]]
    <3>1. worker[d][n] \in Workers
      OBVIOUS
    <3>2. PICK after \in Workers : worker' = [worker EXCEPT ![d][n] = after]
      BY <1>5, <3>1 DEF ClaimIngest, Workers, WorkerStates
    <3> QED
      BY <3>2
  <2> QED
    BY <2>1, <2>2
<1>6. ASSUME NEW n \in Rev, BeginParsing(d, n) PROVE TypeOK'
  <2>1. PICK role \in {"owner", "late"} :
               /\ worker[d][n][role] # "idle"
               /\ worker' = [worker EXCEPT ![d][n][role] = "idle"]
    BY <1>6 DEF BeginParsing
  <2>2. /\ worker' \in [Doc -> [Rev -> Workers]]
        /\ worker[d][n] # NoWorkers
    BY <2>1, WorkerWrites
  <2>3. n <= latest[d]
    BY <2>2 DEF Bookkeeping, WorkIsNumbered
  <2>4. PICK status \in RevisionStatuses \ {"none"} :
               revision' = [revision EXCEPT ![d][n] = status]
    <3>1. revision[d][n] \in RevisionStatuses /\ revision[d][n] # "none"
      <4>1. revision[d][n] = "none" <=> n > latest[d]
        OBVIOUS
      <4>2. ~(n > latest[d])
        BY <2>3
      <4> QED
        BY <4>1, <4>2
    <3>2. PICK seen : revision' = [revision EXCEPT ![d][n] =
                                      Flush(seen, "parsing", revision[d][n])]
      BY <1>6 DEF BeginParsing
    <3>3. Flush(seen, "parsing", revision[d][n]) \in {"parsing", revision[d][n]}
      BY DEF Flush
    <3> QED
      BY <3>1, <3>2, <3>3
  <2>5. /\ docStatus' = [docStatus EXCEPT ![d] = "parsing"]
        /\ UNCHANGED <<lifecycle, latest, run, captured, opVars, purgeVars, epoch,
                       served, seenVars>>
    BY <1>6 DEF BeginParsing
  <2>6. /\ revision' \in [Doc -> [Rev -> RevisionStatuses]]
        /\ \A c \in Doc, k \in Rev : revision'[c][k] = "none" <=> k > latest'[c]
    BY <2>3, <2>4, <2>5
  <2> QED
    BY <2>2, <2>5, <2>6
<1>7. ASSUME NEW n \in Rev, FinishIngest(d, n) PROVE TypeOK'
  <2>1. n <= latest[d]
    <3>1. run[d][n] # "none"
      BY <1>7 DEF FinishIngest
    <3> QED
      BY <3>1 DEF Bookkeeping, WorkIsNumbered
  <2>2. PICK status \in DocStatuses, outcome \in {"staged", "uploaded"},
             result \in {"succeeded", "failed", "queued"} :
               /\ docStatus' = [docStatus EXCEPT ![d] = status]
               /\ revision' = [revision EXCEPT ![d][n] = outcome]
               /\ run' = [run EXCEPT ![d][n] = result]
    BY <1>7 DEF FinishIngest, IngestSucceeds, ImagesFail, IngestFails, IngestThrottled
  <2>3. /\ lifecycle' \in [Doc -> Lifecycles]
        /\ reingestion' \in [Doc -> [Rev -> OpStatuses]]
        /\ released' \in [Doc -> [Rev -> BOOLEAN]]
    <3>1. \/ SettleSuccess(d, n) \/ SettleFailure(d, n)
          \/ UNCHANGED <<lifecycle, reingestion, released>>
      BY <1>7 DEF FinishIngest, IngestSucceeds, ImagesFail, IngestFails, IngestThrottled
    <3>2. CASE UNCHANGED <<lifecycle, reingestion, released>>
      BY <3>2
    <3> QED
      BY <3>1, <3>2, SettleSuccessTypes, SettleFailureTypes
  <2>4. UNCHANGED <<latest, captured, worker, withdrawal, boundary, purgeVars, epoch,
                    served, seenVars>>
    BY <1>7 DEF FinishIngest
  <2>5. /\ run' \in [Doc -> [Rev -> RunStatuses]]
        /\ docStatus' \in [Doc -> DocStatuses]
    BY <2>2
  <2>6. /\ revision' \in [Doc -> [Rev -> RevisionStatuses]]
        /\ \A c \in Doc, k \in Rev : revision'[c][k] = "none" <=> k > latest'[c]
    BY <2>1, <2>2, <2>4
  <2> QED
    BY <2>3, <2>4, <2>5, <2>6
<1>8. ASSUME NEW n \in Rev, AbandonIngest(d, n) PROVE TypeOK'
  <2>1. PICK role \in {"owner", "late"} :
               /\ worker[d][n][role] # "idle"
               /\ worker' = [worker EXCEPT ![d][n][role] = "idle"]
    BY <1>8 DEF AbandonIngest
  <2>2. worker' \in [Doc -> [Rev -> Workers]]
    <3>1. worker \in [Doc -> [Rev -> Workers]]
      OBVIOUS
    <3> HIDE DEF Inv, TypeOK
    <3> QED
      BY <2>1, <3>1, WorkerWrites
  <2>3. UNCHANGED <<docVars, run, captured, opVars, purgeVars, epoch, served,
                    seenVars>>
    BY <1>8 DEF AbandonIngest
  <2> QED
    BY <2>2, <2>3
<1>9. ASSUME NEW n \in Rev, RecoverIngest(d, n) PROVE TypeOK'
  <2>1. docStatus' \in [Doc -> DocStatuses]
    BY <1>9 DEF RecoverIngest
  <2>2. run' \in [Doc -> [Rev -> RunStatuses]]
    BY <1>9 DEF RecoverIngest
  <2>3. UNCHANGED <<lifecycle, latest, revision, captured, worker, opVars,
                    purgeVars, epoch, served, seenVars>>
    BY <1>9 DEF RecoverIngest
  <2> QED
    BY <2>1, <2>2, <2>3
<1> QED
  BY <1>1, <1>2, <1>3, <1>4, <1>5, <1>6, <1>7, <1>8, <1>9 DEF IngestStep

LEMMA PurgeTypes ==
    ASSUME Inv, NEW d \in Doc, PurgeStep(d)
    PROVE  TypeOK'
<1> USE DEF Inv, TypeOK, Lifecycles, DocStatuses, RevisionStatuses, RunStatuses,
      OpStatuses, PurgeStatuses, Phases, Requests, KbCopies,
      Snapshot, Epoch, Rev, docVars, ingestVars, opVars, purgeVars, seenVars
<1>1. CASE SubmitPurge(d)
  <2>1. /\ lifecycle' \in [Doc -> Lifecycles]
        /\ purge' \in [Doc -> PurgeStatuses]
    BY <1>1 DEF SubmitPurge
  <2>2. CASE UNCHANGED <<planned, phase>>
    BY <1>1, <2>1, <2>2 DEF SubmitPurge
  <2>3. CASE /\ planned' = [planned EXCEPT ![d] = latest[d]]
             /\ phase' = [phase EXCEPT ![d] = "objects"]
    <3>1. latest[d] \in 0..MaxRevision
      OBVIOUS
    <3>2. planned' \in [Doc -> 0..MaxRevision] /\ phase' \in [Doc -> Phases]
      BY <2>3, <3>1
    <3> QED
      BY <1>1, <2>1, <3>2 DEF SubmitPurge
  <2> QED
    BY <1>1, <2>2, <2>3 DEF SubmitPurge
<1>2. CASE RetryPurge(d)
  BY <1>2 DEF RetryPurge
<1>3. CASE PurgeDrifts(d)
  BY <1>3 DEF PurgeDrifts, PurgeFails
<1>4. CASE PurgeObjectsFail(d)
  BY <1>4 DEF PurgeObjectsFail, PurgeFails
<1>5. CASE PurgeMetadataFails(d)
  BY <1>5 DEF PurgeMetadataFails, PurgeFails
<1>6. CASE PurgeVerificationFails(d)
  <2>1. /\ revision' \in [Doc -> [Rev -> RevisionStatuses]]
        /\ \A c \in Doc, k \in Rev : revision'[c][k] = "none" <=> k > latest'[c]
    BY <1>6 DEF PurgeVerificationFails, PurgeFails, DeleteMetadata,
      Bookkeeping, PlansAreNumbered
  <2>2. run' \in [Doc -> [Rev -> RunStatuses]]
    BY <1>6 DEF PurgeVerificationFails, PurgeFails, DeleteMetadata
  <2>3. lifecycle' \in [Doc -> Lifecycles]
    BY <1>6 DEF PurgeVerificationFails, PurgeFails, DeleteMetadata
  <2>4. phase' \in [Doc -> Phases] /\ purge' \in [Doc -> PurgeStatuses]
    BY <1>6 DEF PurgeVerificationFails, PurgeFails, DeleteMetadata
  <2> QED
    BY <1>6, <2>1, <2>2, <2>3, <2>4 DEF PurgeVerificationFails, PurgeFails,
      DeleteMetadata
<1>7. CASE PurgeDeadLetters(d)
  BY <1>7 DEF PurgeDeadLetters, PurgeFails
<1>8. CASE CompletePurge(d)
  <2>1. /\ revision' \in [Doc -> [Rev -> RevisionStatuses]]
        /\ \A c \in Doc, k \in Rev : revision'[c][k] = "none" <=> k > latest'[c]
    BY <1>8 DEF CompletePurge, DeleteMetadata, Bookkeeping, PlansAreNumbered
  <2>2. run' \in [Doc -> [Rev -> RunStatuses]]
    BY <1>8 DEF CompletePurge, DeleteMetadata
  <2>3. lifecycle' \in [Doc -> Lifecycles]
    BY <1>8 DEF CompletePurge, DeleteMetadata
  <2>4. purge' \in [Doc -> PurgeStatuses]
    BY <1>8 DEF CompletePurge, DeleteMetadata
  <2> QED
    BY <1>8, <2>1, <2>2, <2>3, <2>4 DEF CompletePurge, DeleteMetadata
<1> QED
  BY <1>1, <1>2, <1>3, <1>4, <1>5, <1>6, <1>7, <1>8 DEF PurgeStep

-----------------------------------------------------------------------------
(***************************************************************************)
(* Bookkeeping: what the shared operators change, then one lemma per group *)
(* of actions.                                                             *)
(***************************************************************************)
LEMMA EnqueueBooks ==
    ASSUME TypeOK, NEW d \in Doc, NEW n \in Rev, Enqueue(d, n)
    PROVE  \A c \in Doc, k \in Rev :
              \/ run'[c][k] = run[c][k]
              \/ c = d /\ k = n /\ run'[c][k] = "queued"
<1>1. CASE run[d][n] \in {"none", "failed"}
  <2>1. run' = [run EXCEPT ![d][n] = "queued"]
    BY <1>1 DEF Enqueue
  <2> QED
    BY <2>1 DEF TypeOK
<1>2. CASE run[d][n] \notin {"none", "failed"}
  BY <1>2 DEF Enqueue
<1> QED
  BY <1>1, <1>2

\* Settling a reingestion keeps its document and its operation in step.
Settled(c) ==
    /\ lifecycle'[c] = lifecycle[c] \/ lifecycle'[c] = "withdrawn"
    /\ \A k \in Rev : /\ reingestion'[c][k] = "none" <=> reingestion[c][k] = "none"
                      /\ lifecycle'[c] = "reingestion_pending"
                            => \/ reingestion'[c][k] = reingestion[c][k]
                               \/ reingestion'[c][k] = "pending"

LEMMA SettleFailureBooks ==
    ASSUME TypeOK, NEW d \in Doc, NEW n \in Rev, SettleFailure(d, n)
    PROVE  \A c \in Doc : Settled(c)
<1>1. CASE ReingestionOpen(d, n)
  <2>1. /\ reingestion' = [reingestion EXCEPT ![d][n] = "failed"]
        /\ lifecycle' = [lifecycle EXCEPT ![d] = "withdrawn"]
    BY <1>1 DEF SettleFailure
  <2> QED
    BY <1>1, <2>1 DEF TypeOK, Settled, ReingestionOpen
<1>2. CASE ~ReingestionOpen(d, n)
  BY <1>2 DEF SettleFailure, Settled
<1> QED
  BY <1>1, <1>2

LEMMA SettleSuccessBooks ==
    ASSUME TypeOK, NEW d \in Doc, NEW n \in Rev, SettleSuccess(d, n)
    PROVE  \A c \in Doc : Settled(c)
<1>1. CASE ReingestionOpen(d, n)
  <2>1. /\ reingestion' = [reingestion EXCEPT ![d][n] = "pending"]
        /\ lifecycle' = lifecycle
    BY <1>1 DEF SettleSuccess
  <2> QED
    BY <1>1, <2>1 DEF TypeOK, Settled, ReingestionOpen
<1>2. CASE ~ReingestionOpen(d, n)
  BY <1>2 DEF SettleSuccess, Settled
<1> QED
  BY <1>1, <1>2

\* A step of an ingest: it settles, and leaves the operations and the snapshot
\* alone otherwise.  A run goes back to the queue only if it was running.
LEMMA IngestBooks ==
    ASSUME Inv, \A c \in Doc : Settled(c),
           UNCHANGED <<latest, worker, withdrawal, purge, planned, served, kbCopy>>,
           \A c \in Doc, k \in Rev :
              /\ \/ run'[c][k] = run[c][k]
                 \/ /\ run[c][k] # "none"
                    /\ run'[c][k] \in {"failed", "succeeded"} \/ ~Stamped(c, k)
              /\ revision'[c][k] = revision[c][k] \/ ~Stamped(c, k)
    PROVE  Bookkeeping'
<1> USE DEF Inv, TypeOK, Bookkeeping
<1>1. WorkIsNumbered' /\ PlansAreNumbered'
  BY DEF WorkIsNumbered, PlansAreNumbered, Settled
<1>2. StampIsFinal'
  BY DEF StampIsFinal, Stamped
<1>3. OlderAreWithdrawn' /\ CopiesArePending' /\ WithdrawnRevisionsAreNotServed'
  BY DEF OlderAreWithdrawn, CopiesArePending, WithdrawnRevisionsAreNotServed
<1>4. TransientLifecycleHasWork'
  <2> SUFFICES ASSUME NEW c \in Doc
               PROVE  /\ lifecycle'[c] = "withdrawal_pending"
                            => \E k \in Rev : withdrawal'[c][k] \in {"pending", "failed"}
                      /\ lifecycle'[c] = "reingestion_pending"
                            => \E k \in Rev : reingestion'[c][k] = "pending"
                      /\ lifecycle'[c] = "purge_pending" => purge'[c] = "pending"
    BY DEF TransientLifecycleHasWork
  <2>1. lifecycle'[c] = lifecycle[c] \/ lifecycle'[c] = "withdrawn"
    BY DEF Settled
  <2>2. CASE lifecycle'[c] = "reingestion_pending"
    <3>1. PICK k \in Rev : reingestion[c][k] = "pending"
      BY <2>1, <2>2 DEF TransientLifecycleHasWork
    <3>2. reingestion'[c][k] = "pending"
      BY <2>2, <3>1 DEF Settled
    <3> QED
      BY <2>2, <3>2
  <2>3. CASE lifecycle'[c] # "reingestion_pending"
    BY <2>1, <2>3 DEF TransientLifecycleHasWork
  <2> QED
    BY <2>2, <2>3
<1> QED
  BY <1>1, <1>2, <1>3, <1>4

\* What a build selects was never withdrawn, although a document may be active
\* with a revision that was.
LEMMA ManifestIsFenced ==
    ASSUME Inv, NEW D \in SUBSET Doc
    PROVE  /\ Manifest(D) \subseteq Doc \X Rev
           /\ \A c \in Doc, k \in Rev :
                 <<c, k>> \in Manifest(D) => lifecycle[c] = "active" /\ ~Stamped(c, k)
BY DEF Inv, Bookkeeping, StampIsFinal, Manifest, LatestStaged

LEMMA BooksUnchanged ==
    ASSUME Bookkeeping,
           UNCHANGED <<lifecycle, latest, revision, run, worker, withdrawal, reingestion,
                       purge, planned, served, kbCopy>>
    PROVE  Bookkeeping'
BY DEF Bookkeeping, WorkIsNumbered, PlansAreNumbered, StampIsFinal, OlderAreWithdrawn,
     CopiesArePending, WithdrawnRevisionsAreNotServed, TransientLifecycleHasWork, Stamped

LEMMA WithdrawalBookkeeping ==
    ASSUME Inv, NEW d \in Doc, WithdrawalStep(d)
    PROVE  Bookkeeping'
<1> USE DEF Inv, TypeOK, Bookkeeping, WorkIsNumbered, PlansAreNumbered,
      StampIsFinal, OlderAreWithdrawn, CopiesArePending,
      WithdrawnRevisionsAreNotServed, TransientLifecycleHasWork, Stamped, Rev,
      docVars, ingestVars, opVars, purgeVars, seenVars
<1>1. CASE RequestReads(d, "delete")
  <2> HIDE DEF TypeOK, Bookkeeping
  <2> QED
    BY <1>1, BooksUnchanged DEF RequestReads
<1>2. CASE DeleteDocument(d)
  <2>1. PICK seen \in Lifecycles : /\ Sees(d, "delete", seen)
                                   /\ DeleteRefused(d, seen) \/ Withdraw(d, seen)
    BY <1>2 DEF DeleteDocument
  <2>2. UNCHANGED <<served, kbCopy>>
    BY <1>2 DEF DeleteDocument
  <2>3. CASE DeleteRefused(d, seen)
    BY <2>2, <2>3, BooksUnchanged DEF DeleteRefused
  <2>4. CASE Withdraw(d, seen)
    <3>1. /\ withdrawal[d][latest[d]] = "none"
          /\ revision' = [revision EXCEPT ![d][latest[d]] = "tombstoned"]
          /\ withdrawal' = [withdrawal EXCEPT ![d][latest[d]] = "pending"]
          /\ run' = [run EXCEPT ![d] = [n \in Rev |->
                        IF run[d][n] \in {"queued", "running"} THEN "failed"
                                                               ELSE run[d][n]]]
          /\ UNCHANGED <<latest, worker, reingestion, purge, planned>>
      BY <2>4 DEF Withdraw
    <3>2. WorkIsNumbered' /\ PlansAreNumbered'
      BY <2>2, <3>1
    <3>3. StampIsFinal'
      BY <2>2, <3>1
    <3>4. OlderAreWithdrawn' /\ CopiesArePending' /\ WithdrawnRevisionsAreNotServed'
      BY <2>2, <3>1
    <3>5. /\ \A c \in Doc \ {d} : lifecycle'[c] = lifecycle[c]
          /\ lifecycle'[d] \in {lifecycle[d], "withdrawal_pending"}
      BY <2>4 DEF Withdraw, Flush
    <3>6. TransientLifecycleHasWork'
      BY <3>1, <3>5
    <3> QED
      BY <3>2, <3>3, <3>4, <3>6
  <2> QED
    BY <2>1, <2>3, <2>4
<1>3. CASE WithdrawalCommit(d)
  <2> DEFINE rev == kbCopy[d].rev
  <2>1. rev \in Rev /\ withdrawal[d][rev] = "pending"
    BY <1>3 DEF WithdrawalCommit, KbCopies
  <2>2. /\ withdrawal' = [withdrawal EXCEPT ![d][rev] = "completed"]
        /\ lifecycle' = [lifecycle EXCEPT ![d] = "withdrawn"]
        /\ kbCopy' = [kbCopy EXCEPT ![d] = None]
        /\ served'.revs = Manifest(Doc)
        /\ UNCHANGED <<latest, revision, run, worker, reingestion, purge, planned>>
    BY <1>3 DEF WithdrawalCommit
  <2> HIDE DEF rev
  <2>3. WithdrawnRevisionsAreNotServed'
    <3>1. \A c \in Doc, k \in Rev : <<c, k>> \in served'.revs => ~Stamped(c, k)
      <4> HIDE DEF Inv, Stamped
      <4>1. \A c \in Doc, k \in Rev : <<c, k>> \in Manifest(Doc) => ~Stamped(c, k)
        BY ManifestIsFenced
      <4> QED
        BY <2>2, <4>1
    <3> QED
      BY <2>1, <2>2, <3>1
  <2>4. WorkIsNumbered' /\ PlansAreNumbered' /\ StampIsFinal'
    BY <2>1, <2>2
  <2>5. OlderAreWithdrawn' /\ CopiesArePending' /\ TransientLifecycleHasWork'
    BY <2>1, <2>2
  <2> QED
    BY <2>3, <2>4, <2>5
<1>4. CASE WithdrawalFails(d)
  <2> DEFINE rev == kbCopy[d].rev
  <2>1. rev \in Rev /\ withdrawal[d][rev] = "pending"
    BY <1>4 DEF WithdrawalFails, KbCopies
  <2>2. PICK status \in {"pending", "failed"} :
               withdrawal' = [withdrawal EXCEPT ![d][rev] = status]
    BY <1>4 DEF WithdrawalFails
  <2>3. /\ kbCopy' = [kbCopy EXCEPT ![d] = None]
        /\ UNCHANGED <<docVars, run, worker, reingestion, purge, planned, served>>
    BY <1>4 DEF WithdrawalFails
  <2> HIDE DEF rev
  <2>4. WorkIsNumbered' /\ PlansAreNumbered' /\ StampIsFinal'
    <3>1. WorkIsNumbered' /\ PlansAreNumbered'
      BY <2>1, <2>2, <2>3
    <3>2. StampIsFinal'
      BY <2>1, <2>2, <2>3
    <3> QED
      BY <3>1, <3>2
  <2>5. OlderAreWithdrawn' /\ CopiesArePending' /\ WithdrawnRevisionsAreNotServed'
    BY <2>1, <2>2, <2>3
  <2>6. TransientLifecycleHasWork'
    BY <2>1, <2>2, <2>3
  <2> QED
    BY <2>4, <2>5, <2>6
<1>5. ASSUME NEW n \in Rev, RetryWithdrawal(d, n) PROVE Bookkeeping'
  <2>1. /\ withdrawal[d][n] = "failed"
        /\ withdrawal' = [withdrawal EXCEPT ![d][n] = "pending"]
        /\ UNCHANGED <<docVars, run, worker, reingestion, purge, planned, served, kbCopy>>
    BY <1>5 DEF RetryWithdrawal
  <2>2. WorkIsNumbered' /\ PlansAreNumbered' /\ StampIsFinal'
    BY <2>1
  <2>3. OlderAreWithdrawn' /\ CopiesArePending' /\ WithdrawnRevisionsAreNotServed'
    BY <2>1
  <2>4. TransientLifecycleHasWork'
    BY <2>1
  <2> QED
    BY <2>2, <2>3, <2>4
<1>6. ASSUME NEW n \in Rev, WithdrawalRead(d, n) PROVE Bookkeeping'
  <2>1. /\ withdrawal[d][n] = "pending"
        /\ kbCopy' = [kbCopy EXCEPT
                         ![d] = [rev |-> n, epoch |-> epoch, served |-> served]]
        /\ UNCHANGED <<docVars, ingestVars, opVars, purgeVars, served>>
    BY <1>6 DEF WithdrawalRead
  <2>2. CopiesArePending'
    BY <2>1
  <2>3. WorkIsNumbered' /\ PlansAreNumbered' /\ StampIsFinal'
    BY <2>1
  <2>4. OlderAreWithdrawn' /\ WithdrawnRevisionsAreNotServed'
    BY <2>1
  <2>5. TransientLifecycleHasWork'
    BY <2>1
  <2> QED
    BY <2>2, <2>3, <2>4, <2>5
<1> QED
  BY <1>1, <1>2, <1>3, <1>4, <1>5, <1>6 DEF WithdrawalStep

LEMMA ReingestionBookkeeping ==
    ASSUME Inv, NEW d \in Doc, ReingestionStep(d)
    PROVE  Bookkeeping'
<1> USE DEF Inv, TypeOK, Bookkeeping, WorkIsNumbered, PlansAreNumbered,
      StampIsFinal, OlderAreWithdrawn, CopiesArePending,
      WithdrawnRevisionsAreNotServed, TransientLifecycleHasWork, Stamped, Rev,
      docVars, ingestVars, opVars, purgeVars, seenVars
<1>1. CASE RequestReads(d, "reingest")
  <2> HIDE DEF TypeOK, Bookkeeping
  <2> QED
    BY <1>1, BooksUnchanged DEF RequestReads
<1>2. CASE ReingestDocument(d)
  <2>1. UNCHANGED <<purgeVars, served, kbCopy>>
    BY <1>2 DEF ReingestDocument
  <2>2. CASE UNCHANGED <<docVars, ingestVars, opVars>>
    BY <2>1, <2>2, BooksUnchanged
  <2>3. ASSUME NEW n \in Rev, UNCHANGED <<worker, withdrawal>>, Reopen(d, n)
        PROVE  TransientLifecycleHasWork'
    BY <2>1, <2>3 DEF Reopen
  <2>4. ASSUME NEW n \in Rev \ {1}, UNCHANGED <<worker, withdrawal>>,
               LastWithdrawn(d, n - 1), StartReingestion(d, n)
        PROVE  Bookkeeping'
    <3>1. /\ n = latest[d] + 1 /\ latest' = [latest EXCEPT ![d] = n]
          /\ revision' = [revision EXCEPT ![d][n] = "uploaded"]
          /\ reingestion' = [reingestion EXCEPT ![d][n] = "pending"]
      BY <2>4 DEF StartReingestion, Reopen
    <3>2. withdrawal[d][latest[d]] = "completed" /\ ~Stamped(d, n)
      BY <2>4, <3>1 DEF LastWithdrawn
    <3>3. \A c \in Doc, k \in Rev :
              run'[c][k] = run[c][k] \/ (c = d /\ k = n /\ run'[c][k] = "queued")
      <4>1. Enqueue(d, n)
        BY <2>4 DEF StartReingestion
      <4>2. TypeOK
        OBVIOUS
      <4> HIDE DEF Inv, TypeOK, Bookkeeping
      <4> QED
        BY <4>1, <4>2, EnqueueBooks
    <3>4. WorkIsNumbered' /\ PlansAreNumbered'
      BY <2>1, <2>4, <3>1, <3>3
    <3>5. StampIsFinal'
      BY <2>4, <3>1, <3>2, <3>3
    <3>6. OlderAreWithdrawn' /\ CopiesArePending' /\ WithdrawnRevisionsAreNotServed'
      BY <2>1, <2>4, <3>1, <3>2
    <3> QED
      BY <2>3, <2>4, <3>4, <3>5, <3>6 DEF StartReingestion
  <2>5. ASSUME NEW n \in Rev \ {1}, UNCHANGED <<worker, withdrawal>>,
               ReingestAgain(d, n)
        PROVE  Bookkeeping'
    <3>1. /\ reingestion[d][n] = "failed" /\ ~Stamped(d, n) /\ latest' = latest
          /\ revision' = [revision EXCEPT ![d][n] = "uploaded"]
          /\ reingestion' = [reingestion EXCEPT ![d][n] = "pending"]
      BY <2>5 DEF ReingestAgain, Reopen
    <3>2. \A c \in Doc, k \in Rev :
              run'[c][k] = run[c][k] \/ (c = d /\ k = n /\ run'[c][k] = "queued")
      <4>1. Enqueue(d, n)
        BY <2>5 DEF ReingestAgain
      <4>2. TypeOK
        OBVIOUS
      <4> HIDE DEF Inv, TypeOK, Bookkeeping
      <4> QED
        BY <4>1, <4>2, EnqueueBooks
    <3>3. WorkIsNumbered' /\ PlansAreNumbered'
      BY <2>1, <2>5, <3>1, <3>2
    <3>4. StampIsFinal'
      BY <2>5, <3>1, <3>2
    <3>5. OlderAreWithdrawn' /\ CopiesArePending' /\ WithdrawnRevisionsAreNotServed'
      BY <2>1, <2>5, <3>1
    <3>6. TransientLifecycleHasWork'
      BY <2>3, <2>5 DEF ReingestAgain
    <3> QED
      BY <3>3, <3>4, <3>5, <3>6
  <2>6. ASSUME NEW n \in Rev \ {1}, UNCHANGED <<worker, withdrawal>>,
               RepublishReingestion(d, n)
        PROVE  Bookkeeping'
    <3>1. /\ reingestion[d][n] = "failed" /\ UNCHANGED <<latest, revision, run>>
          /\ reingestion' = [reingestion EXCEPT ![d][n] = "pending"]
      BY <2>6 DEF RepublishReingestion, Reopen
    <3>2. WorkIsNumbered' /\ PlansAreNumbered' /\ StampIsFinal'
      BY <2>1, <2>6, <3>1
    <3>3. OlderAreWithdrawn' /\ CopiesArePending' /\ WithdrawnRevisionsAreNotServed'
      BY <2>1, <2>6, <3>1
    <3>4. TransientLifecycleHasWork'
      BY <2>3, <2>6 DEF RepublishReingestion
    <3> QED
      BY <3>2, <3>3, <3>4
  <2> QED
    BY <1>2, <2>2, <2>4, <2>5, <2>6 DEF ReingestDocument
<1>3. ASSUME NEW n \in Rev, Publish(d, n) PROVE Bookkeeping'
  <2>1. /\ lifecycle' = [lifecycle EXCEPT ![d] = "active"]
        /\ reingestion[d][n] = "pending"
        /\ reingestion' = [reingestion EXCEPT ![d][n] = "completed"]
        /\ UNCHANGED <<latest, revision, run, worker, withdrawal, purge, planned, kbCopy>>
    BY <1>3 DEF Publish
  <2>2. WorkIsNumbered' /\ PlansAreNumbered' /\ StampIsFinal'
    BY <2>1
  <2>3. WithdrawnRevisionsAreNotServed'
    <3>1. \A c \in Doc, k \in Rev : <<c, k>> \in served'.revs => ~Stamped(c, k)
      BY <1>3 DEF Publish, Baseline
    <3> QED
      BY <2>1, <3>1
  <2>4. OlderAreWithdrawn'
    BY <2>1
  <2>5. CopiesArePending'
    BY <2>1
  <2>6. TransientLifecycleHasWork'
    BY <2>1
  <2> QED
    BY <2>2, <2>3, <2>4, <2>5, <2>6
<1>4. ASSUME NEW n \in Rev, PublicationDeadLetters(d, n) PROVE Bookkeeping'
  <2>1. /\ lifecycle' = [lifecycle EXCEPT ![d] = "withdrawn"]
        /\ reingestion[d][n] = "pending"
        /\ reingestion' = [reingestion EXCEPT ![d][n] = "failed"]
        /\ UNCHANGED <<latest, revision, run, worker, withdrawal, purge, planned,
                       served, kbCopy>>
    BY <1>4 DEF PublicationDeadLetters
  <2>2. WorkIsNumbered' /\ PlansAreNumbered' /\ StampIsFinal'
    BY <2>1
  <2>3. OlderAreWithdrawn' /\ WithdrawnRevisionsAreNotServed'
    BY <2>1
  <2>4. CopiesArePending'
    BY <2>1
  <2>5. TransientLifecycleHasWork'
    BY <2>1
  <2> QED
    BY <2>2, <2>3, <2>4, <2>5
<1> QED
  BY <1>1, <1>2, <1>3, <1>4 DEF ReingestionStep

LEMMA IngestBookkeeping ==
    ASSUME Inv, NEW d \in Doc, IngestStep(d)
    PROVE  Bookkeeping'
<1> USE DEF Inv, TypeOK, Bookkeeping, WorkIsNumbered, PlansAreNumbered,
      StampIsFinal, OlderAreWithdrawn, CopiesArePending,
      WithdrawnRevisionsAreNotServed, TransientLifecycleHasWork, Stamped, Rev,
      docVars, ingestVars, opVars, purgeVars, seenVars
<1>1. CASE RetryIngest(d)
  <2>1. /\ latest[d] \in Rev /\ ~Stamped(d, latest[d])
        /\ UNCHANGED <<lifecycle, latest, revision, worker, withdrawal, reingestion,
                       purge, planned, served, kbCopy>>
    BY <1>1 DEF RetryIngest
  <2>2. \A c \in Doc, k \in Rev :
           \/ run'[c][k] = run[c][k]
           \/ c = d /\ k = latest[d] /\ run'[c][k] = "queued"
    BY <1>1, EnqueueBooks DEF RetryIngest
  <2>3. WorkIsNumbered' /\ PlansAreNumbered'
    <3>1. \A c \in Doc, k \in Rev : k > latest[c] => run'[c][k] = run[c][k]
      <4>1. latest[d] \in Nat
        OBVIOUS
      <4>2. ~(latest[d] > latest[d])
        BY <4>1
      <4> HIDE DEF Inv
      <4> QED
        BY <2>2, <4>2
    <3>2. WorkIsNumbered'
      <4> HIDE DEF TypeOK, StampIsFinal, OlderAreWithdrawn, Stamped,
                   WithdrawnRevisionsAreNotServed, TransientLifecycleHasWork
      <4> QED
        BY <2>1, <3>1
    <3>3. PlansAreNumbered'
      BY <2>1
    <3> QED
      BY <3>2, <3>3
  <2>4. StampIsFinal'
    <3>1. \A c \in Doc, k \in Rev : Stamped(c, k) => run'[c][k] = run[c][k]
      BY <2>1, <2>2
    <3> HIDE DEF TypeOK, WorkIsNumbered, OlderAreWithdrawn, TransientLifecycleHasWork
    <3> QED
      BY <2>1, <3>1
  <2>5. /\ OlderAreWithdrawn' /\ CopiesArePending'
        /\ WithdrawnRevisionsAreNotServed' /\ TransientLifecycleHasWork'
    BY <2>1
  <2> QED
    BY <2>3, <2>4, <2>5
<1>2. CASE CancelIngest(d)
  <2>1. \A c \in Doc : Settled(c)
    BY <1>2, SettleFailureBooks DEF CancelIngest
  <2>2. UNCHANGED <<latest, revision, worker, withdrawal, purge, planned, served, kbCopy>>
    BY <1>2 DEF CancelIngest
  <2>3. \A c \in Doc, k \in Rev :
           /\ \/ run'[c][k] = run[c][k]
              \/ run[c][k] # "none" /\ run'[c][k] \in {"failed", "succeeded"}
           /\ revision'[c][k] = revision[c][k]
    BY <1>2 DEF CancelIngest
  <2> HIDE DEF Inv, Stamped
  <2> QED
    BY <2>1, <2>2, <2>3, IngestBooks
<1>3. CASE RecoverDocument(d)
  <2> HIDE DEF TypeOK, Bookkeeping
  <2> QED
    BY <1>3, BooksUnchanged DEF RecoverDocument
<1>4. ASSUME NEW n \in Rev, RefuseIngest(d, n) PROVE Bookkeeping'
  <2>1. \A c \in Doc : Settled(c)
    BY <1>4, SettleFailureBooks DEF RefuseIngest
  <2>2. UNCHANGED <<latest, revision, worker, withdrawal, purge, planned, served, kbCopy>>
    BY <1>4 DEF RefuseIngest
  <2>3. /\ run[d][n] = "queued"
        /\ run' = [run EXCEPT ![d][n] = "failed"]
    BY <1>4 DEF RefuseIngest
  <2>4. \A c \in Doc, k \in Rev :
           /\ \/ run'[c][k] = run[c][k]
              \/ run[c][k] # "none" /\ run'[c][k] \in {"failed", "succeeded"}
           /\ revision'[c][k] = revision[c][k]
    BY <2>2, <2>3
  <2> HIDE DEF Inv, Stamped
  <2> QED
    BY <2>1, <2>2, <2>4, IngestBooks
<1>5. ASSUME NEW n \in Rev, ClaimIngest(d, n) PROVE Bookkeeping'
  <2>1. /\ run[d][n] = "queued"
        /\ run' = [run EXCEPT ![d][n] = "running"]
        /\ UNCHANGED <<docVars, opVars, purgeVars, served, kbCopy>>
    BY <1>5 DEF ClaimIngest
  <2>2. n <= latest[d] /\ ~Stamped(d, n)
    BY <2>1
  <2>3. \A c \in Doc, k \in Rev : c # d \/ k # n => worker'[c][k] = worker[c][k]
    <3>1. \/ \E claim : worker' = [worker EXCEPT ![d][n].owner = claim]
          \/ \E after : worker' = [worker EXCEPT ![d][n] = after]
      BY <1>5 DEF ClaimIngest
    <3> QED
      BY <3>1
  <2>4. \A c \in Doc, k \in Rev : k > latest[c] \/ Stamped(c, k) => run'[c][k] = run[c][k]
    BY <2>1, <2>2
  <2>5. WorkIsNumbered'
    <3>1. \A c \in Doc, k \in Rev : k > latest[c] => worker'[c][k] = worker[c][k]
      <4>1. ~(n > latest[d])
        BY <2>2
      <4> HIDE DEF Inv
      <4> QED
        BY <2>3, <4>1
    <3> QED
      BY <2>1, <2>4, <3>1
  <2>6. StampIsFinal'
    BY <2>1, <2>4
  <2>7. PlansAreNumbered' /\ OlderAreWithdrawn' /\ CopiesArePending'
    BY <2>1
  <2>8. WithdrawnRevisionsAreNotServed' /\ TransientLifecycleHasWork'
    BY <2>1
  <2> QED
    BY <2>5, <2>6, <2>7, <2>8
<1>6. ASSUME NEW n \in Rev, BeginParsing(d, n) PROVE Bookkeeping'
  <2>1. PICK role \in {"owner", "late"} :
               /\ worker[d][n][role] # "idle"
               /\ worker' = [worker EXCEPT ![d][n][role] = "idle"]
    BY <1>6 DEF BeginParsing
  <2>2. n <= latest[d]
    <3>1. worker[d][n] # NoWorkers
      BY <2>1 DEF NoWorkers
    <3> QED
      BY <3>1
  <2>3. \A c \in Doc, k \in Rev : c # d \/ k # n => worker'[c][k] = worker[c][k]
    BY <2>1
  <2>4. UNCHANGED <<lifecycle, latest, run, opVars, purgeVars, served, kbCopy>>
    BY <1>6 DEF BeginParsing
  <2>5. /\ \A c \in Doc, k \in Rev : c # d \/ k # n => revision'[c][k] = revision[c][k]
        /\ revision'[d][n] \in {"parsing", revision[d][n]}
    BY <1>6 DEF BeginParsing, Flush
  <2>6. WorkIsNumbered'
    <3>1. \A c \in Doc, k \in Rev : k > latest[c] => worker'[c][k] = worker[c][k]
      <4>1. ~(n > latest[d])
        BY <2>2
      <4> HIDE DEF Inv
      <4> QED
        BY <2>3, <4>1
    <3> QED
      BY <2>4, <3>1
  <2>7. StampIsFinal'
    <3> HIDE DEF TypeOK, WorkIsNumbered, OlderAreWithdrawn, TransientLifecycleHasWork
    <3> QED
      BY <2>4, <2>5
  <2>8. PlansAreNumbered' /\ OlderAreWithdrawn' /\ CopiesArePending'
    BY <2>4
  <2>9. WithdrawnRevisionsAreNotServed' /\ TransientLifecycleHasWork'
    BY <2>4
  <2> QED
    BY <2>6, <2>7, <2>8, <2>9
<1>7. ASSUME NEW n \in Rev, FinishIngest(d, n) PROVE Bookkeeping'
  <2>1. run[d][n] = "running" /\ ~Stamped(d, n)
    BY <1>7 DEF FinishIngest
  <2>2. UNCHANGED <<latest, worker, withdrawal, purge, planned, served, kbCopy>>
    BY <1>7 DEF FinishIngest
  <2>3. \A c \in Doc : Settled(c)
    <3>1. \/ SettleSuccess(d, n) \/ SettleFailure(d, n)
          \/ UNCHANGED <<lifecycle, reingestion>>
      BY <1>7 DEF FinishIngest, IngestSucceeds, ImagesFail, IngestFails, IngestThrottled
    <3>2. CASE UNCHANGED <<lifecycle, reingestion>>
      BY <3>2 DEF Settled
    <3> QED
      BY <3>1, <3>2, SettleFailureBooks, SettleSuccessBooks
  <2>4. PICK result \in {"succeeded", "failed", "queued"},
             outcome \in {"staged", "uploaded"} :
               /\ run' = [run EXCEPT ![d][n] = result]
               /\ revision' = [revision EXCEPT ![d][n] = outcome]
    BY <1>7 DEF FinishIngest, IngestSucceeds, ImagesFail, IngestFails, IngestThrottled
  <2>5. \A c \in Doc, k \in Rev :
           /\ \/ run'[c][k] = run[c][k]
              \/ /\ run[c][k] # "none"
                 /\ run'[c][k] \in {"failed", "succeeded"} \/ ~Stamped(c, k)
           /\ revision'[c][k] = revision[c][k] \/ ~Stamped(c, k)
    BY <2>1, <2>4
  <2> QED
    BY <2>2, <2>3, <2>5, IngestBooks
<1>8. ASSUME NEW n \in Rev, AbandonIngest(d, n) PROVE Bookkeeping'
  <2>1. PICK role \in {"owner", "late"} :
               /\ worker[d][n][role] # "idle"
               /\ worker' = [worker EXCEPT ![d][n][role] = "idle"]
    BY <1>8 DEF AbandonIngest
  <2>2. n <= latest[d]
    <3>1. worker[d][n] # NoWorkers
      BY <2>1 DEF NoWorkers
    <3> QED
      BY <3>1
  <2>3. UNCHANGED <<docVars, run, opVars, purgeVars, served, kbCopy>>
    BY <1>8 DEF AbandonIngest
  <2>4. WorkIsNumbered'
    BY <2>1, <2>2, <2>3
  <2> QED
    BY <2>3, <2>4
<1>9. ASSUME NEW n \in Rev, RecoverIngest(d, n) PROVE Bookkeeping'
  BY <1>9 DEF RecoverIngest
<1> QED
  BY <1>1, <1>2, <1>3, <1>4, <1>5, <1>6, <1>7, <1>8, <1>9 DEF IngestStep

LEMMA PurgeBookkeeping ==
    ASSUME Inv, NEW d \in Doc, PurgeStep(d)
    PROVE  Bookkeeping'
<1> USE DEF Inv, TypeOK, Bookkeeping, WorkIsNumbered, PlansAreNumbered,
      StampIsFinal, OlderAreWithdrawn, CopiesArePending,
      WithdrawnRevisionsAreNotServed, TransientLifecycleHasWork, Stamped, Rev,
      docVars, ingestVars, opVars, purgeVars, seenVars
<1>1. CASE SubmitPurge(d)
  <2>1. /\ purge' = [purge EXCEPT ![d] = "pending"]
        /\ lifecycle' = [lifecycle EXCEPT ![d] = "purge_pending"]
        /\ UNCHANGED <<latest, revision, run, worker, opVars, served, kbCopy>>
    BY <1>1 DEF SubmitPurge
  <2>2. planned' = planned \/ planned' = [planned EXCEPT ![d] = latest[d]]
    BY <1>1 DEF SubmitPurge
  <2>3. PlansAreNumbered'
    <3>1. CASE planned' = planned
      BY <2>1, <3>1
    <3>2. CASE planned' = [planned EXCEPT ![d] = latest[d]]
      BY <2>1, <3>2
    <3> QED
      BY <2>2, <3>1, <3>2
  <2> QED
    BY <2>1, <2>3
<1>2. CASE RetryPurge(d)
  BY <1>2 DEF RetryPurge
<1>3. CASE PurgeDrifts(d)
  BY <1>3 DEF PurgeDrifts, PurgeFails
<1>4. CASE PurgeObjectsFail(d)
  BY <1>4 DEF PurgeObjectsFail, PurgeFails
<1>5. CASE PurgeMetadataFails(d)
  BY <1>5 DEF PurgeMetadataFails, PurgeFails
<1>6. CASE PurgeVerificationFails(d)
  BY <1>6 DEF PurgeVerificationFails, PurgeFails, DeleteMetadata
<1>7. CASE PurgeDeadLetters(d)
  BY <1>7 DEF PurgeDeadLetters, PurgeFails
<1>8. CASE CompletePurge(d)
  BY <1>8 DEF CompletePurge, DeleteMetadata
<1> QED
  BY <1>1, <1>2, <1>3, <1>4, <1>5, <1>6, <1>7, <1>8 DEF PurgeStep

LEMMA KnowledgeBaseTypes ==
    ASSUME Inv, ActivateSnapshot \/ MergeEntities
    PROVE  TypeOK'
<1>1. CASE ActivateSnapshot
  BY <1>1 DEF ActivateSnapshot, Manifest, Inv, TypeOK, Snapshot, docVars, ingestVars,
       opVars, purgeVars, seenVars
<1>2. CASE MergeEntities
  BY <1>2 DEF MergeEntities, AdvanceEpoch, Inv, TypeOK, Epoch, docVars, purgeVars, seenVars
<1> QED
  BY <1>1, <1>2

LEMMA KnowledgeBaseBookkeeping ==
    ASSUME Inv, ActivateSnapshot \/ MergeEntities
    PROVE  Bookkeeping'
<1> USE DEF Inv, Bookkeeping, WorkIsNumbered, PlansAreNumbered, StampIsFinal,
      OlderAreWithdrawn, CopiesArePending, TransientLifecycleHasWork, Stamped,
      docVars, ingestVars, opVars, purgeVars, seenVars
<1>1. CASE ActivateSnapshot
  <2>1. PICK D \in SUBSET Doc : served' = [revs |-> Manifest(D), epoch |-> epoch]
    BY <1>1 DEF ActivateSnapshot
  <2>2. \A c \in Doc, k \in Rev : <<c, k>> \in served'.revs => ~Stamped(c, k)
    BY <2>1, ManifestIsFenced
  <2>3. WithdrawnRevisionsAreNotServed'
    BY <1>1, <2>2 DEF ActivateSnapshot, WithdrawnRevisionsAreNotServed
  <2> QED
    BY <1>1, <2>3 DEF ActivateSnapshot
<1>2. CASE MergeEntities
  BY <1>2 DEF MergeEntities, WithdrawnRevisionsAreNotServed
<1> QED
  BY <1>1, <1>2

-----------------------------------------------------------------------------
(***************************************************************************)
(* The invariant, and what follows from it.                                *)
(***************************************************************************)
LEMMA InitInv == Init => Inv
<1> SUFFICES ASSUME Init PROVE Inv
  OBVIOUS
<1>1. PICK published \in SUBSET Doc :
           /\ served = IF published = {} THEN None
                       ELSE [revs |-> published \X {1}, epoch |-> 0]
           /\ docStatus = [d \in Doc |-> IF d \in published THEN "completed"
                                                            ELSE "uploaded"]
           /\ revision = [d \in Doc |->
                             FirstOnly(IF d \in published THEN "staged"
                                                          ELSE "uploaded", "none")]
           /\ run = [d \in Doc |->
                        FirstOnly(IF d \in published THEN "succeeded"
                                                     ELSE "queued", "none")]
  BY DEF Init
<1>2. 1 \in Rev /\ 0 \in Epoch
  BY DEF Rev, Epoch
<1>3. served \in Snapshot \cup {None}
  BY <1>1, <1>2 DEF Snapshot
<1>4. /\ docStatus \in [Doc -> DocStatuses]
      /\ revision \in [Doc -> [Rev -> RevisionStatuses]]
      /\ run \in [Doc -> [Rev -> RunStatuses]]
  BY <1>1 DEF FirstOnly, DocStatuses, RevisionStatuses, RunStatuses
<1>5. \A d \in Doc, n \in Rev : /\ revision[d][n] = "none" <=> n > 1
                                /\ n > 1 => run[d][n] = "none"
  BY <1>1 DEF FirstOnly, Rev
<1>6. TypeOK
  BY <1>2, <1>3, <1>4, <1>5 DEF Init, TypeOK, Lifecycles, OpStatuses, PurgeStatuses, Phases,
       Workers, WorkerStates, NoWorkers
<1>7. WorkIsNumbered /\ PlansAreNumbered /\ StampIsFinal
  BY <1>5 DEF Init, WorkIsNumbered, PlansAreNumbered, StampIsFinal, Stamped, Rev
<1>8. /\ OlderAreWithdrawn /\ CopiesArePending
      /\ WithdrawnRevisionsAreNotServed /\ TransientLifecycleHasWork
  BY DEF Init, OlderAreWithdrawn, CopiesArePending, WithdrawnRevisionsAreNotServed,
       TransientLifecycleHasWork, Rev
<1> QED
  BY <1>6, <1>7, <1>8 DEF Inv, Bookkeeping

LEMMA NextInv == Inv /\ [Next]_vars => Inv'
<1> SUFFICES ASSUME Inv, [Next]_vars PROVE Inv'
  OBVIOUS
<1>1. ASSUME NEW d \in Managed, WithdrawalStep(d) PROVE Inv'
  BY <1>1, WithdrawalTypes, WithdrawalBookkeeping DEF Inv
<1>2. ASSUME NEW d \in Managed, ReingestionStep(d) PROVE Inv'
  BY <1>2, ReingestionTypes, ReingestionBookkeeping DEF Inv
<1>3. ASSUME NEW d \in Managed, IngestStep(d) PROVE Inv'
  BY <1>3, IngestTypes, IngestBookkeeping DEF Inv
<1>4. ASSUME NEW d \in Purgeable, PurgeStep(d) PROVE Inv'
  BY <1>4, PurgeTypes, PurgeBookkeeping DEF Inv
<1>5. CASE ActivateSnapshot \/ MergeEntities
  BY <1>5, KnowledgeBaseTypes, KnowledgeBaseBookkeeping DEF Inv
<1>6. CASE UNCHANGED vars
  BY <1>6 DEF vars, docVars, ingestVars, opVars, purgeVars, seenVars, Inv, TypeOK,
       Bookkeeping, WorkIsNumbered, PlansAreNumbered, StampIsFinal, OlderAreWithdrawn,
       CopiesArePending, WithdrawnRevisionsAreNotServed, TransientLifecycleHasWork, Stamped
<1> QED
  BY <1>1, <1>2, <1>3, <1>4, <1>5, <1>6 DEF Next

LEMMA Invariance == Spec => []Inv
BY InitInv, NextInv, PTL DEF Spec

\* Type correctness: revisions are numbered without gaps, whatever handlers,
\* late workers and failed purges do.
THEOREM TypesHold == Spec => []TypeOK
BY Invariance, PTL DEF Inv

\* What was withdrawn is not served: the withdrawal is completed with the
\* switch of the snapshot, and nothing that comes later selects a revision that
\* was ever withdrawn, although a late worker may overwrite its tombstone.
THEOREM WithdrawnIsNotServed == Spec => []WithdrawnRevisionsAreNotServed
<1>1. Inv => WithdrawnRevisionsAreNotServed
  BY DEF Inv, Bookkeeping
<1> QED
  BY <1>1, Invariance, PTL

\* A document in a transient lifecycle has an operation that will end it or
\* that a user can retry.
THEOREM TransientHasWork == Spec => []TransientLifecycleHasWork
<1>1. Inv => TransientLifecycleHasWork
  BY DEF Inv, Bookkeeping
<1> QED
  BY <1>1, Invariance, PTL

-----------------------------------------------------------------------------
(***************************************************************************)
(* Activations.                                                            *)
(***************************************************************************)
\* While a withdrawal is pending every revision of its document is stamped.
LEMMA PendingIsAllStamped ==
    ASSUME Inv, NEW d \in Doc, NEW n \in Rev, withdrawal[d][n] = "pending",
           NEW k \in Rev, revision[d][k] # "none"
    PROVE  Stamped(d, k)
<1> USE DEF Inv, TypeOK, Bookkeeping, Rev
<1>1. k <= latest[d]
  OBVIOUS
<1>2. n = latest[d]
  <2>1. n \in Int /\ latest[d] \in Int
    OBVIOUS
  <2>2. ~(n > latest[d])
    BY DEF WorkIsNumbered
  <2>3. ~(n < latest[d])
    BY DEF OlderAreWithdrawn
  <2> QED
    BY <2>1, <2>2, <2>3
<1>3. CASE k < latest[d]
  BY <1>3 DEF OlderAreWithdrawn, Stamped
<1>4. CASE k = latest[d]
  BY <1>2, <1>4 DEF Stamped
<1> QED
  BY <1>1, <1>3, <1>4

\* served' may be served after the step.
Fenced == \A c \in Doc, k \in Rev :
             <<c, k>> \in served'.revs => /\ lifecycle'[c] = "active"
                                          /\ withdrawal'[c][k] = "none"

LEMMA CommitIsFenced ==
    ASSUME Inv, NEW d \in Doc, WithdrawalCommit(d)
    PROVE  Fenced /\ served'.revs \subseteq Doc \X Rev
<1> DEFINE rev == kbCopy[d].rev
<1>1. rev \in Rev /\ withdrawal[d][rev] = "pending"
  BY DEF WithdrawalCommit, Inv, TypeOK, Bookkeeping, CopiesArePending, KbCopies
<1>2. /\ withdrawal' = [withdrawal EXCEPT ![d][rev] = "completed"]
      /\ lifecycle' = [lifecycle EXCEPT ![d] = "withdrawn"]
      /\ served'.revs = Manifest(Doc)
  BY DEF WithdrawalCommit
<1> HIDE DEF rev
<1>3. served'.revs \subseteq Doc \X Rev
  BY <1>2, ManifestIsFenced
<1>4. ASSUME NEW c \in Doc, NEW k \in Rev, <<c, k>> \in served'.revs
      PROVE  lifecycle'[c] = "active" /\ withdrawal'[c][k] = "none"
  <2>1. lifecycle[c] = "active" /\ ~Stamped(c, k) /\ revision[c][k] # "none"
    BY <1>2, <1>4, ManifestIsFenced DEF Manifest, LatestStaged
  <2>2. c # d
    BY <1>1, <2>1, PendingIsAllStamped
  <2> QED
    BY <1>2, <2>1, <2>2 DEF Inv, TypeOK, Stamped
<1> QED
  BY <1>3, <1>4 DEF Fenced

LEMMA PublishIsFenced ==
    ASSUME Inv, NEW d \in Doc, NEW n \in Rev, Publish(d, n)
    PROVE  Fenced /\ served'.revs \subseteq Doc \X Rev
<1>1. /\ served'.revs = Baseline(d) \cup {<<d, n>>} /\ ~Stamped(d, n)
      /\ lifecycle' = [lifecycle EXCEPT ![d] = "active"] /\ withdrawal' = withdrawal
  BY DEF Publish
<1>2. /\ Baseline(d) \subseteq Doc \X Rev
      /\ \A c \in Doc, k \in Rev :
            <<c, k>> \in Baseline(d) => lifecycle[c] = "active" /\ ~Stamped(c, k)
  BY DEF Baseline, Inv, TypeOK, Snapshot
<1>3. ASSUME NEW c \in Doc, NEW k \in Rev, <<c, k>> \in served'.revs
      PROVE  lifecycle'[c] = "active" /\ withdrawal'[c][k] = "none"
  <2>1. CASE <<c, k>> = <<d, n>>
    BY <1>1, <2>1 DEF Inv, TypeOK, Stamped
  <2>2. CASE <<c, k>> # <<d, n>>
    <3>1. lifecycle[c] = "active" /\ ~Stamped(c, k)
      BY <1>1, <1>2, <1>3, <2>2
    <3> QED
      BY <1>1, <3>1 DEF Inv, TypeOK, Stamped
  <2> QED
    BY <2>1, <2>2
<1> QED
  BY <1>1, <1>2, <1>3 DEF Fenced

LEMMA ActivateIsFenced ==
    ASSUME Inv, ActivateSnapshot
    PROVE  Fenced /\ served'.revs \subseteq Doc \X Rev
<1>1. PICK D \in SUBSET Doc : served'.revs = Manifest(D)
  BY DEF ActivateSnapshot
<1>2. lifecycle' = lifecycle /\ withdrawal' = withdrawal
  BY DEF ActivateSnapshot, docVars, opVars
<1> QED
  BY <1>1, <1>2, ManifestIsFenced DEF Fenced, Stamped

\* Only three handlers switch the snapshot.
LEMMA OthersKeepServed ==
    ASSUME Next
    PROVE  \/ served' = served \/ ActivateSnapshot
           \/ \E d \in Doc : WithdrawalCommit(d) \/ \E n \in Rev : Publish(d, n)
<1>1. ASSUME NEW d \in Managed, WithdrawalStep(d) PROVE served' = served \/ WithdrawalCommit(d)
  BY <1>1 DEF WithdrawalStep, RequestReads, DeleteDocument, WithdrawalFails,
       RetryWithdrawal, WithdrawalRead
<1>2. ASSUME NEW d \in Managed, ReingestionStep(d)
      PROVE  served' = served \/ \E n \in Rev : Publish(d, n)
  BY <1>2 DEF ReingestionStep, RequestReads, ReingestDocument, PublicationDeadLetters
<1>3. ASSUME NEW d \in Managed, IngestStep(d) PROVE served' = served
  BY <1>3 DEF IngestStep, RetryIngest, CancelIngest, RecoverDocument, RefuseIngest,
       ClaimIngest, BeginParsing, FinishIngest, AbandonIngest, RecoverIngest
<1>4. ASSUME NEW d \in Purgeable, PurgeStep(d) PROVE served' = served
  BY <1>4 DEF PurgeStep, SubmitPurge, RetryPurge, PurgeDrifts, PurgeObjectsFail,
       PurgeMetadataFails, PurgeVerificationFails, PurgeDeadLetters, CompletePurge, PurgeFails
<1>5. CASE MergeEntities
  BY <1>5 DEF MergeEntities
<1> QED
  BY <1>1, <1>2, <1>3, <1>4, <1>5 DEF Next

\* Whatever the copy it worked on, a step that switches the snapshot serves
\* only documents that are active and revisions that were never withdrawn.
THEOREM ActivationsAreFenced == Spec => ActivationIsFenced
<1> DEFINE A == served' # served /\ served' # None =>
                   \A m \in served'.revs : /\ lifecycle'[m[1]] = "active"
                                           /\ withdrawal'[m[1]][m[2]] = "none"
<1>1. ASSUME Inv, Next, served' # served PROVE A
  <2>1. Fenced /\ served'.revs \subseteq Doc \X Rev
    BY <1>1, OthersKeepServed, CommitIsFenced, PublishIsFenced, ActivateIsFenced
  <2> QED
    BY <2>1 DEF Fenced
<1>2. Inv /\ [Next]_vars => [A]_vars
  BY <1>1
<1> QED
  BY <1>2, Invariance, PTL DEF Spec, ActivationIsFenced

\* A revision that was never withdrawn and is staged is the latest one of its
\* document, so that every build over all documents selects it.
LEMMA ServableIsSelected ==
    ASSUME Inv, NEW c \in Doc, NEW k \in Rev, revision[c][k] = "staged",
           ~Stamped(c, k), lifecycle[c] = "active"
    PROVE  <<c, k>> \in Manifest(Doc)
<1> USE DEF Inv, TypeOK, Bookkeeping, Rev
<1>1. k = latest[c]
  <2>1. k \in Int /\ latest[c] \in Int
    OBVIOUS
  <2>2. ~(k > latest[c])
    OBVIOUS
  <2>3. ~(k < latest[c])
    BY DEF OlderAreWithdrawn, Stamped
  <2> QED
    BY <2>1, <2>2, <2>3
<1>2. \A j \in Rev : j > k => revision[c][j] # "staged"
  BY <1>1
<1>3. LatestStaged(c, k)
  BY <1>1, <1>2 DEF LatestStaged, LatestRevision
<1> QED
  BY <1>3 DEF Manifest

LEMMA CommitKeepsOthers ==
    ASSUME Inv, NEW d \in Doc, WithdrawalCommit(d), NEW c \in Doc, NEW k \in Rev,
           StaysActive(c), revision[c][k] = "staged", ~Stamped(c, k)
    PROVE  <<c, k>> \in served'.revs
<1>1. served'.revs = Manifest(Doc)
  BY DEF WithdrawalCommit
<1> QED
  BY <1>1, ServableIsSelected DEF StaysActive

LEMMA PublishKeepsOthers ==
    ASSUME Inv, NEW d \in Doc, NEW n \in Rev, Publish(d, n), NEW c \in Doc, NEW k \in Rev,
           served # None, <<c, k>> \in served.revs,
           StaysActive(c), revision[c][k] = "staged", ~Stamped(c, k)
    PROVE  <<c, k>> \in served'.revs
<1>1. served'.revs = Baseline(d) \cup {<<d, n>>} /\ lifecycle[d] = "reingestion_pending"
  BY DEF Publish
<1>2. c # d
  BY <1>1 DEF StaysActive
<1>3. <<c, k>> \in Baseline(d)
  BY <1>2 DEF Baseline, StaysActive
<1> QED
  BY <1>1, <1>3

\* The handlers of document.tombstoned and document.reingestion.staged go on
\* serving every other document that is active and untouched, whatever the copy
\* of the knowledge base they began with.
THEOREM OthersAreServedOn == Spec => HandlersKeepTheOthers
<1> DEFINE Kept(m) == /\ served # None /\ m \in served.revs
                      /\ StaysActive(m[1]) /\ ~Stamped(m[1], m[2])
                      /\ revision[m[1]][m[2]] = "staged"
                      => m \in served'.revs
           A == withdrawal' # withdrawal \/ reingestion' # reingestion =>
                   \A m \in Doc \X Rev : Kept(m)
<1>1. ASSUME Inv, Next, NEW m \in Doc \X Rev,
             withdrawal' # withdrawal \/ reingestion' # reingestion
      PROVE  Kept(m)
  <2>1. PICK c \in Doc, k \in Rev : m = <<c, k>>
    OBVIOUS
  <2>2. ~ActivateSnapshot
    BY <1>1 DEF ActivateSnapshot, opVars
  <2>3. CASE served' = served
    BY <2>3
  <2>4. ASSUME NEW d \in Doc, WithdrawalCommit(d) PROVE Kept(m)
    BY <1>1, <2>1, <2>4, CommitKeepsOthers
  <2>5. ASSUME NEW d \in Doc, NEW n \in Rev, Publish(d, n) PROVE Kept(m)
    BY <1>1, <2>1, <2>5, PublishKeepsOthers
  <2> HIDE DEF Kept
  <2> QED
    BY <1>1, <2>2, <2>3, <2>4, <2>5, OthersKeepServed
<1>2. ASSUME Inv, UNCHANGED vars PROVE A
  BY <1>2 DEF vars, opVars
<1>3. Inv /\ [Next]_vars => [A]_vars
  BY <1>1, <1>2
<1> QED
  BY <1>3, Invariance, PTL DEF Spec, HandlersKeepTheOthers

-----------------------------------------------------------------------------
(***************************************************************************)
(* The contract of a withdrawal.                                           *)
(***************************************************************************)
LEMMA InitWithdrawals == Init => Withdrawals!WInit
<1> SUFFICES ASSUME Init PROVE Withdrawals!WInit
  OBVIOUS
<1>1. Life = [x \in Revisions |-> "live"]
  BY DEF Init, Life, Revisions
<1>2. Visible \in SUBSET Revisions
  BY InitInv DEF Inv, TypeOK, Snapshot, Visible, Revisions
<1> QED
  BY <1>1, <1>2 DEF Withdrawals!WInit

LEMMA SameWithdrawals ==
    ASSUME UNCHANGED <<withdrawal, served>>
    PROVE  UNCHANGED Withdrawals!wvars
BY DEF Withdrawals!wvars, Life, Visible

\* A function that differs from another in one place is that one, updated there.
LEMMA UpdatedInOnePlace ==
    ASSUME NEW S, NEW f, NEW g, NEW a \in S, NEW v,
           f = [x \in S |-> f[x]], g = [x \in S |-> g[x]],
           g[a] = v, \A x \in S \ {a} : g[x] = f[x]
    PROVE  g = [f EXCEPT ![a] = v]
<1> DEFINE h == [f EXCEPT ![a] = v]
<1>1. h = [x \in S |-> h[x]]
  OBVIOUS
<1>2. ASSUME NEW x \in S PROVE h[x] = g[x]
  OBVIOUS
<1> HIDE DEF h
<1>3. h = g
  BY <1>1, <1>2
<1> QED
  BY <1>3 DEF h

\* A row of withdrawals that changes in one place.
LEMMA LifeOfOne ==
    ASSUME TypeOK, NEW d \in Doc, NEW n \in Rev, NEW status \in OpStatuses,
           withdrawal' = [withdrawal EXCEPT ![d][n] = status]
    PROVE  Life' = [Life EXCEPT ![<<d, n>>] =
                      CASE status = "none" -> "live"
                        [] status = "completed" -> "gone"
                        [] OTHER -> "leaving"]
<1>1. withdrawal'[d][n] = status
  BY DEF TypeOK
<1>2. \A x \in Revisions \ {<<d, n>>} : withdrawal'[x[1]][x[2]] = withdrawal[x[1]][x[2]]
  BY DEF TypeOK, Revisions
<1>3. <<d, n>> \in Revisions
  BY DEF Revisions
<1>4. \A x \in Revisions \ {<<d, n>>} : Life'[x] = Life[x]
  BY <1>2 DEF Life
<1>5. Life'[<<d, n>>] = CASE status = "none" -> "live"
                          [] status = "completed" -> "gone"
                          [] OTHER -> "leaving"
  BY <1>1, <1>3 DEF Life
<1>6. Life = [x \in Revisions |-> Life[x]] /\ Life' = [x \in Revisions |-> Life'[x]]
  BY DEF Life
<1> DEFINE v == CASE status = "none" -> "live"
                  [] status = "completed" -> "gone"
                  [] OTHER -> "leaving"
<1>7. Life'[<<d, n>>] = v
  BY <1>5
<1> HIDE DEF v
<1>8. Life' = [Life EXCEPT ![<<d, n>>] = v]
  BY <1>3, <1>4, <1>6, <1>7, UpdatedInOnePlace
<1> QED
  BY <1>8 DEF v

\* What is served after the step, if the step is fenced and completes at most one
\* withdrawal, was never withdrawn before it either.
LEMMA FencedIsLive ==
    ASSUME Fenced, served'.revs \subseteq Doc \X Rev,
           \A c \in Doc, k \in Rev : withdrawal'[c][k] = "none" => withdrawal[c][k] = "none"
    PROVE  Visible' \in SUBSET Withdrawals!Live
<1>1. ASSUME NEW c \in Doc, NEW k \in Rev, <<c, k>> \in served'.revs
      PROVE  <<c, k>> \in Withdrawals!Live
  <2>1. withdrawal[c][k] = "none"
    BY <1>1 DEF Fenced
  <2> QED
    BY <2>1 DEF Withdrawals!Live, Life, Revisions
<1> QED
  BY <1>1 DEF Visible

LEMMA DeleteWithdraws ==
    ASSUME Inv, NEW d \in Doc, DeleteDocument(d)
    PROVE  \/ UNCHANGED <<withdrawal, served>>
           \/ \E x \in Revisions : Withdrawals!Withdraw(x)
<1>1. CASE \E seen \in Lifecycles : DeleteRefused(d, seen)
  BY <1>1 DEF DeleteRefused, DeleteDocument, opVars
<1>2. ASSUME NEW seen \in Lifecycles, Withdraw(d, seen)
      PROVE  \E x \in Revisions : Withdrawals!Withdraw(x)
  <2> DEFINE n == latest[d]
  <2>1. n \in Rev /\ withdrawal[d][n] = "none" /\ <<d, n>> \in Revisions
    BY <1>2 DEF Withdraw, Stamped, Inv, TypeOK, Revisions
  <2>2. withdrawal' = [withdrawal EXCEPT ![d][n] = "pending"] /\ served' = served
    BY <1>2 DEF Withdraw, DeleteDocument
  <2> HIDE DEF n
  <2>3. Life' = [Life EXCEPT ![<<d, n>>] = "leaving"]
    BY <2>1, <2>2, LifeOfOne DEF Inv, OpStatuses
  <2>4. Life[<<d, n>>] = "live"
    BY <2>1 DEF Life
  <2>5. Withdrawals!Withdraw(<<d, n>>)
    BY <2>2, <2>3, <2>4 DEF Withdrawals!Withdraw, Visible
  <2> QED
    BY <2>1, <2>5
<1> QED
  BY <1>1, <1>2 DEF DeleteDocument

\* Trying again and giving up are not seen.
LEMMA RetryIsHidden ==
    ASSUME Inv, NEW d \in Doc, NEW n \in Rev, NEW status \in {"pending", "failed"},
           withdrawal[d][n] \in {"pending", "failed"}, served' = served,
           withdrawal' = [withdrawal EXCEPT ![d][n] = status]
    PROVE  UNCHANGED Withdrawals!wvars
<1>1. Life' = [Life EXCEPT ![<<d, n>>] = "leaving"]
  BY LifeOfOne DEF Inv, OpStatuses
<1>2. Life[<<d, n>>] = "leaving"
  BY DEF Life, Revisions
<1>3. Life' = Life
  BY <1>1, <1>2 DEF Life
<1> QED
  BY <1>3 DEF Withdrawals!wvars, Visible

LEMMA CommitFinishes ==
    ASSUME Inv, NEW d \in Doc, WithdrawalCommit(d)
    PROVE  \E x \in Revisions : Withdrawals!Finish(x)
<1> DEFINE n == kbCopy[d].rev
<1>1. n \in Rev /\ withdrawal[d][n] = "pending" /\ <<d, n>> \in Revisions
  BY DEF WithdrawalCommit, Inv, TypeOK, Bookkeeping, CopiesArePending, KbCopies, Revisions
<1>2. withdrawal' = [withdrawal EXCEPT ![d][n] = "completed"]
  BY DEF WithdrawalCommit
<1> HIDE DEF n
<1>3. Life' = [Life EXCEPT ![<<d, n>>] = "gone"]
  BY <1>1, <1>2, LifeOfOne DEF Inv, OpStatuses
<1>4. Life[<<d, n>>] = "leaving"
  BY <1>1 DEF Life
<1>5. \A c \in Doc, k \in Rev : withdrawal'[c][k] = "none" => withdrawal[c][k] = "none"
  BY <1>1, <1>2 DEF Inv, TypeOK
<1>6. Visible' \in SUBSET Withdrawals!Live
  BY <1>5, CommitIsFenced, FencedIsLive
<1>7. Withdrawals!Finish(<<d, n>>)
  BY <1>3, <1>4, <1>6 DEF Withdrawals!Finish
<1> QED
  BY <1>1, <1>7

\* Publications and activations withdraw nothing.
LEMMA SwitchShows ==
    ASSUME Inv,
           \/ ActivateSnapshot
           \/ \E d \in Doc, n \in Rev : Publish(d, n)
    PROVE  Withdrawals!Show
<1>1. UNCHANGED withdrawal
  BY DEF ActivateSnapshot, opVars, Publish
<1>2. Fenced /\ served'.revs \subseteq Doc \X Rev
  BY ActivateIsFenced, PublishIsFenced
<1>3. Visible' \in SUBSET Withdrawals!Live
  BY <1>1, <1>2, FencedIsLive
<1> QED
  BY <1>1, <1>3 DEF Withdrawals!Show, Life

\* Only withdrawals write the operation of a withdrawal.
LEMMA OthersKeepWithdrawals ==
    ASSUME Next
    PROVE  \/ UNCHANGED <<withdrawal, served>>
           \/ ActivateSnapshot
           \/ \E d \in Doc : \/ DeleteDocument(d) \/ WithdrawalCommit(d) \/ WithdrawalFails(d)
                           \/ \E n \in Rev : Publish(d, n) \/ RetryWithdrawal(d, n)
<1>1. ASSUME NEW d \in Managed, WithdrawalStep(d)
      PROVE  \/ UNCHANGED <<withdrawal, served>>
             \/ DeleteDocument(d) \/ WithdrawalCommit(d) \/ WithdrawalFails(d)
             \/ \E n \in Rev : RetryWithdrawal(d, n)
  BY <1>1 DEF WithdrawalStep, RequestReads, WithdrawalRead, opVars
<1>2. ASSUME NEW d \in Managed, ReingestionStep(d)
      PROVE  UNCHANGED <<withdrawal, served>> \/ \E n \in Rev : Publish(d, n)
  BY <1>2 DEF ReingestionStep, RequestReads, ReingestDocument, PublicationDeadLetters, opVars
<1>3. ASSUME NEW d \in Managed, IngestStep(d) PROVE UNCHANGED <<withdrawal, served>>
  BY <1>3 DEF IngestStep, RetryIngest, CancelIngest, RecoverDocument, RefuseIngest,
       ClaimIngest, BeginParsing, FinishIngest, AbandonIngest, RecoverIngest, opVars
<1>4. ASSUME NEW d \in Purgeable, PurgeStep(d) PROVE UNCHANGED <<withdrawal, served>>
  BY <1>4 DEF PurgeStep, SubmitPurge, RetryPurge, PurgeDrifts, PurgeObjectsFail, opVars,
       PurgeMetadataFails, PurgeVerificationFails, PurgeDeadLetters, CompletePurge, PurgeFails
<1>5. CASE MergeEntities
  BY <1>5 DEF MergeEntities
<1> QED
  BY <1>1, <1>2, <1>3, <1>4, <1>5 DEF Next

LEMMA StepWithdrawals ==
    ASSUME Inv, [Next]_vars
    PROVE  [Withdrawals!WNext]_(Withdrawals!wvars)
<1>1. CASE UNCHANGED <<withdrawal, served>>
  BY <1>1, SameWithdrawals
<1>2. CASE ActivateSnapshot \/ \E d \in Doc, n \in Rev : Publish(d, n)
  BY <1>2, SwitchShows DEF Withdrawals!WNext
<1>3. ASSUME NEW d \in Doc, DeleteDocument(d) \/ WithdrawalCommit(d)
      PROVE  [Withdrawals!WNext]_(Withdrawals!wvars)
  BY <1>1, <1>3, DeleteWithdraws, CommitFinishes DEF Withdrawals!WNext
<1>4. ASSUME NEW d \in Doc, NEW n \in Rev, RetryWithdrawal(d, n)
      PROVE  UNCHANGED Withdrawals!wvars
  BY <1>4, RetryIsHidden DEF RetryWithdrawal
<1>5. ASSUME NEW d \in Doc, WithdrawalFails(d) PROVE UNCHANGED Withdrawals!wvars
  <2>1. kbCopy[d].rev \in Rev /\ withdrawal[d][kbCopy[d].rev] = "pending"
    BY <1>5 DEF WithdrawalFails, Inv, TypeOK, Bookkeeping, CopiesArePending, KbCopies
  <2> QED
    BY <1>5, <2>1, RetryIsHidden DEF WithdrawalFails
<1>6. CASE UNCHANGED vars
  BY <1>1, <1>6 DEF vars, opVars
<1> QED
  BY <1>1, <1>2, <1>3, <1>4, <1>5, <1>6, OthersKeepWithdrawals

\* The withdrawal, reingestion, ingestion and purge of the documents keep the
\* contract of a withdrawal, for any stale copies, late workers and failures.
THEOREM DocumentsKeepWithdrawals == Spec => KeepsWithdrawals
<1> QED
  BY Invariance, InitWithdrawals, StepWithdrawals, PTL
     DEF Spec, KeepsWithdrawals, Withdrawals!WSpec

=============================================================================
