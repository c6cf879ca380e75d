--------------------------- MODULE IngestRunsProofs ---------------------------
(***************************************************************************)
(* The invariants of IngestRuns for any number of workers, of faults and   *)
(* of epochs.  What is shown to users follows from where a worker is: one  *)
(* that is past a stage, and still in the epoch of the knowledge base, has *)
(* the artifact of the stage, made in that epoch; only such a worker       *)
(* completes the document; and what is made in the epoch is thrown away by *)
(* workers of other epochs only, which leaves its mark in spoiled.         *)
(***************************************************************************)
EXTENDS IngestRuns, TLAPS

USE IngestAssumption

\* The artifact of a stage has been made in the epoch of the knowledge base.
Made(u) == u \in spoiled \/ (run[u].status = "staged" /\ run[u].epoch = epoch)

\* Those who may still complete the document in it, and the root that tells them.
Current(w) == at[w] # "idle" /\ captured[w] = epoch
Pending == run[Root].status \in {"queued", "running"} /\ run[Root].epoch = epoch

\* Nobody is ahead of the knowledge base.
EpochsHavePassed ==
    /\ \A w \in Worker : captured[w] <= epoch
    /\ \A u \in Unit : run[u].epoch <= epoch

\* A worker that is past a stage, or means to complete the document, has seen the
\* artifacts that this takes.
Earned(w) ==
    /\ at[w] = "idle" => on[w] = Root /\ outcome[w] = None
    /\ captured[w] = epoch /\ (on[w] = "text" \/ at[w] = "segment") => Made("parse")
    /\ at[w] = "graph" => kind = "general"
    /\ at[w] = "finish" => outcome[w] \in Outcome
    /\ captured[w] = epoch /\ kind # "general" /\ outcome[w] \in Done
          => \A u \in Behind(outcome[w]) : Made(u)

\* A stage that is done is staged, the root succeeds.
OnlyRootSucceeds == \A u \in Stage : run[u].status # "succeeded"

PlacesAreEarned == \A w \in Worker : Earned(w)

\* Whoever works in the epoch after the document was completed finds everything
\* made in this epoch: the document was completed in it.
ShownIsMade ==
    kind # "general" /\ docStatus \in Done /\ (Pending \/ \E w \in Worker : Current(w))
        => \A u \in Behind(docStatus) : Made(u)

\* And so does the root that it finds finished.
EndedIsCurrent ==
    run[Root].status = "succeeded" /\ Root \notin spoiled /\ (\E w \in Worker : Current(w))
        => run[Root].epoch = epoch

Inv ==
    /\ TypeOK
    /\ EpochsHavePassed
    /\ OnlyRootSucceeds
    /\ PlacesAreEarned
    /\ ShownIsMade
    /\ EndedIsCurrent
    /\ CompletedIsStaged
    /\ CompletedIsFinished
    /\ CancelIsHonoured

-----------------------------------------------------------------------------
(* Rows *)

LEMMA Zero == 0 \in Epoch /\ Epoch \subseteq Int
BY DEF Epoch

LEMMA FreeRow ==
    ASSUME NEW s \in RunStatus \ {"running"}, NEW e \in Epoch
    PROVE  /\ Row(s, e) \in Rows
           /\ Row(s, e).status = s
           /\ Row(s, e).owner = None
           /\ ~Row(s, e).live
           /\ Row(s, e).epoch = e
BY DEF Row, Rows

LEMMA EndedRow ==
    ASSUME NEW s \in RunStatus \ {"running"}
    PROVE  /\ Ended(s) \in Rows
           /\ Ended(s).status = s
           /\ Ended(s).owner = None
           /\ ~Ended(s).live
           /\ Ended(s).epoch = 0
BY FreeRow, Zero DEF Ended

LEMMA DelayedRow ==
    ASSUME NEW e \in Epoch
    PROVE  /\ Delayed(e) \in Rows
           /\ Delayed(e).status = "queued"
           /\ ~Delayed(e).live
           /\ Delayed(e).epoch = e
BY DEF Delayed, Row, Rows, RunStatus

LEMMA HeldRow ==
    ASSUME TypeOK, NEW w \in Worker
    PROVE  /\ Held(w) \in Rows /\ Held(w).status = "running" /\ Held(w).owner = w
           /\ Held(w).epoch = captured[w]
BY DEF Held, Rows, TypeOK

\* Only a running row has an owner and may have a live lease.
LEMMA RowFacts ==
    ASSUME NEW r \in Rows
    PROVE  /\ r.status \in RunStatus
           /\ r.status # "running" => r.owner = None /\ ~r.live
           /\ r.status = "running" => r.owner \in Worker
           /\ r.epoch \in Epoch /\ r.epoch \in Int
BY Zero DEF Rows, RunStatus

LEMMA AgedRow ==
    ASSUME NEW r \in Rows, r.live
    PROVE  /\ [r EXCEPT !.live = FALSE] \in Rows
           /\ ~[r EXCEPT !.live = FALSE].live
           /\ [r EXCEPT !.live = FALSE].status = "running"
           /\ [r EXCEPT !.live = FALSE].epoch = r.epoch
<1>1. r \in [status : {"running"}, owner : Worker, live : BOOLEAN, due : {FALSE},
             epoch : Epoch]
  BY DEF Rows
<1> QED
  BY <1>1 DEF Rows

LEMMA DueRow ==
    ASSUME NEW r \in Rows, r.status = "queued"
    PROVE  /\ [r EXCEPT !.due = TRUE] \in Rows
           /\ [r EXCEPT !.due = TRUE].status = "queued"
           /\ ~[r EXCEPT !.due = TRUE].live
           /\ [r EXCEPT !.due = TRUE].epoch = r.epoch
<1>1. r \in [status : RunStatus \ {"running"}, owner : {None}, live : {FALSE},
             due : BOOLEAN, epoch : Epoch]
  BY DEF Rows
<1> QED
  BY <1>1 DEF Rows

LEMMA Enqueued ==
    ASSUME TypeOK
    PROVE  /\ Enqueue \in Rows
           /\ run[Root].status = "succeeded" => Enqueue = run[Root]
           /\ ~run[Root].live => ~Enqueue.live
           /\ Enqueue.epoch \in {run[Root].epoch, epoch}
BY FreeRow DEF Enqueue, TypeOK, Root, Unit, RunStatus

LEMMA RootRowFacts ==
    ASSUME TypeOK, NEW w \in Worker, NEW result \in Outcome
    PROVE  /\ RootRow(w, result) \in Rows
           /\ ~RootRow(w, result).live
           /\ result \in {"completed", "needs_review"}
                 <=> RootRow(w, result).status = "succeeded"
           /\ RootRow(w, result).epoch \in {0, captured[w]}
           /\ RootRow(w, result).status = "succeeded"
                 => RootRow(w, result).epoch = captured[w]
           /\ RootRow(w, result).status \in {"queued", "running"}
                 => RootRow(w, result).epoch = captured[w] /\ result = "uploaded"
<1>1. captured[w] \in Epoch
  BY DEF TypeOK
<1> QED
  BY <1>1, FreeRow, EndedRow, DelayedRow DEF RootRow, Outcome, Done, RunStatus

LEMMA Closed ==
    ASSUME run \in [Unit -> Rows], NEW u \in Unit, NEW row \in Rows, Close(u, row)
    PROVE  /\ run' \in [Unit -> Rows]
           /\ run'[u] = row
           /\ \A v \in Unit \ {u} : run'[v] = run[v]
BY DEF Close

LEMMA Reclosed ==
    ASSUME run \in [Unit -> Rows], NEW u \in Unit, Close(u, run[u])
    PROVE  run' = run
BY DEF Close

\* What a worker owns is running.
LEMMA OwnedIsRunning ==
    ASSUME TypeOK, NEW w \in Worker, NEW u \in Unit, Owns(w, u)
    PROVE  run[u].status = "running"
<1>1. run[u] \in Rows
  BY DEF TypeOK
<1> QED
  BY <1>1, RowFacts DEF Owns

LEMMA Units == Stage \subseteq Unit /\ Root \in Unit /\ Root \notin Stage
BY DEF Unit, Stage, Root

-----------------------------------------------------------------------------
(* Types *)

WorkerTypes ==
    /\ at \in [Worker -> Place]
    /\ on \in [Worker -> Unit]
    /\ captured \in [Worker -> Epoch]
    /\ seen \in [Worker -> DocStatus \cup {None}]
    /\ outcome \in [Worker -> Outcome \cup {None}]

LEMMA InitTypes == Init => TypeOK
<1>1. SUFFICES ASSUME Init PROVE TypeOK
  OBVIOUS
<1>2. Ended("none") \in Rows
  BY EndedRow DEF RunStatus
<1> QED
  BY <1>1, <1>2, Zero, Units DEF Init, TypeOK, DocStatus, Place

LEMMA LeaveTypes ==
    ASSUME TypeOK, NEW w \in Worker, Leave(w)
    PROVE  WorkerTypes'
BY Zero, Units DEF TypeOK, WorkerTypes, Leave, GoesTo, Goes, Place

LEMMA EndsTypes ==
    ASSUME TypeOK, NEW w \in Worker, NEW result \in Outcome, Ends(w, result)
    PROVE  WorkerTypes'
BY Units DEF TypeOK, WorkerTypes, Ends, GoesTo, Goes, Place

LEMMA MovesTypes ==
    ASSUME TypeOK, NEW w \in Worker, NEW place \in Place, NEW u \in Unit,
           Moves(w, place, u)
    PROVE  WorkerTypes'
BY DEF TypeOK, WorkerTypes, Moves, GoesTo, Goes

LEMMA GoesWithoutTypes ==
    ASSUME TypeOK, NEW w \in Worker, NEW u \in Unit, GoesWithout(w, u)
    PROVE  WorkerTypes'
BY LeaveTypes, EndsTypes DEF GoesWithout, Outcome

LEMMA AfterTypes ==
    ASSUME TypeOK, NEW w \in Worker, NEW u \in Unit, After(w, u)
    PROVE  WorkerTypes'
<1>0. {"segment", "graph"} \subseteq Place /\ Root # "parse" /\ Root # "text"
      /\ "text" \in Unit
  BY DEF Place, Root, Unit, Stage
<1>1. CASE u = Root
  BY <1>0, <1>1, LeaveTypes DEF After
<1>2. CASE u = "parse"
  BY <1>0, <1>2, MovesTypes DEF After
<1>3. CASE u = "text" /\ kind = "general"
  BY <1>0, <1>3, MovesTypes, Units DEF After
<1>4. CASE u = "text" /\ kind # "general"
  <2>1. PICK result \in Done : Ends(w, result)
    BY <1>0, <1>4 DEF After
  <2> QED
    BY <2>1, EndsTypes DEF Outcome
<1> QED
  BY <1>1, <1>2, <1>3, <1>4 DEF Unit, Stage

\* TypeOK is inductive.
LEMMA RequestTypes == TypeOK /\ Request => TypeOK'
<1>1. SUFFICES ASSUME TypeOK, Request PROVE TypeOK'
  OBVIOUS
<1>2. Ended("canceled") \in Rows /\ Ended("failed") \in Rows
  BY EndedRow DEF RunStatus
<1>3. run' \in [Unit -> Rows]
  <2>1. CASE QueueDocument
    BY <1>1, <2>1, Closed, Enqueued, Units DEF QueueDocument, TypeOK
  <2>2. CASE CancelDocument
    BY <1>1, <1>2, <2>2 DEF CancelDocument, TypeOK
  <2>3. CASE PauseDocument
    BY <1>1, <1>2, <2>3 DEF PauseDocument, TypeOK
  <2>4. CASE RetryDocument
    BY <1>1, <1>2, <2>4, Enqueued DEF RetryDocument, ResetSegments, TypeOK
  <2> QED
    BY <1>1, <2>1, <2>2, <2>3, <2>4 DEF Request
<1>4. docStatus' \in DocStatus
  BY <1>1 DEF Request, QueueDocument, CancelDocument, PauseDocument, RetryDocument,
     DocStatus, Retryable
<1>5. UNCHANGED <<kind, epoch, workerVars, spoiled, faults>>
  BY <1>1 DEF Request, QueueDocument, CancelDocument, PauseDocument, RetryDocument
<1> QED
  BY <1>1, <1>3, <1>4, <1>5 DEF TypeOK, workerVars

LEMMA HoldsTypes ==
    ASSUME TypeOK, NEW w \in Worker, NEW u \in Unit, Holds(w, u)
    PROVE  /\ run' \in [Unit -> Rows] /\ run'[u] = Held(w)
           /\ \A v \in Unit \ {u} : run'[v] = run[v]
           /\ spoiled' = spoiled
           /\ WorkerTypes'
<1>1. Held(w) \in Rows
  BY HeldRow
<1>2. (IF u = Root THEN "claimed" ELSE "work") \in Place
  BY DEF Place
<1> QED
  BY <1>1, <1>2, Closed, MovesTypes DEF Holds, TypeOK

LEMMA InvalidatesTypes ==
    ASSUME TypeOK, NEW w \in Worker, NEW u \in Unit, Invalidates(w, u)
    PROVE  /\ run' \in [Unit -> Rows] /\ run'[u] = Ended("failed")
           /\ \A v \in Unit \ {u} : run'[v] = run[v]
           /\ spoiled' = IF Crossed(w) THEN spoiled \cup {u} ELSE spoiled
           /\ WorkerTypes'
<1>1. Ended("failed") \in Rows
  BY EndedRow DEF RunStatus
<1>2. "reclaim" \in Place
  BY DEF Place
<1> QED
  BY <1>1, <1>2, Closed, MovesTypes DEF Invalidates, Spoils, TypeOK

LEMMA ClaimTypes ==
    ASSUME TypeOK, NEW w \in Worker, NEW u \in Unit,
           ClaimStage(w, u) \/ ReclaimStage(w, u)
    PROVE  TypeOK'
<1>1. UNCHANGED <<kind, epoch, docStatus, faults>>
  BY DEF ClaimStage, ReclaimStage
<1>2. CASE Holds(w, u) \/ Invalidates(w, u)
  <2>1. run' \in [Unit -> Rows] /\ WorkerTypes' /\ spoiled' \subseteq Unit
    BY <1>2, HoldsTypes, InvalidatesTypes DEF TypeOK
  <2> QED
    BY <1>1, <2>1 DEF TypeOK, WorkerTypes
<1>3. CASE /\ UNCHANGED <<run, spoiled>>
           /\ After(w, u) \/ GoesWithout(w, u)
  <2>1. WorkerTypes'
    BY <1>3, AfterTypes, GoesWithoutTypes
  <2> QED
    BY <1>1, <1>3, <2>1 DEF TypeOK, WorkerTypes
<1> QED
  BY <1>2, <1>3 DEF ClaimStage, ReclaimStage

LEMMA FinalOutcome ==
    ASSUME NEW w \in Worker, Earned(w), at[w] = "finish"
    PROVE  /\ Final(w) \in Outcome
           /\ Final(w) \in Done => Final(w) = outcome[w]
BY DEF Earned, Final, Outcome, Done

LEMMA ConcludesTypes ==
    ASSUME TypeOK, NEW w \in Worker, Earned(w), at[w] = "finish", Concludes(w)
    PROVE  /\ run' \in [Unit -> Rows] /\ ~run'[Root].live
           /\ \A v \in Unit \ {Root} : run'[v] = run[v]
           /\ docStatus' \in DocStatus
           /\ spoiled' \in {spoiled, spoiled \ {Root}}
<1>1. CASE Final(w) \in Done /\ Crossed(w)
  <2>1. Ended("canceled") \in Rows /\ ~Ended("canceled").live
    BY EndedRow DEF RunStatus
  <2> QED
    BY <1>1, <2>1, Closed, Units DEF Concludes, TypeOK, DocStatus, Retryable
<1>2. CASE ~(Final(w) \in Done /\ Crossed(w))
  <2>1. Final(w) \in Outcome
    BY FinalOutcome
  <2>2. RootRow(w, Final(w)) \in Rows /\ ~RootRow(w, Final(w)).live
    BY <2>1, RootRowFacts
  <2>3. Close(Root, RootRow(w, Final(w)))
    BY <1>2 DEF Concludes
  <2>4. docStatus' \in {docStatus, Final(w)} /\ spoiled' \in {spoiled, spoiled \ {Root}}
    BY <1>2 DEF Concludes
  <2>5. Outcome \subseteq DocStatus
    BY DEF Outcome, DocStatus, Done, Retryable
  <2> QED
    BY <2>1, <2>2, <2>3, <2>4, <2>5, Closed, Units DEF TypeOK
<1> QED
  BY <1>1, <1>2

LEMMA StepTypes ==
    ASSUME TypeOK, NEW w \in Worker, Earned(w), WorkerStep(w)
    PROVE  TypeOK'
<1>0. /\ {"read", "check", "stop", "begin", "segment", "finish"} \subseteq Place
      /\ Done \cup {"failed", "canceled", "uploaded"} = Outcome
      /\ {"canceled", "parsing", "completed"} \subseteq DocStatus
      /\ "parse" \in Unit /\ "text" \in Unit
      /\ Ended("canceled") \in Rows /\ Ended("failed") \in Rows
  BY EndedRow DEF Place, Outcome, DocStatus, Retryable, Done, Unit, Stage, RunStatus
<1>1. CASE Refuse(w)
  <2>1. WorkerTypes' /\ run' \in [Unit -> Rows]
    BY <1>0, <1>1, LeaveTypes, Closed, Units DEF Refuse, TypeOK
  <2> QED
    BY <1>0, <1>1, <2>1, Units DEF Refuse, Stops, Spoils, TypeOK, WorkerTypes
<1>2. CASE AwaitSlot(w)
  BY <1>0, <1>2, MovesTypes, Units DEF AwaitSlot, TypeOK, WorkerTypes
<1>3. CASE CheckBoundary(w)
  <2>1. on[w] \in Unit /\ "claim" \in Place
    BY DEF TypeOK, Place
  <2>2. WorkerTypes'
    BY <1>3, <2>1, MovesTypes, GoesWithoutTypes DEF CheckBoundary
  <2> QED
    BY <1>3, <2>2 DEF CheckBoundary, TypeOK, WorkerTypes
<1>4. ASSUME NEW u \in Unit, ClaimStage(w, u) \/ ReclaimStage(w, u) PROVE TypeOK'
  BY <1>4, ClaimTypes
<1>5. CASE CheckRoot(w)
  <2>1. WorkerTypes'
    BY <1>0, <1>5, LeaveTypes, MovesTypes, Units DEF CheckRoot
  <2>2. run' \in [Unit -> Rows] /\ docStatus' \in DocStatus
    BY <1>0, <1>5, Closed, Units DEF CheckRoot, Stops, TypeOK
  <2> QED
    BY <1>5, <2>1, <2>2 DEF CheckRoot, TypeOK, WorkerTypes
<1>6. CASE CheckStop(w)
  <2>1. WorkerTypes'
    BY <1>0, <1>6, LeaveTypes, MovesTypes, Units DEF CheckStop
  <2>2. (IF Owns(w, Root) THEN Ended("canceled") ELSE run[Root]) \in Rows
    BY <1>0, Units DEF TypeOK
  <2>3. run' \in [Unit -> Rows]
    BY <1>6, <2>2, Closed, Units DEF CheckStop, TypeOK
  <2> QED
    BY <1>6, <2>1, <2>3 DEF CheckStop, TypeOK, WorkerTypes
<1>7. CASE BeginParsing(w)
  BY <1>0, <1>7 DEF BeginParsing, TypeOK, GoesTo, Goes
<1>8. ASSUME NEW u \in Stage, StageSucceeds(w, u) PROVE TypeOK'
  <2>1. u \in Unit /\ captured[w] \in Epoch
    BY Units DEF TypeOK
  <2>2. Row("staged", captured[w]) \in Rows
    BY <2>1, FreeRow DEF RunStatus
  <2>3. WorkerTypes' /\ run' \in [Unit -> Rows]
    BY <1>8, <2>1, <2>2, AfterTypes, Closed DEF StageSucceeds, TypeOK
  <2> QED
    BY <1>8, <2>3 DEF StageSucceeds, TypeOK, WorkerTypes
<1>9. ASSUME NEW u \in Stage, StageFails(w, u) PROVE TypeOK'
  <2>1. u \in Unit
    BY Units
  <2>2. (IF Owns(w, u) THEN Ended("failed") ELSE run[u]) \in Rows
    BY <1>0, <2>1 DEF TypeOK
  <2>3. PICK result \in Outcome : Ends(w, result)
    BY <1>0, <1>9 DEF StageFails
  <2>4. WorkerTypes' /\ run' \in [Unit -> Rows]
    BY <1>9, <2>1, <2>2, <2>3, EndsTypes, Closed DEF StageFails, TypeOK
  <2> QED
    BY <1>9, <2>4 DEF StageFails, TypeOK, WorkerTypes
<1>10. CASE CheckSegment(w)
  <2>1. (\E result \in Outcome : Ends(w, result)) \/ Moves(w, "check", "text")
    BY <1>0, <1>10 DEF CheckSegment, Done
  <2>2. WorkerTypes'
    BY <1>0, <2>1, EndsTypes, MovesTypes
  <2> QED
    BY <1>10, <2>2 DEF CheckSegment, TypeOK, WorkerTypes
<1>11. CASE GraphLine(w)
  <2>1. PICK result \in Outcome : outcome' = [outcome EXCEPT ![w] = result]
    BY <1>0, <1>11 DEF GraphLine
  <2> QED
    BY <1>0, <1>11, <2>1, Units DEF GraphLine, TypeOK, GoesTo, Goes
<1>12. CASE Finish(w)
  <2>1. WorkerTypes'
    BY <1>12, LeaveTypes DEF Finish
  <2>2. run' \in [Unit -> Rows] /\ docStatus' \in DocStatus /\ spoiled' \subseteq Unit
    BY <1>12, ConcludesTypes DEF Finish, TypeOK
  <2> QED
    BY <1>12, <2>1, <2>2 DEF Finish, TypeOK, WorkerTypes
<1> QED
  BY <1>1, <1>2, <1>3, <1>4, <1>5, <1>6, <1>7, <1>8, <1>9, <1>10, <1>11, <1>12
     DEF WorkerStep

LEMMA OtherTypes ==
    ASSUME TypeOK,
           \/ \E w \in Worker : Deliver(w) \/ Crash(w)
           \/ \E u \in Unit : Expire(u) \/ Stall(u)
           \/ AdvanceEpoch \/ BecomesDue \/ Sweep
    PROVE  TypeOK'
<1>1. ASSUME NEW w \in Worker, Deliver(w) PROVE TypeOK'
  <2>1. run[Root] \in Rows /\ "read" \in Place
    BY Units DEF TypeOK, Place
  <2>2. run[Root].epoch \in Epoch
    BY <2>1, RowFacts
  <2> QED
    BY <1>1, <2>1, <2>2 DEF Deliver, TypeOK, Goes
<1>2. ASSUME NEW w \in Worker, Crash(w) PROVE TypeOK'
  <2>1. WorkerTypes'
    BY <1>2, LeaveTypes DEF Crash
  <2> QED
    BY <1>2, <2>1 DEF Crash, TypeOK, WorkerTypes
<1>3. ASSUME NEW u \in Unit, Ages(u), faults' \in 0..MaxFaults PROVE TypeOK'
  <2>1. [run[u] EXCEPT !.live = FALSE] \in Rows
    BY <1>3, AgedRow DEF Ages, TypeOK
  <2>2. run' \in [Unit -> Rows]
    BY <1>3, <2>1 DEF Ages, TypeOK
  <2> QED
    BY <1>3, <2>2 DEF Ages, TypeOK, workerVars
<1>4. ASSUME NEW u \in Unit, Expire(u) \/ Stall(u)
      PROVE  Ages(u) /\ faults' \in 0..MaxFaults
  BY <1>4 DEF Expire, Stall, TypeOK
<1>5. CASE BecomesDue
  <2>1. [run[Root] EXCEPT !.due = TRUE] \in Rows
    BY <1>5, DueRow, Units DEF BecomesDue, TypeOK
  <2>2. run' \in [Unit -> Rows]
    BY <1>5, <2>1 DEF BecomesDue, TypeOK
  <2> QED
    BY <1>5, <2>2 DEF BecomesDue, TypeOK, workerVars
<1>6. CASE Sweep
  <2>1. Ended("failed") \in Rows
    BY EndedRow DEF RunStatus
  <2> QED
    BY <1>6, <2>1 DEF Sweep, TypeOK, workerVars, DocStatus, Retryable
<1>7. CASE AdvanceEpoch
  BY <1>7 DEF AdvanceEpoch, TypeOK, workerVars, Epoch
<1> QED
  BY <1>1, <1>2, <1>3, <1>4, <1>5, <1>6, <1>7

LEMMA NextTypes == TypeOK /\ PlacesAreEarned /\ [Next]_vars => TypeOK'
<1>1. SUFFICES ASSUME TypeOK, PlacesAreEarned, [Next]_vars PROVE TypeOK'
  OBVIOUS
<1>2. CASE UNCHANGED vars
  BY <1>1, <1>2 DEF TypeOK, vars, workerVars
<1> QED
  BY <1>1, <1>2, RequestTypes, StepTypes, OtherTypes DEF Next, PlacesAreEarned

-----------------------------------------------------------------------------
(* What is made is thrown away only for another epoch. *)

\* A row is replaced by its owner, or when it can be claimed, and neither is the
\* case of one that is staged.
LEMMA StagedStays ==
    ASSUME TypeOK, PlacesAreEarned, [Next]_vars,
           NEW u \in Stage, run[u].status = "staged"
    PROVE  \/ run'[u] = run[u]
           \/ \E w \in Worker : ClaimStage(w, u) /\ Invalidates(w, u)
<1>0. u \in Unit /\ u # Root
  BY Units
<1>1. (\A w \in Worker : ~Owns(w, u)) /\ ~run[u].live
  BY <1>0, OwnedIsRunning, RowFacts DEF TypeOK
<1>2. ~Claimable(u)
  BY DEF Claimable
<1>3. ASSUME NEW v \in Unit, v # u, NEW row, Close(v, row) PROVE run'[u] = run[u]
  BY <1>0, <1>3 DEF Close, TypeOK
<1>4. CASE UNCHANGED vars \/ AdvanceEpoch
  BY <1>4 DEF vars, AdvanceEpoch
<1>5. CASE Request
  BY <1>0, <1>3, <1>5, Units DEF Request, QueueDocument, CancelDocument, PauseDocument,
     RetryDocument, ResetSegments
<1>6. CASE Sweep
  BY <1>0, <1>6 DEF Sweep, Expired
<1>7. CASE BecomesDue
  BY <1>0, <1>7 DEF BecomesDue, TypeOK
<1>8. ASSUME NEW v \in Unit, Expire(v) \/ Stall(v) PROVE run'[u] = run[u]
  BY <1>0, <1>1, <1>8 DEF Expire, Stall, Ages, TypeOK
<1>9. ASSUME NEW w \in Worker, WorkerStep(w)
      PROVE  run'[u] = run[u] \/ (ClaimStage(w, u) /\ Invalidates(w, u))
  <2>1. CASE Refuse(w) \/ CheckRoot(w) \/ CheckStop(w)
    BY <1>0, <1>3, <2>1, Units DEF Refuse, CheckRoot, CheckStop
  <2>2. CASE AwaitSlot(w) \/ CheckBoundary(w) \/ BeginParsing(w)
             \/ CheckSegment(w) \/ GraphLine(w)
    BY <2>2 DEF AwaitSlot, CheckBoundary, BeginParsing, CheckSegment, GraphLine
  <2>3. ASSUME NEW v \in Unit, ClaimStage(w, v) \/ ReclaimStage(w, v), Holds(w, v)
        PROVE  run'[u] = run[u]
    BY <1>2, <1>3, <2>3 DEF Holds
  <2>4. ASSUME NEW v \in Unit, ClaimStage(w, v), Invalidates(w, v)
        PROVE  run'[u] = run[u] \/ (ClaimStage(w, u) /\ Invalidates(w, u))
    BY <1>3, <2>4 DEF Invalidates
  <2>5. ASSUME NEW v \in Unit, ClaimStage(w, v) \/ ReclaimStage(w, v),
               ~Holds(w, v), ~Invalidates(w, v)
        PROVE  run'[u] = run[u]
    BY <2>5 DEF ClaimStage, ReclaimStage
  <2>6. ASSUME NEW v \in Stage, StageSucceeds(w, v) PROVE run'[u] = run[u]
    BY <1>1, <1>3, <2>6, Units DEF StageSucceeds
  <2>7. ASSUME NEW v \in Stage, StageFails(w, v) PROVE run'[u] = run[u]
    <3>1. CASE v = u
      BY <1>0, <1>1, <2>7, <3>1, Reclosed DEF StageFails, TypeOK
    <3>2. CASE v # u
      BY <1>3, <2>7, <3>2, Units DEF StageFails
    <3> QED
      BY <3>1, <3>2
  <2>8. CASE Finish(w)
    BY <1>0, <2>8, ConcludesTypes DEF Finish, PlacesAreEarned
  <2>9. ASSUME NEW v \in Unit, ReclaimStage(w, v), Invalidates(w, v)
        PROVE  run'[u] = run[u]
    <3>1. CASE Holds(w, v)
      BY <2>3, <2>9, <3>1
    <3>2. CASE ~Holds(w, v)
      BY <2>9, <3>2 DEF ReclaimStage
    <3> QED
      BY <3>1, <3>2
  <2> QED
    BY <1>9, <2>1, <2>2, <2>3, <2>4, <2>5, <2>6, <2>7, <2>8, <2>9 DEF WorkerStep
<1>10. ASSUME NEW w \in Worker, Deliver(w) \/ Crash(w) PROVE run'[u] = run[u]
  BY <1>10 DEF Deliver, Crash
<1> QED
  BY <1>4, <1>5, <1>6, <1>7, <1>8, <1>9, <1>10 DEF Next

LEMMA SpoiledStays ==
    ASSUME TypeOK, PlacesAreEarned, [Next]_vars, NEW u \in Stage, u \in spoiled
    PROVE  u \in spoiled' \/ \E w \in Worker : StageSucceeds(w, u)
<1>0. u # Root
  BY Units
<1>1. CASE UNCHANGED vars \/ AdvanceEpoch \/ Request \/ Sweep \/ BecomesDue
  BY <1>1 DEF vars, AdvanceEpoch, Request, QueueDocument, CancelDocument,
     PauseDocument, RetryDocument, Sweep, BecomesDue
<1>2. ASSUME NEW v \in Unit, Expire(v) \/ Stall(v) PROVE u \in spoiled'
  BY <1>2 DEF Expire, Stall, Ages
<1>3. ASSUME NEW w \in Worker, Deliver(w) \/ Crash(w) PROVE u \in spoiled'
  BY <1>3 DEF Deliver, Crash
<1>4. ASSUME NEW w \in Worker, WorkerStep(w)
      PROVE  u \in spoiled' \/ StageSucceeds(w, u)
  <2>1. CASE Refuse(w)
    BY <2>1 DEF Refuse, Spoils
  <2>2. CASE AwaitSlot(w) \/ CheckBoundary(w) \/ CheckRoot(w) \/ CheckStop(w)
             \/ BeginParsing(w) \/ CheckSegment(w) \/ GraphLine(w)
    BY <2>2 DEF AwaitSlot, CheckBoundary, CheckRoot, CheckStop, BeginParsing,
       CheckSegment, GraphLine
  <2>3. ASSUME NEW v \in Unit, ClaimStage(w, v) \/ ReclaimStage(w, v)
        PROVE  u \in spoiled'
    BY <2>3 DEF ClaimStage, ReclaimStage, Holds, Invalidates, Spoils
  <2>4. ASSUME NEW v \in Stage, StageSucceeds(w, v)
        PROVE  u \in spoiled' \/ StageSucceeds(w, u)
    BY <2>4 DEF StageSucceeds
  <2>5. ASSUME NEW v \in Stage, StageFails(w, v) PROVE u \in spoiled'
    BY <2>5 DEF StageFails
  <2>6. CASE Finish(w)
    BY <1>0, <2>6, ConcludesTypes DEF Finish, PlacesAreEarned
  <2> QED
    BY <1>4, <2>1, <2>2, <2>3, <2>4, <2>5, <2>6 DEF WorkerStep
<1> QED
  BY <1>1, <1>2, <1>3, <1>4 DEF Next

\* Only a worker of the present epoch makes a stage anew and leaves no mark.
LEMMA StageKeeps ==
    ASSUME TypeOK, PlacesAreEarned, [Next]_vars, NEW u \in Stage,
           u \in spoiled \/ run[u].status = "staged"
    PROVE  \/ u \in spoiled'
           \/ u \notin spoiled /\ run'[u] = run[u]
           \/ /\ \E w \in Worker : Current(w)
              /\ epoch' = epoch
              /\ \/ run'[u].status = "staged" /\ run'[u].epoch = epoch
                 \/ u \notin spoiled /\ run[u].epoch # epoch
<1>0. u \in Unit
  BY Units
<1>1. ASSUME NEW w \in Worker, StageSucceeds(w, u)
      PROVE  /\ Current(w) /\ epoch' = epoch
             /\ run'[u].status = "staged" /\ run'[u].epoch = epoch
  <2>1. captured[w] \in Epoch
    BY DEF TypeOK
  <2>2. /\ Row("staged", captured[w]) \in Rows
        /\ Row("staged", captured[w]).status = "staged"
        /\ Row("staged", captured[w]).epoch = captured[w]
    BY <2>1, FreeRow DEF RunStatus
  <2>3. run'[u] = Row("staged", captured[w])
    BY <1>0, <1>1, <2>2, Closed DEF StageSucceeds, TypeOK
  <2> QED
    BY <1>1, <2>2, <2>3 DEF StageSucceeds, Crossed, Current
<1>2. ASSUME NEW w \in Worker, ClaimStage(w, u), Invalidates(w, u)
      PROVE  /\ epoch' = epoch /\ captured[w] # run[u].epoch
             /\ u \in spoiled' \/ Current(w)
  BY <1>2 DEF ClaimStage, Invalidates, Spoils, Reusable, Crossed, Current
<1>3. CASE u \in spoiled
  BY <1>1, <1>3, SpoiledStays
<1>4. CASE u \notin spoiled /\ run[u].status = "staged"
  BY <1>2, <1>4, StagedStays DEF Current
<1> QED
  BY <1>3, <1>4

LEMMA MadeStays ==
    ASSUME TypeOK, PlacesAreEarned, [Next]_vars, epoch' = epoch,
           NEW u \in Stage, Made(u)
    PROVE  Made(u)'
BY StageKeeps DEF Made

-----------------------------------------------------------------------------
(* What a row may become. *)

\* How an owner of the root ends it: the result of a passed epoch is canceled, one
\* of the present epoch is shown, and anything else is no result.
LEMMA Concluding ==
    ASSUME TypeOK, NEW w \in Worker, Earned(w), Finish(w), Owns(w, Root)
    PROVE  \/ /\ docStatus' = "canceled" /\ spoiled' = spoiled
              /\ run'[Root].status = "canceled" /\ run'[Root].epoch = 0
           \/ /\ outcome[w] \in Done /\ Current(w)
              /\ docStatus' = outcome[w] \/ (docStatus' = docStatus /\ docStatus \notin Done)
              /\ spoiled' = spoiled \ {Root}
              /\ IF outcome[w] \in {"completed", "needs_review"}
                 THEN run'[Root].status = "succeeded" /\ run'[Root].epoch = epoch
                 ELSE run'[Root].status = "failed" /\ run'[Root].epoch = 0
           \/ /\ docStatus' \notin Done /\ spoiled' = spoiled
              /\ \/ run'[Root].status = "queued" /\ run'[Root].epoch = captured[w]
                 \/ run'[Root].status \in {"canceled", "failed"} /\ run'[Root].epoch = 0
<1>0. at[w] = "finish" /\ Concludes(w)
  BY DEF Finish
<1>1. CASE Final(w) \in Done /\ Crossed(w)
  <2>1. /\ Ended("canceled") \in Rows
        /\ Ended("canceled").status = "canceled" /\ Ended("canceled").epoch = 0
    BY EndedRow DEF RunStatus
  <2>2. run'[Root] = Ended("canceled")
    BY <1>0, <1>1, <2>1, Closed, Units DEF Concludes, TypeOK
  <2> QED
    BY <1>0, <1>1, <2>1, <2>2 DEF Concludes
<1>2. CASE ~(Final(w) \in Done /\ Crossed(w))
  <2>0. Final(w) \in Outcome /\ (Final(w) \in Done => Final(w) = outcome[w])
    BY <1>0, FinalOutcome
  <2>1. RootRow(w, Final(w)) \in Rows /\ captured[w] \in Epoch
    BY <2>0, RootRowFacts DEF TypeOK
  <2>2. run'[Root] = RootRow(w, Final(w))
    BY <1>0, <1>2, <2>1, Closed, Units DEF Concludes, TypeOK
  <2>3. CASE Final(w) \in Done
    <3>1. Current(w) /\ captured[w] = epoch
      BY <1>0, <1>2, <2>3 DEF Crossed, Current
    <3>2. /\ docStatus' = outcome[w] \/ (docStatus' = docStatus /\ docStatus \notin Done)
          /\ spoiled' = spoiled \ {Root}
      <4>1. /\ docStatus' = IF Written(w) \/ docStatus \in Done THEN Final(w)
                                                             ELSE docStatus
            /\ spoiled' = IF Final(w) \in Done THEN spoiled \ {Root} ELSE spoiled
        BY <1>0, <1>2 DEF Concludes
      <4>2. CASE Written(w) \/ docStatus \in Done
        BY <2>0, <2>3, <4>1, <4>2
      <4>3. CASE ~(Written(w) \/ docStatus \in Done)
        BY <2>3, <4>1, <4>3
      <4> QED
        BY <4>2, <4>3
    <3>3. CASE outcome[w] \in {"completed", "needs_review"}
      <4>1. run'[Root] = Row("succeeded", captured[w])
        BY <2>0, <2>2, <2>3, <3>3 DEF RootRow
      <4>2. run'[Root].status = "succeeded" /\ run'[Root].epoch = epoch
        BY <2>1, <3>1, <4>1, FreeRow DEF RunStatus
      <4> QED
        BY <2>0, <2>3, <3>1, <3>2, <3>3, <4>2
    <3>4. CASE outcome[w] \notin {"completed", "needs_review"}
      <4>1. run'[Root] = Ended("failed")
        BY <2>0, <2>2, <2>3, <3>4 DEF RootRow, Done
      <4>2. run'[Root].status = "failed" /\ run'[Root].epoch = 0
        BY <4>1, EndedRow DEF RunStatus
      <4> QED
        BY <2>0, <2>3, <3>1, <3>2, <3>4, <4>2
    <3> QED
      BY <3>3, <3>4
  <2>4. CASE Final(w) \notin Done
    <3>1. docStatus' \notin Done /\ spoiled' = spoiled
      BY <1>0, <1>2, <2>4 DEF Concludes
    <3>2. \/ run'[Root].status = "queued" /\ run'[Root].epoch = captured[w]
          \/ run'[Root].status \in {"canceled", "failed"} /\ run'[Root].epoch = 0
      <4>1. CASE Final(w) = "uploaded"
        BY <2>1, <2>2, <4>1, DelayedRow DEF RootRow
      <4>2. CASE Final(w) \in {"canceled", "failed"}
        BY <2>2, <4>2, EndedRow DEF RootRow, RunStatus
      <4> QED
        BY <2>0, <2>4, <4>1, <4>2 DEF Outcome
    <3> QED
      BY <3>1, <3>2
  <2> QED
    BY <2>3, <2>4
<1> QED
  BY <1>1, <1>2

LEMMA RowSteps ==
    ASSUME TypeOK, PlacesAreEarned, [Next]_vars, NEW u \in Unit
    PROVE  \/ run'[u].status = run[u].status /\ run'[u].epoch = run[u].epoch
           \/ run'[u].status \in {"canceled", "failed"} /\ run'[u].epoch = 0
           \/ u = Root /\ run'[u] = Enqueue /\ docStatus' = "uploaded" /\ epoch' = epoch
           \/ \E w \in Worker :
                 /\ at[w] # "idle" /\ epoch' = epoch /\ run'[u].epoch = captured[w]
                 /\ \/ run'[u].status \in {"queued", "running"}
                    \/ u \in Stage /\ run'[u].status = "staged"
                    \/ u = Root /\ run'[u].status = "succeeded" /\ Current(w)
<1>0. /\ Ended("canceled") \in Rows /\ Ended("failed") \in Rows
      /\ Ended("canceled").status = "canceled" /\ Ended("canceled").epoch = 0
      /\ Ended("failed").status = "failed" /\ Ended("failed").epoch = 0
  BY EndedRow DEF RunStatus
<1>1. ASSUME NEW v \in Unit, v # u, NEW row, Close(v, row) PROVE run'[u] = run[u]
  BY <1>1 DEF Close, TypeOK
<1>2. ASSUME NEW row, Close(u, row) PROVE run'[u] = row
  BY <1>2 DEF Close, TypeOK
<1>3. CASE UNCHANGED vars \/ AdvanceEpoch
  BY <1>3 DEF vars, AdvanceEpoch
<1>4. CASE Request
  <2>1. CASE QueueDocument
    BY <1>1, <1>2, <2>1, Units DEF QueueDocument
  <2>2. CASE CancelDocument \/ PauseDocument
    BY <1>0, <2>2 DEF CancelDocument, PauseDocument
  <2>3. CASE RetryDocument
    BY <1>0, <2>3 DEF RetryDocument, ResetSegments
  <2> QED
    BY <1>4, <2>1, <2>2, <2>3 DEF Request
<1>5. CASE Sweep
  BY <1>0, <1>5 DEF Sweep
<1>6. CASE BecomesDue
  <2>1. CASE u # Root
    BY <1>6, <2>1 DEF BecomesDue, TypeOK
  <2>2. CASE u = Root
    BY <1>6, <2>2, DueRow, Units DEF BecomesDue, TypeOK
  <2> QED
    BY <2>1, <2>2
<1>7. ASSUME NEW v \in Unit, Expire(v) \/ Stall(v)
      PROVE  run'[u].status = run[u].status /\ run'[u].epoch = run[u].epoch
  <2>1. CASE u # v
    BY <1>7, <2>1 DEF Expire, Stall, Ages, TypeOK
  <2>2. CASE u = v
    <3>1. run[u] \in Rows /\ run[u].live /\ run'[u] = [run[u] EXCEPT !.live = FALSE]
      BY <1>7, <2>2 DEF Expire, Stall, Ages, TypeOK
    <3>2. run[u].status = "running"
      BY <3>1, RowFacts
    <3> QED
      BY <3>1, <3>2, AgedRow
  <2> QED
    BY <2>1, <2>2
<1>8. ASSUME NEW w \in Worker, Deliver(w) \/ Crash(w) PROVE run'[u] = run[u]
  BY <1>8 DEF Deliver, Crash
<1>9. ASSUME NEW w \in Worker, WorkerStep(w)
      PROVE  \/ run'[u].status = run[u].status /\ run'[u].epoch = run[u].epoch
             \/ run'[u].status \in {"canceled", "failed"} /\ run'[u].epoch = 0
             \/ /\ at[w] # "idle" /\ epoch' = epoch /\ run'[u].epoch = captured[w]
                /\ \/ run'[u].status \in {"queued", "running"}
                   \/ u \in Stage /\ run'[u].status = "staged"
                   \/ u = Root /\ run'[u].status = "succeeded" /\ Current(w)
  <2>1. CASE Refuse(w) \/ CheckRoot(w) \/ CheckStop(w)
    <3>1. run'[u] \in {run[u], Ended("canceled")}
      BY <1>1, <1>2, <2>1, Units DEF Refuse, CheckRoot, CheckStop
    <3> QED
      BY <1>0, <3>1
  <2>2. CASE AwaitSlot(w) \/ CheckBoundary(w) \/ BeginParsing(w)
             \/ CheckSegment(w) \/ GraphLine(w)
    BY <2>2 DEF AwaitSlot, CheckBoundary, BeginParsing, CheckSegment, GraphLine
  <2>3. ASSUME NEW v \in Unit, ClaimStage(w, v) \/ ReclaimStage(w, v)
        PROVE  \/ run'[u] \in {run[u], Ended("failed")}
               \/ run'[u] = Held(w) /\ at[w] # "idle" /\ epoch' = epoch
    <3>1. CASE Holds(w, v)
      BY <1>1, <1>2, <2>3, <3>1 DEF Holds, ClaimStage, ReclaimStage
    <3>2. CASE Invalidates(w, v)
      BY <1>1, <1>2, <2>3, <3>2 DEF Invalidates
    <3> QED
      BY <2>3, <3>1, <3>2 DEF ClaimStage, ReclaimStage
  <2>4. ASSUME NEW v \in Stage, StageSucceeds(w, v)
        PROVE  \/ run'[u] = run[u]
               \/ /\ u \in Stage /\ run'[u] = Row("staged", captured[w])
                  /\ at[w] # "idle" /\ epoch' = epoch
    BY <1>1, <1>2, <2>4, Units DEF StageSucceeds
  <2>5. captured[w] \in Epoch
    BY DEF TypeOK
  <2>6. ASSUME NEW v \in Stage, StageFails(w, v)
        PROVE  run'[u] \in {run[u], Ended("failed")}
    BY <1>1, <1>2, <2>6, Units DEF StageFails
  <2>7. CASE Finish(w)
    <3>0. Earned(w) /\ at[w] # "idle" /\ epoch' = epoch
      BY <2>7 DEF Finish, PlacesAreEarned
    <3>1. CASE ~Owns(w, Root)
      BY <2>7, <3>1 DEF Finish
    <3>2. CASE Owns(w, Root) /\ u # Root
      BY <2>7, <3>0, <3>2, ConcludesTypes DEF Finish
    <3>3. CASE Owns(w, Root) /\ u = Root
      BY <2>7, <3>0, <3>3, Concluding DEF Current
    <3> QED
      BY <3>1, <3>2, <3>3
  <2>8. CASE \E v \in Unit : ClaimStage(w, v) \/ ReclaimStage(w, v)
    BY <1>0, <2>3, <2>8, HeldRow
  <2>9. CASE \E v \in Stage : StageSucceeds(w, v)
    BY <2>4, <2>5, <2>9, FreeRow DEF RunStatus
  <2>10. CASE \E v \in Stage : StageFails(w, v)
    BY <1>0, <2>6, <2>10
  <2> QED
    BY <1>9, <2>1, <2>2, <2>7, <2>8, <2>9, <2>10 DEF WorkerStep
<1> QED
  BY <1>3, <1>4, <1>5, <1>6, <1>7, <1>8, <1>9 DEF Next

LEMMA OnlyRootSucceedsStays ==
    TypeOK /\ PlacesAreEarned /\ OnlyRootSucceeds /\ [Next]_vars => OnlyRootSucceeds'
<1>1. SUFFICES ASSUME TypeOK, PlacesAreEarned, OnlyRootSucceeds, [Next]_vars,
                      NEW u \in Stage
               PROVE  run'[u].status # "succeeded"
  BY DEF OnlyRootSucceeds
<1>2. u \in Unit /\ u # Root /\ run[u].status # "succeeded"
  BY <1>1, Units DEF OnlyRootSucceeds
<1> QED
  BY <1>1, <1>2, RowSteps

-----------------------------------------------------------------------------
(* Where the workers are. *)

Still(v) ==
    /\ at'[v] = at[v] /\ on'[v] = on[v] /\ captured'[v] = captured[v]
    /\ outcome'[v] = outcome[v]

\* A step of a worker leaves the others where they are.
LEMMA OthersStay ==
    ASSUME TypeOK, NEW w \in Worker, WorkerStep(w) \/ Deliver(w) \/ Crash(w),
           NEW v \in Worker, v # w
    PROVE  Still(v) /\ UNCHANGED <<kind, epoch>>
<1>1. ASSUME NEW place, NEW u, GoesTo(w, place, u)
      PROVE  at'[v] = at[v] /\ on'[v] = on[v]
  BY <1>1 DEF GoesTo, Goes, TypeOK
<1>2. ASSUME Leave(w) PROVE Still(v)
  BY <1>1, <1>2 DEF Leave, Still, TypeOK
<1>3. ASSUME NEW result, Ends(w, result) PROVE Still(v)
  BY <1>1, <1>3 DEF Ends, Still, TypeOK
<1>4. ASSUME NEW place, NEW u, Moves(w, place, u) PROVE Still(v)
  BY <1>1, <1>4 DEF Moves, Still
<1>5. ASSUME NEW u, After(w, u) PROVE Still(v)
  BY <1>2, <1>3, <1>4, <1>5 DEF After
<1>6. ASSUME NEW u, GoesWithout(w, u) PROVE Still(v)
  BY <1>2, <1>3, <1>6 DEF GoesWithout
<1>7. CASE Refuse(w) \/ AwaitSlot(w) \/ CheckBoundary(w) \/ CheckRoot(w) \/ CheckStop(w)
  BY <1>2, <1>4, <1>6, <1>7 DEF Refuse, AwaitSlot, CheckBoundary, CheckRoot, CheckStop
<1>8. ASSUME NEW u \in Unit, ClaimStage(w, u) \/ ReclaimStage(w, u)
      PROVE  Still(v) /\ UNCHANGED <<kind, epoch>>
  <2>1. CASE Holds(w, u) \/ Invalidates(w, u)
    BY <1>4, <1>8, <2>1 DEF ClaimStage, ReclaimStage, Holds, Invalidates
  <2>2. CASE After(w, u) \/ GoesWithout(w, u)
    BY <1>5, <1>6, <1>8, <2>2 DEF ClaimStage, ReclaimStage
  <2> QED
    BY <1>8, <2>1, <2>2 DEF ClaimStage, ReclaimStage
<1>9. CASE BeginParsing(w) \/ GraphLine(w)
  BY <1>1, <1>9 DEF BeginParsing, GraphLine, Still, TypeOK
<1>10. ASSUME NEW u \in Stage, StageSucceeds(w, u) \/ StageFails(w, u)
       PROVE  Still(v) /\ UNCHANGED <<kind, epoch>>
  BY <1>3, <1>5, <1>10 DEF StageSucceeds, StageFails
<1>11. CASE CheckSegment(w) \/ Finish(w) \/ Crash(w)
  BY <1>2, <1>3, <1>4, <1>11 DEF CheckSegment, Finish, Crash
<1>12. CASE Deliver(w)
  BY <1>12 DEF Deliver, Goes, Still, TypeOK
<1> QED
  BY <1>7, <1>8, <1>9, <1>10, <1>11, <1>12 DEF WorkerStep

\* A step in which no stage of the epoch is lost.
Steady == TypeOK /\ PlacesAreEarned /\ [Next]_vars /\ UNCHANGED <<kind, epoch>>

LEMMA StayingEarns ==
    ASSUME Steady, NEW w \in Worker, Still(w)
    PROVE  Earned(w)'
<1>1. Earned(w)
  BY DEF Steady, PlacesAreEarned
<1>2. \A u \in Stage : Made(u) => Made(u)'
  BY MadeStays DEF Steady
<1>3. {"parse", "text"} = Stage
  BY DEF Stage
<1> QED
  BY <1>1, <1>2, <1>3 DEF Steady, Still, Earned, Behind

LEMMA LeaveEarns ==
    ASSUME TypeOK, NEW w \in Worker, Leave(w)
    PROVE  Earned(w)'
<1>1. at'[w] = "idle" /\ on'[w] = Root /\ outcome'[w] = None
  BY DEF Leave, GoesTo, Goes, TypeOK
<1>2. None \notin Done /\ Root # "text"
  BY DEF DocStatus, Root
<1> QED
  BY <1>1, <1>2 DEF Earned

LEMMA MovesEarns ==
    ASSUME Steady, NEW w \in Worker, NEW place, NEW u, Moves(w, place, u),
           place \notin {"idle", "finish"},
           u = "text" \/ place = "segment" => (captured[w] = epoch => Made("parse")'),
           place = "graph" => kind = "general"
    PROVE  Earned(w)'
<1>1. Earned(w)
  BY DEF Steady, PlacesAreEarned
<1>2. \A v \in Stage : Made(v) => Made(v)'
  BY MadeStays DEF Steady
<1>3. {"parse", "text"} = Stage
  BY DEF Stage
<1>4. /\ at'[w] = place /\ on'[w] = u
      /\ captured'[w] = captured[w] /\ outcome'[w] = outcome[w]
  BY DEF Steady, TypeOK, Moves, GoesTo, Goes
<1> QED
  BY <1>1, <1>2, <1>3, <1>4 DEF Steady, Earned, Behind

LEMMA EndsEarns ==
    ASSUME Steady, NEW w \in Worker, NEW result \in Outcome, Ends(w, result),
           captured[w] = epoch /\ kind # "general" /\ result \in Done
              => \A u \in Behind(result) : Made(u)'
    PROVE  Earned(w)'
<1>1. /\ at'[w] = "finish" /\ on'[w] = Root
      /\ captured'[w] = captured[w] /\ outcome'[w] = result
  BY DEF Steady, TypeOK, Ends, GoesTo, Goes
<1>2. Root # "text"
  BY DEF Root
<1> QED
  BY <1>1, <1>2 DEF Steady, Earned, Behind

LEMMA FailingEarns ==
    ASSUME Steady, NEW w \in Worker, NEW result \in Outcome \ Done, Ends(w, result)
    PROVE  Earned(w)'
BY EndsEarns

LEMMA GoesWithoutEarns ==
    ASSUME Steady, NEW w \in Worker, NEW u, GoesWithout(w, u)
    PROVE  Earned(w)'
<1>1. "failed" \in Outcome \ Done
  BY DEF Outcome, Done
<1> QED
  BY <1>1, LeaveEarns, FailingEarns DEF GoesWithout, Steady

LEMMA AfterEarns ==
    ASSUME Steady, NEW w \in Worker, NEW u \in Unit, After(w, u), on[w] = u,
           u \in Stage /\ captured[w] = epoch => Made(u)'
    PROVE  Earned(w)'
<1>0. Root \notin {"parse", "text"} /\ Stage = {"parse", "text"}
  BY DEF Root, Stage
<1>1. Earned(w) /\ TypeOK
  BY DEF Steady, PlacesAreEarned
<1>2. CASE u = Root
  BY <1>0, <1>1, <1>2, LeaveEarns DEF After
<1>3. CASE u = "parse"
  BY <1>0, <1>3, MovesEarns DEF After
<1>4. CASE u = "text" /\ kind = "general"
  BY <1>0, <1>4, MovesEarns DEF After
<1>5. CASE u = "text" /\ kind # "general"
  <2>1. PICK result \in Done : Ends(w, result)
    BY <1>0, <1>5 DEF After
  <2>2. captured[w] = epoch => Made("parse")' /\ Made("text")'
    BY <1>0, <1>1, <1>5, MadeStays DEF Earned, Steady
  <2> QED
    BY <1>0, <2>1, <2>2, EndsEarns DEF Outcome, Behind
<1> QED
  BY <1>0, <1>2, <1>3, <1>4, <1>5 DEF Unit

LEMMA StepEarns ==
    ASSUME Steady, OnlyRootSucceeds, NEW w \in Worker, WorkerStep(w)
    PROVE  Earned(w)'
<1>0. /\ TypeOK /\ Earned(w)
      /\ \A v \in Stage : Made(v) => Made(v)'
      /\ Root \notin {"parse", "text"} /\ Stage = {"parse", "text"}
  BY MadeStays DEF Steady, PlacesAreEarned, Root, Stage
<1>a. on[w] = "text" \/ at[w] = "segment" => (captured[w] = epoch => Made("parse")')
  BY <1>0 DEF Earned
<1>1. CASE Refuse(w) \/ Finish(w)
  BY <1>0, <1>1, LeaveEarns DEF Refuse, Finish
<1>2. CASE AwaitSlot(w)
  BY <1>0, <1>2, MovesEarns DEF AwaitSlot
<1>3. CASE CheckBoundary(w)
  BY <1>a, <1>3, MovesEarns, GoesWithoutEarns DEF CheckBoundary
<1>4. ASSUME NEW u \in Unit, ClaimStage(w, u) \/ ReclaimStage(w, u)
      PROVE  Earned(w)'
  <2>0. on[w] = u
    BY <1>4 DEF ClaimStage, ReclaimStage
  <2>1. CASE Holds(w, u) \/ Invalidates(w, u)
    <3>1. PICK place \in {"claimed", "work", "reclaim"} : Moves(w, place, u)
      BY <2>1 DEF Holds, Invalidates
    <3> QED
      BY <1>a, <2>0, <3>1, MovesEarns
  <2>2. CASE GoesWithout(w, u)
    BY <2>2, GoesWithoutEarns
  <2>3. CASE Reusable(w, u) /\ After(w, u)
    <3>1. u \in Stage /\ captured[w] = epoch => Made(u)
      BY <2>3 DEF Reusable, Finished, Made, OnlyRootSucceeds
    <3> QED
      BY <1>0, <2>0, <2>3, <3>1, AfterEarns
  <2> QED
    BY <1>4, <2>1, <2>2, <2>3 DEF ClaimStage, ReclaimStage
<1>5. CASE CheckRoot(w) \/ CheckStop(w)
  BY <1>0, <1>5, LeaveEarns, MovesEarns DEF CheckRoot, CheckStop
<1>6. CASE BeginParsing(w)
  <2>1. /\ at'[w] = "check" /\ on'[w] = "parse"
        /\ captured'[w] = captured[w] /\ outcome'[w] = outcome[w]
    BY <1>0, <1>6 DEF BeginParsing, GoesTo, Goes, TypeOK
  <2> QED
    BY <1>0, <2>1 DEF Steady, Earned, Behind
<1>7. ASSUME NEW u \in Stage, StageSucceeds(w, u) PROVE Earned(w)'
  <2>1. u \in Unit /\ captured[w] \in Epoch
    BY <1>0, Units DEF TypeOK
  <2>2. /\ Row("staged", captured[w]) \in Rows
        /\ Row("staged", captured[w]).status = "staged"
        /\ Row("staged", captured[w]).epoch = captured[w]
    BY <2>1, FreeRow DEF RunStatus
  <2>3. run'[u] = Row("staged", captured[w])
    BY <1>0, <1>7, <2>1, <2>2, Closed DEF StageSucceeds, TypeOK
  <2>4. captured[w] = epoch => Made(u)'
    BY <2>2, <2>3 DEF Made, Steady
  <2> QED
    BY <1>7, <2>1, <2>4, AfterEarns DEF StageSucceeds
<1>8. ASSUME NEW u \in Stage, StageFails(w, u) PROVE Earned(w)'
  <2>1. PICK result \in {"failed", "uploaded"} : Ends(w, result)
    BY <1>8 DEF StageFails
  <2>2. result \in Outcome \ Done
    BY DEF Outcome, Done
  <2> QED
    BY <2>1, <2>2, FailingEarns
<1>9. CASE CheckSegment(w)
  <2>1. CASE Moves(w, "check", "text")
    BY <1>a, <1>9, <2>1, MovesEarns DEF CheckSegment
  <2>2. CASE Ends(w, "canceled")
    <3>1. "canceled" \in Outcome \ Done
      BY DEF Outcome, Done
    <3> QED
      BY <2>2, <3>1, FailingEarns
  <2>3. CASE Ends(w, "needs_review")
    <3>1. "needs_review" \in Outcome /\ Behind("needs_review") = {"parse"}
      BY DEF Outcome, Done, Behind
    <3> QED
      BY <1>a, <1>9, <2>3, <3>1, EndsEarns DEF CheckSegment
  <2> QED
    BY <1>9, <2>1, <2>2, <2>3 DEF CheckSegment
<1>10. CASE GraphLine(w)
  <2>1. PICK result \in Done : outcome' = [outcome EXCEPT ![w] = result]
    BY <1>10 DEF GraphLine
  <2>2. at'[w] = "finish" /\ on'[w] = Root /\ outcome'[w] = result /\ kind' = "general"
    BY <1>0, <1>10, <2>1 DEF GraphLine, GoesTo, Goes, TypeOK, Earned
  <2> QED
    BY <1>0, <2>2 DEF Earned, Outcome
<1> QED
  BY <1>1, <1>2, <1>3, <1>4, <1>5, <1>6, <1>7, <1>8, <1>9, <1>10 DEF WorkerStep

LEMMA EpochsStay ==
    TypeOK /\ PlacesAreEarned /\ EpochsHavePassed /\ [Next]_vars => EpochsHavePassed'
<1>1. SUFFICES ASSUME TypeOK, PlacesAreEarned, EpochsHavePassed, [Next]_vars
               PROVE  EpochsHavePassed'
  OBVIOUS
<1>0. /\ epoch \in Int /\ epoch' \in Int /\ epoch >= 0
      /\ \A w \in Worker : captured[w] \in Int /\ captured'[w] \in Int
      /\ \A u \in Unit : run[u].epoch \in Int
  <2>1. TypeOK'
    BY <1>1, NextTypes
  <2> QED
    BY <1>1, <2>1, RowFacts DEF TypeOK, Epoch
<1>2. epoch' >= epoch
  BY <1>0, <1>1 DEF Next, vars, Request, QueueDocument, CancelDocument, PauseDocument,
     RetryDocument, AdvanceEpoch, Sweep, BecomesDue, Deliver, Crash, Expire, Stall,
     Ages, WorkerStep, Refuse, AwaitSlot, CheckBoundary, ClaimStage, ReclaimStage,
     CheckRoot, CheckStop, BeginParsing, StageSucceeds, StageFails, CheckSegment,
     GraphLine, Finish
<1>3. ASSUME NEW u \in Unit PROVE run'[u].epoch <= epoch'
  <2>1. run'[u].epoch \in {run[u].epoch, run[Root].epoch, epoch, 0}
        \/ \E w \in Worker : run'[u].epoch = captured[w]
    BY <1>1, RowSteps, Enqueued
  <2> QED
    BY <1>0, <1>1, <1>2, <2>1, Units DEF EpochsHavePassed
<1>4. ASSUME NEW w \in Worker PROVE captured'[w] <= epoch'
  <2>1. captured'[w] \in {captured[w], 0, run[Root].epoch}
    BY <1>1 DEF Next, vars, workerVars, Request, QueueDocument, CancelDocument,
     PauseDocument, RetryDocument, AdvanceEpoch, Sweep, BecomesDue, Deliver, Crash,
     Expire, Stall, Ages, WorkerStep, Refuse, AwaitSlot, CheckBoundary, ClaimStage,
     ReclaimStage, Holds, Invalidates, After, GoesWithout, CheckRoot, CheckStop,
     BeginParsing, StageSucceeds, StageFails, CheckSegment, GraphLine, Finish, Leave,
     Ends, Moves, TypeOK
  <2> QED
    BY <1>0, <1>1, <1>2, <2>1, Units DEF EpochsHavePassed
<1> QED
  BY <1>3, <1>4 DEF EpochsHavePassed

LEMMA OnlyAdvanceEpoch ==
    ASSUME [Next]_vars
    PROVE  kind' = kind /\ (epoch' = epoch \/ AdvanceEpoch)
BY DEF Next, vars, Request, QueueDocument, CancelDocument, PauseDocument,
   RetryDocument, Sweep, BecomesDue, Deliver, Crash, Expire, Stall,
   Ages, WorkerStep, Refuse, AwaitSlot, CheckBoundary, ClaimStage, ReclaimStage,
   CheckRoot, CheckStop, BeginParsing, StageSucceeds, StageFails, CheckSegment,
   GraphLine, Finish, AdvanceEpoch

\* Nobody works in an epoch that has just begun.
LEMMA NewEpoch ==
    ASSUME TypeOK, EpochsHavePassed, AdvanceEpoch
    PROVE  /\ \A w \in Worker : Still(w) /\ captured'[w] # epoch'
           /\ run'[Root].epoch # epoch'
           /\ UNCHANGED <<kind, docStatus, run, spoiled>>
<1>1. /\ epoch \in Int /\ \A w \in Worker : captured[w] \in Int /\ captured[w] <= epoch
      /\ run[Root].epoch \in Int /\ run[Root].epoch <= epoch
  BY RowFacts, Units DEF TypeOK, Epoch, EpochsHavePassed
<1> QED
  BY <1>1 DEF AdvanceEpoch, Still, workerVars

LEMMA PlacesStay ==
    TypeOK /\ EpochsHavePassed /\ OnlyRootSucceeds /\ PlacesAreEarned /\ [Next]_vars
        => PlacesAreEarned'
<1>1. SUFFICES ASSUME TypeOK, EpochsHavePassed, OnlyRootSucceeds, PlacesAreEarned,
                      [Next]_vars, NEW v \in Worker
               PROVE  Earned(v)'
  BY DEF PlacesAreEarned
<1>2. CASE AdvanceEpoch
  BY <1>1, <1>2, NewEpoch DEF PlacesAreEarned, Earned, Still, Behind
<1>3. CASE epoch' = epoch
  <2>0. Steady
    BY <1>1, <1>3, OnlyAdvanceEpoch DEF Steady
  <2>1. CASE Still(v)
    BY <2>0, <2>1, StayingEarns
  <2>2. ASSUME NEW w \in Worker, WorkerStep(w) \/ Deliver(w) \/ Crash(w), w # v
        PROVE  Still(v)
    BY <1>1, <2>2, OthersStay
  <2>3. CASE WorkerStep(v)
    BY <1>1, <2>0, <2>3, StepEarns
  <2>4. CASE Crash(v)
    BY <1>1, <2>4, LeaveEarns DEF Crash
  <2>5. CASE Deliver(v)
    <3>1. at'[v] = "read" /\ on'[v] = Root /\ outcome'[v] = None
      BY <1>1, <2>5 DEF Deliver, Fresh, Goes, TypeOK, PlacesAreEarned, Earned
    <3>2. None \notin Done /\ Root # "text"
      BY DEF DocStatus, Root
    <3> QED
      BY <3>1, <3>2 DEF Earned
  <2>6. ASSUME UNCHANGED workerVars PROVE Still(v)
    BY <2>6 DEF workerVars, Still
  <2>7. \/ UNCHANGED workerVars \/ AdvanceEpoch
        \/ \E w \in Worker : WorkerStep(w) \/ Deliver(w) \/ Crash(w)
    BY <1>1 DEF Next, vars, Request, QueueDocument, CancelDocument, PauseDocument,
       RetryDocument, Sweep, BecomesDue, Expire, Stall, Ages
  <2>8. CASE AdvanceEpoch
    BY <1>3, <2>8 DEF AdvanceEpoch, TypeOK, Epoch
  <2> QED
    BY <1>2, <2>1, <2>2, <2>3, <2>4, <2>5, <2>6, <2>7
<1> QED
  BY <1>1, <1>2, <1>3, OnlyAdvanceEpoch

-----------------------------------------------------------------------------
(* What is shown. *)

\* In an epoch, somebody begins to work only for a root that is queued in it, and
\* a root is queued in it by one who works in it, or by a request.
LEMMA CurrentComes ==
    ASSUME TypeOK, [Next]_vars, epoch' = epoch, NEW w \in Worker, Current(w)'
    PROVE  Current(w) \/ (Pending /\ run' = run)
<1>1. CASE Deliver(w)
  BY <1>1 DEF Deliver, Current, Pending, TypeOK
<1>2. CASE Crash(w)
  BY <1>2 DEF Crash, Leave, GoesTo, Goes, Current, TypeOK
<1>3. CASE WorkerStep(w)
  <2>1. at[w] # "idle"
    BY <1>3 DEF WorkerStep, Refuse, AwaitSlot, CheckBoundary, ClaimStage, ReclaimStage,
       CheckRoot, CheckStop, BeginParsing, StageSucceeds, StageFails, CheckSegment,
       GraphLine, Finish
  <2>2. captured'[w] = captured[w] \/ Leave(w)
    BY <1>3 DEF WorkerStep, Refuse, AwaitSlot, CheckBoundary, ClaimStage, ReclaimStage,
       CheckRoot, CheckStop, BeginParsing, StageSucceeds, StageFails, CheckSegment,
       GraphLine, Finish, Holds, Invalidates, After, GoesWithout, Moves, Ends
  <2>3. ~Leave(w)
    BY DEF Leave, GoesTo, Goes, Current, TypeOK
  <2> QED
    BY <2>1, <2>2, <2>3 DEF Current
<1>4. CASE Still(w)
  BY <1>4 DEF Still, Current
<1>5. ASSUME NEW v \in Worker, v # w, WorkerStep(v) \/ Deliver(v) \/ Crash(v)
      PROVE  Still(w)
  BY <1>5, OthersStay
<1>6. \/ UNCHANGED workerVars
      \/ \E v \in Worker : WorkerStep(v) \/ Deliver(v) \/ Crash(v)
  BY DEF Next, vars, Request, QueueDocument, CancelDocument, PauseDocument,
     RetryDocument, Sweep, BecomesDue, Expire, Stall, Ages, AdvanceEpoch
<1> QED
  BY <1>1, <1>2, <1>3, <1>4, <1>5, <1>6 DEF workerVars, Still

LEMMA PendingComes ==
    ASSUME TypeOK, PlacesAreEarned, [Next]_vars, epoch' = epoch, Pending'
    PROVE  Pending \/ docStatus' = "uploaded" \/ \E w \in Worker : Current(w)
BY RowSteps, Units DEF Pending, Current

LEMMA Working ==
    ASSUME TypeOK, PlacesAreEarned, [Next]_vars, epoch' = epoch, docStatus' \in Done,
           (Pending \/ \E w \in Worker : Current(w))'
    PROVE  Pending \/ \E w \in Worker : Current(w)
<1>1. "uploaded" \notin Done
  BY DEF Done
<1> QED
  BY <1>1, CurrentComes, PendingComes

\* Only the two lines that publish a result complete a document.
LEMMA CompletingSteps ==
    ASSUME TypeOK, PlacesAreEarned, [Next]_vars, kind # "general",
           docStatus' \in Done, docStatus' # docStatus
    PROVE  \E w \in Worker : /\ Finish(w) /\ Owns(w, Root) /\ Current(w)
                             /\ docStatus' = outcome[w]
<1>1. CASE Request \/ AdvanceEpoch \/ Sweep \/ BecomesDue \/ UNCHANGED vars
  BY <1>1 DEF Request, QueueDocument, CancelDocument, PauseDocument,
     RetryDocument, AdvanceEpoch, Sweep, BecomesDue, vars, Done
<1>2. ASSUME NEW u \in Unit, Expire(u) \/ Stall(u) PROVE FALSE
  BY <1>2 DEF Expire, Stall, Ages
<1>3. ASSUME NEW w \in Worker, Deliver(w) \/ Crash(w) PROVE FALSE
  BY <1>3 DEF Deliver, Crash
<1>4. ASSUME NEW w \in Worker, WorkerStep(w), ~Finish(w) PROVE FALSE
  <2>1. ~GraphLine(w)
    BY DEF GraphLine, PlacesAreEarned, Earned
  <2> QED
    BY <1>4, <2>1 DEF WorkerStep, Refuse, Stops, AwaitSlot, CheckBoundary, ClaimStage,
       ReclaimStage, CheckRoot, CheckStop, BeginParsing, StageSucceeds, StageFails,
       CheckSegment, Done
<1>5. ASSUME NEW w \in Worker, Finish(w)
      PROVE  Owns(w, Root) /\ Current(w) /\ docStatus' = outcome[w]
  <2>1. Owns(w, Root) /\ Earned(w)
    BY <1>5 DEF Finish, PlacesAreEarned
  <2> QED
    BY <1>5, <2>1, Concluding DEF Done
<1> QED
  BY <1>1, <1>2, <1>3, <1>4, <1>5 DEF Next

LEMMA ShownStays ==
    TypeOK /\ EpochsHavePassed /\ PlacesAreEarned /\ ShownIsMade /\ [Next]_vars
        => ShownIsMade'
<1>1. SUFFICES ASSUME TypeOK, EpochsHavePassed, PlacesAreEarned, ShownIsMade,
                      [Next]_vars, kind' # "general", docStatus' \in Done,
                      (Pending \/ \E w \in Worker : Current(w))',
                      NEW u \in Behind(docStatus')
               PROVE  Made(u)'
  BY DEF ShownIsMade, Behind
<1>2. ~AdvanceEpoch
  BY <1>1, NewEpoch DEF Pending, Current
<1>3. kind # "general" /\ epoch' = epoch
  BY <1>1, <1>2, OnlyAdvanceEpoch
<1>4. u \in Stage
  BY <1>1 DEF Behind, Stage
<1>5. SUFFICES Made(u)
  BY <1>1, <1>3, <1>4, MadeStays
<1>6. CASE docStatus' = docStatus
  BY <1>1, <1>3, <1>6, Working DEF ShownIsMade
<1>7. ASSUME NEW w \in Worker, Current(w), docStatus' = outcome[w] PROVE Made(u)
  BY <1>1, <1>3, <1>7 DEF PlacesAreEarned, Earned, Current
<1> QED
  BY <1>1, <1>3, <1>6, <1>7, CompletingSteps

\* A root that has succeeded is opened again for another epoch only.
LEMMA RootKeeps ==
    ASSUME TypeOK, PlacesAreEarned, [Next]_vars, run[Root].status = "succeeded"
    PROVE  \/ run'[Root] = run[Root]
           \/ Root \in spoiled'
           \/ /\ \E w \in Worker : Current(w)
              /\ run[Root].epoch # epoch
<1>0. Root \in Unit /\ run[Root] \in Rows /\ Enqueue = run[Root]
  BY Enqueued, Units DEF TypeOK
<1>1. (\A w \in Worker : ~Owns(w, Root)) /\ ~run[Root].live /\ ~Claimable(Root)
  BY <1>0, OwnedIsRunning, RowFacts DEF Claimable
<1>2. ASSUME NEW v \in Unit, v # Root, NEW row, Close(v, row) PROVE run'[Root] = run[Root]
  BY <1>0, <1>2 DEF Close, TypeOK
<1>3. CASE UNCHANGED vars \/ AdvanceEpoch
  BY <1>3 DEF vars, AdvanceEpoch
<1>4. CASE Request
  BY <1>0, <1>4 DEF Request, QueueDocument, CancelDocument, PauseDocument,
     RetryDocument, ResetSegments, Close, TypeOK
<1>5. CASE Sweep \/ BecomesDue
  BY <1>0, <1>5 DEF Sweep, Expired, BecomesDue
<1>6. ASSUME NEW v \in Unit, Expire(v) \/ Stall(v) PROVE run'[Root] = run[Root]
  BY <1>0, <1>1, <1>6 DEF Expire, Stall, Ages, TypeOK
<1>7. ASSUME NEW w \in Worker, Deliver(w) \/ Crash(w) PROVE run'[Root] = run[Root]
  BY <1>7 DEF Deliver, Crash
<1>8. ASSUME NEW w \in Worker, WorkerStep(w)
      PROVE  \/ run'[Root] = run[Root]
             \/ Root \in spoiled'
             \/ Current(w) /\ run[Root].epoch # epoch
  <2>1. CASE Refuse(w)
    BY <2>1 DEF Refuse, Spoils, Finished
  <2>2. CASE AwaitSlot(w) \/ CheckBoundary(w) \/ BeginParsing(w)
             \/ CheckSegment(w) \/ GraphLine(w)
    BY <2>2 DEF AwaitSlot, CheckBoundary, BeginParsing, CheckSegment, GraphLine
  <2>3. CASE CheckRoot(w) \/ CheckStop(w)
    BY <1>0, <1>1, <2>3, Reclosed DEF CheckRoot, CheckStop, TypeOK
  <2>4. ASSUME NEW v \in Unit, ClaimStage(w, v) \/ ReclaimStage(w, v),
               Holds(w, v)
        PROVE  run'[Root] = run[Root]
    BY <1>1, <1>2, <2>4 DEF Holds
  <2>5. ASSUME NEW v \in Unit, ClaimStage(w, v), Invalidates(w, v)
        PROVE  \/ run'[Root] = run[Root]
               \/ Root \in spoiled'
               \/ Current(w) /\ run[Root].epoch # epoch
    <3>1. CASE v # Root
      BY <1>2, <2>5, <3>1 DEF Invalidates
    <3>2. CASE v = Root
      BY <2>5, <3>2 DEF ClaimStage, Invalidates, Spoils, Reusable, Crossed, Current
    <3> QED
      BY <3>1, <3>2
  <2>6. ASSUME NEW v \in Unit, ClaimStage(w, v) \/ ReclaimStage(w, v)
        PROVE  \/ Holds(w, v) \/ (ClaimStage(w, v) /\ Invalidates(w, v))
               \/ run' = run
    BY <2>6 DEF ClaimStage, ReclaimStage
  <2>7. ASSUME NEW v \in Stage, StageSucceeds(w, v) \/ StageFails(w, v)
        PROVE  run'[Root] = run[Root]
    BY <1>2, <2>7, Units DEF StageSucceeds, StageFails
  <2>8. CASE Finish(w)
    BY <1>1, <2>8 DEF Finish
  <2> QED
    BY <1>8, <2>1, <2>2, <2>3, <2>4, <2>5, <2>6, <2>7, <2>8 DEF WorkerStep
<1> QED
  BY <1>3, <1>4, <1>5, <1>6, <1>7, <1>8 DEF Next

\* It is finished again by its owner.
LEMMA RootUnspoiled ==
    ASSUME TypeOK, [Next]_vars, Root \in spoiled, Root \notin spoiled'
    PROVE  \E w \in Worker : Finish(w) /\ Owns(w, Root)
<1>1. CASE UNCHANGED vars \/ AdvanceEpoch \/ Request \/ Sweep \/ BecomesDue
  BY <1>1 DEF vars, AdvanceEpoch, Request, QueueDocument, CancelDocument,
     PauseDocument, RetryDocument, Sweep, BecomesDue
<1>2. ASSUME NEW v \in Unit, Expire(v) \/ Stall(v) PROVE FALSE
  BY <1>2 DEF Expire, Stall, Ages
<1>3. ASSUME NEW w \in Worker, Deliver(w) \/ Crash(w) PROVE FALSE
  BY <1>3 DEF Deliver, Crash
<1>4. ASSUME NEW w \in Worker, WorkerStep(w) PROVE Finish(w) /\ Owns(w, Root)
  <2>1. ~Refuse(w)
    BY DEF Refuse, Spoils
  <2>2. ~(AwaitSlot(w) \/ CheckBoundary(w) \/ CheckRoot(w) \/ CheckStop(w)
             \/ BeginParsing(w) \/ CheckSegment(w) \/ GraphLine(w))
    BY DEF AwaitSlot, CheckBoundary, CheckRoot, CheckStop,
       BeginParsing, CheckSegment, GraphLine
  <2>3. \A v \in Unit : ~(ClaimStage(w, v) \/ ReclaimStage(w, v))
    BY DEF ClaimStage, ReclaimStage, Holds, Invalidates, Spoils
  <2>4. \A v \in Stage : ~(StageSucceeds(w, v) \/ StageFails(w, v))
    BY Units DEF StageSucceeds, StageFails
  <2> QED
    BY <1>4, <2>1, <2>2, <2>3, <2>4 DEF WorkerStep, Finish
<1> QED
  BY <1>1, <1>2, <1>3, <1>4 DEF Next

LEMMA EndedStays ==
    TypeOK /\ EpochsHavePassed /\ PlacesAreEarned /\ EndedIsCurrent /\ [Next]_vars
        => EndedIsCurrent'
<1>1. SUFFICES ASSUME TypeOK, EpochsHavePassed, PlacesAreEarned, EndedIsCurrent,
                      [Next]_vars, run'[Root].status = "succeeded",
                      Root \notin spoiled', NEW v \in Worker, Current(v)'
               PROVE  run'[Root].epoch = epoch'
  BY DEF EndedIsCurrent
<1>2. epoch' = epoch
  BY <1>1, NewEpoch, OnlyAdvanceEpoch DEF Current
<1>3. CASE run[Root].status = "succeeded" /\ run'[Root].epoch = run[Root].epoch
  <2>1. Root \notin spoiled
    BY <1>1, <1>3, RootUnspoiled, OwnedIsRunning, Units
  <2>2. Current(v)
    BY <1>1, <1>2, <1>3, CurrentComes DEF Pending
  <2> QED
    BY <1>1, <1>2, <1>3, <2>1, <2>2 DEF EndedIsCurrent
<1>4. ASSUME run'[Root] = Enqueue
      PROVE  run[Root].status = "succeeded" /\ run'[Root].epoch = run[Root].epoch
  <2>1. Row("queued", epoch).status = "queued"
    BY DEF Row
  <2> QED
    BY <1>1, <1>4, <2>1 DEF Enqueue
<1>5. ASSUME NEW w \in Worker, run'[Root].epoch = captured[w],
             run'[Root].status \in {"queued", "running"} \/ Root \in Stage \/ Current(w)
      PROVE  run'[Root].epoch = epoch
  BY <1>1, <1>5, Units DEF Current
<1> QED
  BY <1>1, <1>2, <1>3, <1>4, <1>5, RowSteps, Units

LEMMA StagedIsKeptByStep ==
    TypeOK /\ PlacesAreEarned /\ ShownIsMade /\ CompletedIsStaged /\ [Next]_vars
        => CompletedIsStaged'
<1>1. SUFFICES ASSUME TypeOK, PlacesAreEarned, ShownIsMade, CompletedIsStaged,
                      [Next]_vars, kind # "general", docStatus' \in Done
               PROVE  \E e \in Epoch : \A u \in Behind(docStatus') \ spoiled' :
                          run'[u].status = "staged" /\ run'[u].epoch = e
  BY OnlyAdvanceEpoch DEF CompletedIsStaged, Behind
<1>2. Behind(docStatus') \subseteq Stage
  BY DEF Behind, Stage
<1>3. ASSUME epoch' = epoch, \A u \in Behind(docStatus') : Made(u)
      PROVE  \A u \in Behind(docStatus') \ spoiled' :
                 run'[u].status = "staged" /\ run'[u].epoch = epoch
  BY <1>1, <1>2, <1>3, MadeStays DEF Made
<1>4. epoch \in Epoch
  BY <1>1 DEF TypeOK
<1>5. CASE docStatus' # docStatus
  <2>1. PICK w \in Worker : Finish(w) /\ Current(w) /\ docStatus' = outcome[w]
    BY <1>1, <1>5, CompletingSteps
  <2>2. epoch' = epoch /\ \A u \in Behind(docStatus') : Made(u)
    BY <1>1, <2>1 DEF Finish, PlacesAreEarned, Earned, Current
  <2> QED
    BY <1>3, <1>4, <2>2
<1>6. CASE docStatus' = docStatus /\ epoch' = epoch /\ \E w \in Worker : Current(w)
  <2>1. \A u \in Behind(docStatus') : Made(u)
    BY <1>1, <1>6 DEF ShownIsMade
  <2> QED
    BY <1>3, <1>4, <1>6, <2>1
<1>7. CASE docStatus' = docStatus /\ ~(epoch' = epoch /\ \E w \in Worker : Current(w))
  <2>1. PICK e \in Epoch : \A u \in Behind(docStatus) \ spoiled :
                               run[u].status = "staged" /\ run[u].epoch = e
    BY <1>1, <1>7 DEF CompletedIsStaged
  <2>2. ASSUME NEW u \in Behind(docStatus') \ spoiled'
        PROVE  run'[u].status = "staged" /\ run'[u].epoch = e
    <3>1. u \in Stage /\ u \in Behind(docStatus)
      BY <1>2, <1>7
    <3>2. u \in spoiled \/ run[u].status = "staged"
      BY <2>1, <3>1
    <3>3. u \notin spoiled /\ run'[u] = run[u]
      BY <1>1, <1>7, <2>2, <3>1, <3>2, StageKeeps
    <3> QED
      BY <2>1, <3>1, <3>3
  <2> QED
    BY <2>2
<1> QED
  BY <1>5, <1>6, <1>7

LEMMA FinishedIsKeptByStep ==
    TypeOK /\ PlacesAreEarned /\ EndedIsCurrent /\ CompletedIsFinished /\ [Next]_vars
        => CompletedIsFinished'
<1>1. SUFFICES ASSUME TypeOK, PlacesAreEarned, EndedIsCurrent, CompletedIsFinished,
                      [Next]_vars, kind # "general",
                      docStatus' \in {"completed", "needs_review"}, Root \notin spoiled'
               PROVE  run'[Root].status = "succeeded"
  BY OnlyAdvanceEpoch DEF CompletedIsFinished
<1>2. docStatus' \in Done /\ "canceled" \notin Done
  BY <1>1 DEF Done
<1>3. ASSUME NEW w \in Worker, Finish(w), Owns(w, Root)
      PROVE  run'[Root].status = "succeeded"
  <2>1. Earned(w)
    BY <1>1 DEF PlacesAreEarned
  <2>2. docStatus' = docStatus /\ docStatus \notin Done => FALSE
    BY <1>2
  <2> QED
    BY <1>1, <1>2, <1>3, <2>1, <2>2, Concluding
<1>4. CASE docStatus' # docStatus
  BY <1>1, <1>2, <1>3, <1>4, CompletingSteps
<1>5. CASE docStatus' = docStatus /\ Root \notin spoiled
  BY <1>1, <1>5, RootKeeps DEF CompletedIsFinished, EndedIsCurrent
<1>6. CASE docStatus' = docStatus /\ Root \in spoiled
  BY <1>1, <1>3, <1>6, RootUnspoiled
<1> QED
  BY <1>4, <1>5, <1>6

-----------------------------------------------------------------------------
(* What is canceled. *)

\* A step that neither cancels nor touches the root or its owner changes nothing.
LEMMA CancelStays ==
    ASSUME TypeOK, CancelIsHonoured,
           docStatus' = "canceled" => docStatus = "canceled",
           \/ ~run'[Root].live
           \/ /\ run'[Root] = run[Root]
              /\ run[Root].live => at'[run[Root].owner] = at[run[Root].owner]
    PROVE  CancelIsHonoured'
BY DEF CancelIsHonoured

\* A worker that owns the root of a canceled document is at one of two places.
LEMMA CancelByStep ==
    ASSUME TypeOK, CancelIsHonoured, NEW w \in Worker, WorkerStep(w), at[w] # "idle",
           docStatus' = "canceled" => docStatus = "canceled",
           run'[Root] = run[Root],
           \/ ~Owns(w, Root)
           \/ at[w] \notin {"claimed", "stop"}
           \/ at'[w] \in {"claimed", "stop", "idle"}
    PROVE  CancelIsHonoured'
<1>1. run[Root].live => run[Root].owner \in Worker
  BY RowFacts, Units DEF TypeOK
<1>2. run[Root].live /\ run[Root].owner # w => at'[run[Root].owner] = at[run[Root].owner]
  BY <1>1, OthersStay DEF Still
<1> QED
  BY <1>1, <1>2 DEF CancelIsHonoured, Owns

LEMMA CancelByWorker ==
    ASSUME TypeOK, PlacesAreEarned, CancelIsHonoured, NEW w \in Worker, WorkerStep(w)
    PROVE  CancelIsHonoured'
<1>0. /\ Ended("canceled") \in Rows /\ ~Ended("canceled").live
      /\ Ended("failed") \in Rows /\ ~Ended("failed").live
  BY EndedRow DEF RunStatus
<1>1. ASSUME NEW row \in Rows, Close(Root, row) PROVE run'[Root] = row
  BY <1>1, Units DEF Close, TypeOK
<1>2. ASSUME NEW v \in Unit, v # Root, NEW row, Close(v, row) PROVE run'[Root] = run[Root]
  BY <1>2, Units DEF Close, TypeOK
<1>3. ~run'[Root].live => CancelIsHonoured'
  BY DEF CancelIsHonoured
<1>4. CASE Refuse(w)
  BY <1>0, <1>1, <1>3, <1>4 DEF Refuse
<1>5. CASE AwaitSlot(w) \/ CheckBoundary(w) \/ BeginParsing(w)
           \/ CheckSegment(w) \/ GraphLine(w)
  <2>1. /\ run' = run
        /\ docStatus' = "canceled" => docStatus = "canceled"
        /\ at[w] \notin {"idle", "claimed", "stop"}
    BY <1>5 DEF AwaitSlot, CheckBoundary, BeginParsing, CheckSegment, GraphLine
  <2> QED
    BY <2>1, CancelByStep
<1>6. ASSUME NEW u \in Unit, ClaimStage(w, u) \/ ReclaimStage(w, u)
      PROVE  CancelIsHonoured'
  <2>0. at[w] \notin {"idle", "claimed", "stop"} /\ docStatus' = docStatus
    BY <1>6 DEF ClaimStage, ReclaimStage
  <2>1. CASE Holds(w, u) /\ u = Root
    <3>1. run'[Root].owner = w /\ at'[w] = "claimed"
      BY <1>1, <2>1, HeldRow DEF Holds, Moves, GoesTo, Goes, TypeOK
    <3> QED
      BY <3>1 DEF CancelIsHonoured
  <2>2. CASE Invalidates(w, u) /\ u = Root
    BY <1>0, <1>1, <1>3, <2>2 DEF Invalidates
  <2>3. CASE (Holds(w, u) \/ Invalidates(w, u)) /\ u # Root
    <3>1. run'[Root] = run[Root]
      BY <1>2, <2>3 DEF Holds, Invalidates
    <3> QED
      BY <2>0, <3>1, CancelByStep
  <2>4. CASE run' = run
    BY <2>0, <2>4, CancelByStep
  <2> QED
    BY <1>6, <2>1, <2>2, <2>3, <2>4 DEF ClaimStage, ReclaimStage
<1>7. CASE CheckRoot(w)
  <2>1. CASE Crossed(w) /\ Owns(w, Root)
    BY <1>0, <1>1, <1>3, <1>7, <2>1 DEF CheckRoot
  <2>2. CASE Crossed(w) /\ ~Owns(w, Root)
    BY <1>7, <2>2, CancelByStep DEF CheckRoot
  <2>3. CASE ~Crossed(w)
    <3>1. /\ at'[w] = "stop" /\ UNCHANGED <<docStatus, run>>
          /\ at[w] # "idle"
      BY <1>7, <2>3 DEF CheckRoot, Moves, GoesTo, Goes, TypeOK
    <3> QED
      BY <3>1, CancelByStep
  <2> QED
    BY <2>1, <2>2, <2>3
<1>8. CASE CheckStop(w)
  <2>1. CASE docStatus \in Stopped /\ Owns(w, Root)
    BY <1>0, <1>1, <1>3, <1>8, <2>1 DEF CheckStop
  <2>2. CASE docStatus \in Stopped /\ ~Owns(w, Root)
    <3>1. run' = run /\ docStatus' = docStatus /\ at[w] # "idle"
      BY <1>8, <2>2, Reclosed, Units DEF CheckStop, TypeOK
    <3> QED
      BY <2>2, <3>1, CancelByStep
  <2>3. CASE docStatus \notin Stopped
    BY <1>8, <2>3 DEF CheckStop, Stopped, CancelIsHonoured
  <2> QED
    BY <2>1, <2>2, <2>3
<1>9. ASSUME NEW u \in Stage, StageSucceeds(w, u) \/ StageFails(w, u)
      PROVE  CancelIsHonoured'
  <2>1. /\ run'[Root] = run[Root] /\ docStatus' = docStatus
        /\ at[w] \notin {"idle", "claimed", "stop"}
    BY <1>2, <1>9, Units DEF StageSucceeds, StageFails
  <2> QED
    BY <2>1, CancelByStep
<1>10. CASE Finish(w)
  <2>1. CASE Owns(w, Root)
    BY <1>3, <1>10, <2>1, ConcludesTypes DEF Finish, PlacesAreEarned
  <2>2. CASE ~Owns(w, Root)
    BY <1>10, <2>2, CancelByStep DEF Finish
  <2> QED
    BY <2>1, <2>2
<1> QED
  BY <1>4, <1>5, <1>6, <1>7, <1>8, <1>9, <1>10 DEF WorkerStep

LEMMA CancelIsKeptByStep ==
    TypeOK /\ PlacesAreEarned /\ CancelIsHonoured /\ [Next]_vars
        => CancelIsHonoured'
<1>1. SUFFICES ASSUME TypeOK, PlacesAreEarned, CancelIsHonoured, [Next]_vars
               PROVE  CancelIsHonoured'
  OBVIOUS
<1>0. /\ run[Root] \in Rows
      /\ run[Root].live => run[Root].owner \in Worker
      /\ run[Root].status \notin {"queued", "running"} => ~run[Root].live
      /\ ~Ended("canceled").live /\ ~Ended("failed").live
  BY <1>1, RowFacts, EndedRow, Units DEF TypeOK, RunStatus
<1>2. CASE QueueDocument \/ PauseDocument \/ RetryDocument
  BY <1>2 DEF QueueDocument, PauseDocument, RetryDocument, CancelIsHonoured
<1>3. CASE CancelDocument
  <2>1. ~run'[Root].live
    BY <1>0, <1>3, Units DEF CancelDocument
  <2> QED
    BY <2>1 DEF CancelIsHonoured
<1>4. CASE Sweep
  <2>1. run'[Root] = run[Root] \/ ~run'[Root].live
    BY <1>0, <1>4, Units DEF Sweep
  <2> QED
    BY <1>1, <1>4, <2>1, CancelStays DEF Sweep, workerVars
<1>5. CASE BecomesDue
  <2>1. ~run'[Root].live
    BY <1>1, <1>5, DueRow, Units DEF BecomesDue, TypeOK
  <2> QED
    BY <1>1, <1>5, <2>1, CancelStays DEF BecomesDue
<1>6. ASSUME NEW u \in Unit, Expire(u) \/ Stall(u) PROVE CancelIsHonoured'
  <2>1. run'[Root] = run[Root] \/ ~run'[Root].live
    <3>1. CASE u # Root
      BY <1>1, <1>6, <3>1, Units DEF Expire, Stall, Ages, TypeOK
    <3>2. CASE u = Root
      <4>1. run[Root].live /\ run'[Root] = [run[Root] EXCEPT !.live = FALSE]
        BY <1>1, <1>6, <3>2, Units DEF Expire, Stall, Ages, TypeOK
      <4> QED
        BY <1>0, <4>1, AgedRow
    <3> QED
      BY <3>1, <3>2
  <2> QED
    BY <1>1, <1>6, <2>1, CancelStays DEF Expire, Stall, Ages, workerVars
<1>7. ASSUME NEW w \in Worker, Deliver(w) PROVE CancelIsHonoured'
  <2>1. run[Root].owner # w /\ UNCHANGED <<docStatus, run>>
    BY <1>7, Units DEF Deliver, Fresh
  <2>2. run[Root].live => at'[run[Root].owner] = at[run[Root].owner]
    BY <1>0, <1>1, <1>7, <2>1, OthersStay DEF Still
  <2> QED
    BY <1>1, <2>1, <2>2, CancelStays
<1>8. ASSUME NEW w \in Worker, Crash(w) PROVE CancelIsHonoured'
  <2>1. at'[w] = "idle" /\ UNCHANGED <<docStatus, run>>
    BY <1>1, <1>8 DEF Crash, Leave, GoesTo, Goes, TypeOK
  <2>2. run[Root].live /\ run[Root].owner # w
           => at'[run[Root].owner] = at[run[Root].owner]
    BY <1>0, <1>1, <1>8, OthersStay DEF Still
  <2> QED
    BY <1>1, <2>1, <2>2 DEF CancelIsHonoured
<1>9. CASE UNCHANGED vars \/ AdvanceEpoch
  BY <1>1, <1>9 DEF vars, workerVars, AdvanceEpoch, CancelIsHonoured
<1> QED
  BY <1>1, <1>2, <1>3, <1>4, <1>5, <1>6, <1>7, <1>8, <1>9, CancelByWorker
     DEF Next, Request

-----------------------------------------------------------------------------
(* The theorems. *)

LEMMA InvHolds == Spec => []Inv
<1>1. Init => Inv
  <2>1. SUFFICES ASSUME Init PROVE Inv
    OBVIOUS
  <2>2. None \notin Done /\ docStatus \notin Done /\ Root # "text"
    BY <2>1 DEF DocStatus, Done, Init, Root
  <2>3. PlacesAreEarned /\ EpochsHavePassed /\ OnlyRootSucceeds
    <3>1. Ended("none").status = "none" /\ Ended("none").epoch = 0
      BY EndedRow DEF RunStatus
    <3> QED
      BY <2>1, <2>2, <3>1, Units DEF Init, PlacesAreEarned, Earned, EpochsHavePassed,
         OnlyRootSucceeds
  <2>4. CompletedIsStaged /\ CompletedIsFinished /\ CancelIsHonoured /\ ShownIsMade
    BY <2>1, <2>2 DEF Init, CompletedIsStaged, CompletedIsFinished, CancelIsHonoured,
       ShownIsMade, Done
  <2>5. EndedIsCurrent
    BY <2>1, EndedRow, Units DEF Init, EndedIsCurrent, RunStatus
  <2> QED
    BY <2>1, <2>3, <2>4, <2>5, InitTypes DEF Inv
<1>2. Inv /\ [Next]_vars => Inv'
  BY NextTypes, EpochsStay, OnlyRootSucceedsStays, PlacesStay, ShownStays, EndedStays,
     StagedIsKeptByStep, FinishedIsKeptByStep, CancelIsKeptByStep DEF Inv
<1> QED
  BY <1>1, <1>2, PTL DEF Spec

\* The rows keep the shape their statuses call for: an owner and a lease belong
\* to a running row and to no other (kb/ingest_runs.py clears both on every
\* other transition).
THEOREM TypesHold == Spec => []TypeOK
<1>1. Inv => TypeOK
  BY DEF Inv
<1> QED
  BY InvHolds, <1>1, PTL

\* A document whose facts are extracted is completed only when each stage behind
\* the result has staged its artifact, all in one epoch of the knowledge base,
\* for any number of deliveries, crashes, stalls, retries and changes of the epoch.
THEOREM CompletedHasArtifacts == Spec => []CompletedIsStaged
<1>1. Inv => CompletedIsStaged
  BY DEF Inv
<1> QED
  BY InvHolds, <1>1, PTL

\* A document with extracted facts is completed together with its root, by a
\* worker that owned it, and opened by a late delivery only if that is of a passed
\* epoch and was stalled.
THEOREM CompletedHasEnded == Spec => []CompletedIsFinished
<1>1. Inv => CompletedIsFinished
  BY DEF Inv
<1> QED
  BY InvHolds, <1>1, PTL

\* A worker that owns the root of a canceled document has not begun, and stops.
THEOREM CancellationsHold == Spec => []CancelIsHonoured
<1>1. Inv => CancelIsHonoured
  BY DEF Inv
<1> QED
  BY InvHolds, <1>1, PTL

\* No request or recovery throws away what a stage has staged, and no worker but
\* one that claims the stage for another epoch.
THEOREM StagedIsKept == Spec => StagedWorkIsKept
<1>1. TypeOK /\ PlacesAreEarned /\ [Next]_vars
        => [\A u \in Stage :
               run[u].status = "staged" /\ run'[u] # run[u]
                   => \E w \in Worker : /\ at[w] = "claim" /\ on[w] = u
                                        /\ captured[w] # run[u].epoch]_vars
  BY StagedStays DEF ClaimStage, Invalidates, Reusable
<1>2. Inv => TypeOK /\ PlacesAreEarned
  BY DEF Inv
<1> QED
  BY InvHolds, <1>1, <1>2, PTL DEF Spec, StagedWorkIsKept
=============================================================================
