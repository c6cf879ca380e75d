-------------------------- MODULE KbLifecycleProofs --------------------------
(***************************************************************************)
(* The safety of one knowledge base for any number of items, writers,      *)
(* readers and coroutines.  Its core: a writer inside the boundary keeps   *)
(* the status active, and what a coroutine has yet to delete is all of the *)
(* plan that is still in storage.                                          *)
(***************************************************************************)
EXTENDS KbRefinement, TLAPS

USE FiniteAssumption, NoneAssumption, KindAssumption, BoundAssumption

(***************************************************************************)
(* The invariant                                                           *)
(***************************************************************************)

\* The parts of TypeOK.
RowTypes ==
    /\ status \in Statuses /\ epoch \in Epochs
    /\ rows \in SUBSET Item /\ keys \in SUBSET rows /\ held \in SUBSET rows
    /\ run \in [Writer -> RunStatuses]
    /\ stored \in SUBSET Item /\ known \in SUBSET Item
FlagTypes == aged \in BOOLEAN /\ shared \in BOOLEAN
OpRecords == [status : OpStatuses, error : Errors, force : BOOLEAN, plan : Plans,
              todo : SUBSET Item]
EventRecords == [status : {"none", "pending", "processing", "published",
                           "dead_letter"},
                 owner : Handler \cup {None}, attempts : 0..MaxAttempts]
OpTypes == op \in OpRecords
EventTypes ==
    /\ event \in EventRecords
    /\ retries \in 0..MaxRetries
ProcessTypes ==
    /\ writer \in [Writer -> WriterStates]
    /\ reader \in [Reader -> ReaderStates]
    /\ handler \in [Handler -> HandlerStates]

\* A writer at work has an item of its own; one that holds the row of the
\* knowledge base keeps it active under the epoch it was asked in.
WritersInv ==
    \A w \in Writer :
        /\ writer[w].at = "idle" => writer[w].item = None
        /\ writer[w].at # "idle" =>
             /\ writer[w].item \in Item \ (rows \cup known)
             /\ \A v \in Writer \ {w} : writer[v].item # writer[w].item
        /\ writer[w].at \in {"locked", "stored"} =>
             status = "active" /\ writer[w].epoch = epoch
        /\ writer[w].at = "stored" => writer[w].item \in stored

\* The rows name the objects they always have, until the purge.
ContentInv ==
    /\ status \notin {"purged", "deleted"} => keys = known
    /\ PurgedIsEmpty
    /\ RestorableIsIntact
    /\ DeletedWasUnused
    /\ ArchivedIsNotShared

\* There is one purge, and its plan names the objects of the rows.
PlanInv ==
    /\ status \in {"archived", "purge_pending"} => epoch < MaxEpoch
    /\ op.status # "none" <=> status \in {"purge_pending", "purged"}
    /\ op.status = "none" => /\ event.status = "none"
                             /\ \A h \in Handler : handler[h].at = "idle"
    /\ op.plan.keys \subseteq known
    /\ status = "purge_pending" => op.plan.keys = known
    /\ op.todo \subseteq op.plan.keys

\* A completed operation has no event that could be claimed.
EventInv ==
    /\ op.status = "completed" => event.status = "published"
    /\ event.status = "pending" => event.attempts < MaxAttempts
    /\ CompletedIsPurged

\* Of the plan, a coroutine has yet to delete all that is in storage.
HandlersInv ==
    /\ LedgerIsTrue
    /\ \A h \in Handler :
        /\ handler[h].at \in {"locked", "open"} =>
             /\ handler[h].todo \subseteq op.plan.keys
             /\ \A i \in op.plan.keys \ handler[h].todo : i \notin stored
        /\ handler[h].removed # None =>
             /\ handler[h].at \in {"locked", "open"}
             /\ handler[h].removed \in op.plan.keys \ stored

\* What a reader has seen lies between its lease and now.
ReadersInv ==
    \A r \in Reader : reader[r].at = "reading" =>
        /\ reader[r].epoch <= epoch
        /\ \A e \in reader[r].seen : reader[r].epoch <= e /\ e <= epoch

Inv ==
    /\ TypeOK /\ WritersInv /\ ContentInv /\ PlanInv /\ EventInv /\ HandlersInv
    /\ ReadersInv

LEMMA InitInv == Init => Inv
<1> SUFFICES ASSUME Init PROVE Inv
  OBVIOUS
<1> USE DEF Init, IdleWriter, IdleReader, NoHandler, NoOperation, NoPlan
<1>1. TypeOK
  <2>1. op \in [status : OpStatuses, error : Errors, force : BOOLEAN,
                plan : Plans, todo : SUBSET Item]
    <3>1. op.plan \in Plans
      BY SMT DEF Plans, Statuses, Epochs
    <3> QED
      BY <3>1 DEF OpStatuses, Errors
  <2>2. /\ event \in [status : {"none", "pending", "processing", "published",
                              "dead_letter"},
                     owner : Handler \cup {None}, attempts : 0..MaxAttempts]
        /\ retries \in 0..MaxRetries
    BY SMT
  <2>3. /\ writer \in [Writer -> WriterStates]
        /\ reader \in [Reader -> ReaderStates]
        /\ handler \in [Handler -> HandlerStates]
    BY SMT DEF WriterStates, ReaderStates, HandlerStates, Epochs, WriterKinds
  <2>4. /\ status \in Statuses /\ epoch \in Epochs /\ aged \in BOOLEAN
        /\ shared \in BOOLEAN
        /\ rows \in SUBSET Item /\ keys \in SUBSET rows /\ held \in SUBSET rows
        /\ run \in [Writer -> RunStatuses]
        /\ stored \in SUBSET Item /\ known \in SUBSET Item
    <3>1. epoch \in Epochs
      BY SMT DEF Epochs
    <3> QED
      BY <3>1, Zenon DEF Statuses, RunStatuses
  <2> QED
    BY <2>1, <2>2, <2>3, <2>4 DEF TypeOK
<1>2. WritersInv
  BY DEF WritersInv
<1>3. ContentInv
  BY DEF ContentInv, PurgedIsEmpty, RestorableIsIntact, DeletedWasUnused,
         ArchivedIsNotShared
<1>4. PlanInv /\ EventInv /\ HandlersInv /\ ReadersInv
  BY DEF PlanInv, EventInv, HandlersInv, ReadersInv, CompletedIsPurged, LedgerIsTrue
<1> QED
  BY <1>1, <1>2, <1>3, <1>4 DEF Inv


-----------------------------------------------------------------------------
(***************************************************************************)
(* Types                                                                   *)
(***************************************************************************)

LEMMA TypeParts == TypeOK <=> RowTypes /\ FlagTypes /\ OpTypes /\ EventTypes /\ ProcessTypes
BY DEF TypeOK, RowTypes, FlagTypes, OpTypes, EventTypes, ProcessTypes, OpRecords,
       EventRecords

-----------------------------------------------------------------------------
(***************************************************************************)
(* What the operators that steps are made of do                            *)
(***************************************************************************)

WriterPlaces == {"idle", "working", "checked", "locked", "stored"}

\* A writer moves on: nothing else of it changes, and no other writer.
LEMMA WriterMoves ==
    ASSUME ProcessTypes, NEW w \in Writer, NEW at \in WriterPlaces, WriterAt(w, at)
    PROVE  /\ writer' \in [Writer -> WriterStates]
           /\ writer'[w].at = at /\ writer'[w].item = writer[w].item
           /\ writer'[w].epoch = writer[w].epoch
           /\ \A v \in Writer \ {w} : writer'[v] = writer[v]
<1> DEFINE s == [writer[w] EXCEPT !.at = at]
<1>1. writer[w] \in WriterStates
  BY DEF ProcessTypes
<1>2. s \in WriterStates /\ s.at = at /\ s.item = writer[w].item /\ s.epoch = writer[w].epoch
  BY <1>1 DEF WriterStates, WriterPlaces
<1>3. writer' = [writer EXCEPT ![w] = s]
  BY DEF WriterAt, SetWriter
<1> HIDE DEF s
<1> QED
  BY <1>2, <1>3 DEF ProcessTypes

LEMMA WriterEndings ==
    ASSUME ProcessTypes, NEW w \in Writer, WriterEnds(w)
    PROVE  /\ writer' \in [Writer -> WriterStates]
           /\ writer'[w].at = "idle" /\ writer'[w].item = None
           /\ \A v \in Writer \ {w} : writer'[v] = writer[v]
<1>1. IdleWriter \in WriterStates /\ IdleWriter.at = "idle" /\ IdleWriter.item = None
  BY DEF IdleWriter, WriterStates, Epochs
<1>2. writer' = [writer EXCEPT ![w] = IdleWriter]
  BY DEF WriterEnds, SetWriter
<1> QED
  BY <1>1, <1>2 DEF ProcessTypes

LEMMA HandlerSteps ==
    ASSUME ProcessTypes, NEW h \in Handler, NEW s \in HandlerStates, SetHandler(h, s)
    PROVE  /\ handler' \in [Handler -> HandlerStates]
           /\ handler'[h] = s
           /\ \A g \in Handler \ {h} : handler'[g] = handler[g]
BY DEF ProcessTypes, SetHandler

LEMMA HandlerEndings ==
    ASSUME ProcessTypes, NEW h \in Handler, HandlerEnds(h)
    PROVE  /\ handler' \in [Handler -> HandlerStates]
           /\ handler'[h].at = "idle" /\ handler'[h].removed = None
           /\ \A g \in Handler \ {h} : handler'[g] = handler[g]
<1>1. NoHandler \in HandlerStates /\ NoHandler.at = "idle" /\ NoHandler.removed = None
  BY DEF NoHandler, HandlerStates
<1> QED
  BY <1>1, HandlerSteps DEF HandlerEnds

\* The operation is given another status and error, and keeps plan and ledger.
LEMMA OpReports ==
    ASSUME OpTypes, NEW s \in OpStatuses, NEW e \in Errors
    PROVE  LET o == [op EXCEPT !.status = s, !.error = e] IN
           /\ o \in OpRecords /\ o.status = s /\ o.plan = op.plan /\ o.todo = op.todo
BY DEF OpTypes, OpRecords

LEMMA Failures ==
    ASSUME OpTypes, NEW e \in Errors
    PROVE  /\ Failed(e) \in OpRecords /\ Failed(e).status = "failed"
           /\ Failed(e).plan = op.plan /\ Failed(e).todo = op.todo
BY OpReports DEF Failed, OpStatuses

\* The end of a handler: its outcome counts only with the claim.
LEMMA Publications ==
    ASSUME EventTypes, ProcessTypes, OpTypes, NEW h \in Handler,
           NEW o \in OpRecords, Publish(h, o)
    PROVE  /\ Owns(h) => op' = o
           /\ Owns(h) => event'.status = "published"
           /\ ~Owns(h) => op' = op
           /\ ~Owns(h) => event' = event
           /\ op' \in OpRecords
           /\ event' \in EventRecords
           /\ handler' \in [Handler -> HandlerStates]
           /\ handler'[h].at = "idle" /\ handler'[h].removed = None
           /\ \A g \in Handler \ {h} : handler'[g] = handler[g]
<1> DEFINE e == [event EXCEPT !.status = "published", !.owner = None]
<1>1. e \in EventRecords /\ e.status = "published"
  BY DEF EventTypes, EventRecords
<1>2. HandlerEnds(h)
  BY DEF Publish
<1>3. /\ Owns(h) => op' = o /\ event' = e
      /\ ~Owns(h) => op' = op /\ event' = event
  BY DEF Publish
<1> HIDE DEF e
<1> QED
  BY <1>1, <1>2, <1>3, HandlerEndings DEF OpTypes, EventTypes

\* The end of an attempt that failed.
LEMMA Releases ==
    ASSUME EventTypes, OpTypes, ReleaseFailed
    PROVE  /\ op' \in OpRecords /\ op'.plan = op.plan /\ op'.todo = op.todo
           /\ op.status = "completed" => op' = op
           /\ op.status # "completed" => op'.status = event'.status
           /\ op.status # "completed" => op'.status \in {"pending", "dead_letter"}
           /\ event' \in EventRecords
           /\ event'.status \in {"pending", "dead_letter"}
           /\ event'.status = "pending" => event'.attempts < MaxAttempts
<1> DEFINE s == IF Exhausted THEN "dead_letter" ELSE "pending"
           x == IF Exhausted THEN "purge_dispatch_dead_letter"
                ELSE "purge_dispatch_retry_scheduled"
           e == [event EXCEPT !.status = s, !.owner = None]
           o == [op EXCEPT !.status = s, !.error = x]
<1>1. s \in {"pending", "dead_letter"} /\ x \in Errors /\ (s = "pending" => ~Exhausted)
  BY DEF Errors
<1>2. ReleaseFailed <=> event' = e /\ op' = IF op.status = "completed" THEN op ELSE o
  BY DEF ReleaseFailed
<1> HIDE DEF s, x
<1>3. o \in OpRecords /\ o.status = s /\ o.plan = op.plan /\ o.todo = op.todo
  <2>1. s \in OpStatuses
    BY <1>1 DEF OpStatuses
  <2> QED
    BY <1>1, <2>1, OpReports
<1>4. e \in EventRecords /\ e.status = s /\ e.attempts = event.attempts
  BY <1>1 DEF EventTypes, EventRecords
<1>5. s = "pending" => event.attempts < MaxAttempts
  BY <1>1 DEF Exhausted, EventTypes, EventRecords
<1> HIDE DEF e, o
<1> QED
  BY <1>1, <1>2, <1>3, <1>4, <1>5 DEF OpTypes

\* A coroutine that ends its work reports success or failure.
LEMMA Outcomes ==
    ASSUME OpTypes, EventTypes, ProcessTypes, NEW h \in Handler,
           Refuse(h) \/ ObjectFails(h) \/ CleanUp(h) \/ CleanUpFails(h)
    PROVE  /\ Owns(h) => /\ op'.status \in {"failed", "completed"}
                         /\ op'.status = "completed" =>
                              op.status = "completed" \/ status' = "purged"
                         /\ CleanUp(h) => op'.status = "completed"
                         /\ event'.status = "published"
           /\ ~Owns(h) => op' = op /\ event' = event
           /\ op' \in OpRecords /\ op'.plan = op.plan /\ op'.todo = op.todo
           /\ event' \in EventRecords /\ handler' \in [Handler -> HandlerStates]
           /\ handler'[h].at = "idle" /\ handler'[h].removed = None
           /\ \A g \in Handler \ {h} : handler'[g] = handler[g]
<1>1. CASE CleanUp(h)
  <2>1. "completed" \in OpStatuses /\ "none" \in Errors
    BY DEF OpStatuses, Errors
  <2> DEFINE o == [op EXCEPT !.status = "completed", !.error = "none"]
  <2>2. o \in OpRecords /\ o.status = "completed" /\ o.plan = op.plan /\ o.todo = op.todo
    BY <2>1, OpReports
  <2>3. Publish(h, o)
    BY <1>1 DEF CleanUp
  <2>4. Owns(h) => status' = "purged"
    BY <1>1 DEF CleanUp
  <2> HIDE DEF o
  <2> QED
    BY <1>1, <2>2, <2>3, <2>4, Publications
<1>2. CASE ~CleanUp(h)
  <2>1. PICK o \in OpRecords : /\ Publish(h, o)
                               /\ o.plan = op.plan /\ o.todo = op.todo
                               /\ \/ o.status = "failed"
                                  \/ o.status = "completed" /\ op.status = "completed"
    <3>1. Errors = Errors \cup {"purge_plan_drift", "object_delete_failed",
                     "object_identity_changed", "metadata_cleanup_failed"}
      BY DEF Errors
    <3>2. CASE Refuse(h)
      BY <3>1, <3>2, Failures DEF Refuse, OpTypes
    <3>3. CASE ObjectFails(h)
      BY <3>1, <3>3, Failures DEF ObjectFails
    <3>4. CASE CleanUpFails(h)
      BY <3>1, <3>4, Failures DEF CleanUpFails
    <3> QED
      BY <1>2, <3>2, <3>3, <3>4
  <2> QED
    BY <1>2, <2>1, Publications
<1> QED
  BY <1>1, <1>2

\* The commit after an object.
LEMMA Ledgers ==
    ASSUME OpTypes, ProcessTypes, NEW h \in Handler, CommitObject(h)
    PROVE  /\ handler' \in [Handler -> HandlerStates]
           /\ handler'[h].removed = None
           /\ \A g \in Handler \ {h} : handler'[g] = handler[g]
           /\ event' = event
           /\ op' \in OpRecords /\ op'.plan = op.plan
           /\ event.status = "processing" =>
                /\ handler'[h].at = "open"
                /\ handler'[h].todo = handler[h].todo \ {handler[h].removed}
                /\ op'.todo = op.todo \ {handler[h].removed}
                /\ op'.status \in {op.status, "processing"}
           /\ event.status # "processing" =>
                op' = op /\ handler'[h].at = "raised"
<1> DEFINE t == op.todo \ {handler[h].removed}
           s == IF handler[h].at = "locked" THEN "processing" ELSE op.status
           e == IF handler[h].at = "locked" THEN "none" ELSE op.error
           o == [op EXCEPT !.todo = t, !.status = s, !.error = e]
           n == [at |-> "open", todo |-> handler[h].todo \ {handler[h].removed},
                 removed |-> None]
           r == [NoHandler EXCEPT !.at = "raised"]
<1>1. t \in SUBSET Item /\ s \in OpStatuses /\ e \in Errors /\ s \in {op.status, "processing"}
  BY DEF OpTypes, OpRecords, OpStatuses, Errors
<1>2. n \in HandlerStates /\ n.at = "open" /\ n.removed = None
      /\ n.todo = handler[h].todo \ {handler[h].removed}
  BY DEF ProcessTypes, HandlerStates
<1>3. r \in HandlerStates /\ r.at = "raised" /\ r.removed = None
  BY DEF NoHandler, HandlerStates
<1>4. /\ event.status = "processing" => op' = o /\ SetHandler(h, n)
      /\ event.status # "processing" => op' = op /\ SetHandler(h, r)
      /\ event' = event
  BY DEF CommitObject
<1> HIDE DEF t, s, e, n, r
<1>5. o \in OpRecords /\ o.plan = op.plan /\ o.todo = t /\ o.status = s
  BY <1>1 DEF OpTypes, OpRecords
<1> HIDE DEF o
<1>6. CASE event.status = "processing"
  BY <1>1, <1>2, <1>4, <1>5, <1>6, HandlerSteps DEF t
<1>7. CASE event.status # "processing"
  BY <1>3, <1>4, <1>7, HandlerSteps DEF OpTypes
<1> QED
  BY <1>6, <1>7

\* The other steps of a coroutine that is not at its end.
LEMMA Progress ==
    ASSUME ProcessTypes, OpTypes, NEW h \in Handler
    PROVE  /\ Claim(h) => /\ handler'[h].at = "claimed" /\ handler'[h].removed = None
                          /\ handler' \in [Handler -> HandlerStates]
           /\ Raise(h) => /\ handler'[h].at = "raised" /\ handler'[h].removed = None
                          /\ handler' \in [Handler -> HandlerStates]
           /\ Accept(h) => /\ handler'[h].at = "locked" /\ handler'[h].removed = None
                           /\ handler'[h].todo = op.todo
                           /\ handler' \in [Handler -> HandlerStates]
           /\ Claim(h) \/ Raise(h) \/ Accept(h) =>
                \A g \in Handler \ {h} : handler'[g] = handler[g]
<1> DEFINE c == [NoHandler EXCEPT !.at = "claimed"]
           r == [NoHandler EXCEPT !.at = "raised"]
           a == [at |-> "locked", todo |-> op.todo, removed |-> None]
<1>1. /\ c \in HandlerStates /\ c.at = "claimed" /\ c.removed = None
      /\ r \in HandlerStates /\ r.at = "raised" /\ r.removed = None
      /\ a \in HandlerStates /\ a.at = "locked" /\ a.removed = None /\ a.todo = op.todo
  BY DEF NoHandler, HandlerStates, OpTypes, OpRecords
<1>2. /\ Claim(h) => SetHandler(h, c)
      /\ Raise(h) => SetHandler(h, r)
      /\ Accept(h) => SetHandler(h, a)
  BY DEF Claim, Raise, Accept
<1> HIDE DEF c, r, a
<1> QED
  BY <1>1, <1>2, HandlerSteps

LEMMA Removals ==
    ASSUME ProcessTypes, RowTypes, NEW h \in Handler, RemoveObject(h)
    PROVE  \E i \in handler[h].todo :
             /\ i \in Item
             /\ stored' = stored \ {i}
             /\ handler' \in [Handler -> HandlerStates]
             /\ handler'[h].at = handler[h].at /\ handler'[h].todo = handler[h].todo
             /\ handler'[h].removed = i
             /\ \A g \in Handler \ {h} : handler'[g] = handler[g]
<1>1. PICK i \in handler[h].todo :
         stored' = stored \ {i} /\ SetHandler(h, [handler[h] EXCEPT !.removed = i])
  BY DEF RemoveObject
<1> DEFINE s == [handler[h] EXCEPT !.removed = i]
<1>2. handler[h] \in HandlerStates
  BY DEF ProcessTypes
<1>3. /\ s \in HandlerStates /\ s.removed = i /\ s.at = handler[h].at
      /\ s.todo = handler[h].todo /\ i \in Item
  BY <1>2 DEF HandlerStates
<1>4. SetHandler(h, s) /\ stored' = stored \ {i}
  BY <1>1
<1> HIDE DEF s
<1> QED
  BY <1>3, <1>4, HandlerSteps

-----------------------------------------------------------------------------
(***************************************************************************)
(* Every step keeps the invariant                                          *)
(***************************************************************************)

LEMMA RowTypesStep ==
    ASSUME Inv, [Next]_vars
    PROVE  RowTypes'
<1>1. RowTypes /\ ProcessTypes /\ WritersInv /\ PlanInv /\ EventInv
  BY TypeParts DEF Inv
<1> USE DEF RowTypes, ProcessTypes, WriterStates, HandlerStates, Statuses, RunStatuses, Epochs
<1>2. ASSUME NEW w \in Writer, Enqueue(w)
      PROVE  RowTypes'
  BY <1>2, <1>1 DEF Enqueue, MayShare, SetWriter, Fresh, kbVars, contentVars, purgeVars
<1>3. ASSUME NEW w \in Writer, CheckStage(w)
      PROVE  RowTypes'
  BY <1>3, <1>1 DEF CheckStage, InBoundary, WriterAt, SetWriter, WriterEnds, GiveUp,
           kbVars, contentVars, purgeVars
<1>4. ASSUME NEW w \in Writer, ClaimStage(w)
      PROVE  RowTypes'
  BY <1>4, <1>1 DEF ClaimStage, WriterAt, SetWriter, WriterEnds, kbVars, contentVars,
           purgeVars
<1>5. ASSUME NEW w \in Writer, LockBoundary(w)
      PROVE  RowTypes'
  BY <1>5, <1>1 DEF LockBoundary, MayShare, InBoundary, WriterAt, SetWriter, WriterEnds,
           GiveUp, kbVars, contentVars, purgeVars
<1>6. ASSUME NEW w \in Writer, EndRun(w)
      PROVE  RowTypes'
  BY <1>6, <1>1 DEF EndRun, kbVars, contentVars, purgeVars
<1>7. ASSUME Archive
      PROVE  RowTypes'
  BY <1>7, <1>1 DEF Archive, MayUpdate, kbVars, contentVars, purgeVars
<1>8. ASSUME Restore
      PROVE  RowTypes'
  BY <1>8, <1>1 DEF Restore, MayUpdate, kbVars, contentVars, purgeVars
<1>9. ASSUME Age
      PROVE  RowTypes'
  BY <1>9, <1>1 DEF Age, kbVars, contentVars, purgeVars
<1>10. ASSUME AdvanceEpoch
      PROVE  RowTypes'
  BY <1>10, <1>1 DEF AdvanceEpoch, MayUpdate, kbVars, contentVars, purgeVars
<1>11. ASSUME HardDelete
      PROVE  RowTypes'
  BY <1>11, <1>1 DEF HardDelete, MayUpdate, kbVars, contentVars, purgeVars
<1>12. ASSUME NEW force \in BOOLEAN, SubmitPurge(force)
      PROVE  RowTypes'
  BY <1>12, <1>1 DEF SubmitPurge, MayUpdate, kbVars, contentVars, purgeVars
<1>13. ASSUME NEW i \in Item, ChangeHold(i)
      PROVE  RowTypes'
  BY <1>13, <1>1 DEF ChangeHold, kbVars, contentVars, purgeVars
<1>14. ASSUME NEW h \in Handler, RemoveObject(h)
      PROVE  RowTypes'
  BY <1>14, <1>1 DEF RemoveObject, SetHandler, Deleting, kbVars, contentVars, purgeVars
<1>15. ASSUME NEW w \in Writer, PutObject(w)
      PROVE  RowTypes'
  <2>1. writer[w].item \in Item
    BY <1>1, <1>15 DEF WritersInv, PutObject, WriterAt, SetWriter, kbVars, contentVars,
         purgeVars
  <2> QED
    BY <1>1, <1>15, <2>1 DEF PutObject, WriterAt, SetWriter, kbVars, contentVars, purgeVars
<1>16. ASSUME NEW w \in Writer, CommitItem(w)
      PROVE  RowTypes'
  <2>1. writer[w].item \in Item
    BY <1>1, <1>16 DEF WritersInv, CommitItem, WriterEnds, SetWriter, kbVars,
         contentVars, purgeVars
  <2> QED
    BY <1>1, <1>16, <2>1 DEF CommitItem, WriterEnds, SetWriter, kbVars, contentVars,
         purgeVars
<1>17. ASSUME NEW w \in Writer, CommitRow(w)
      PROVE  RowTypes'
  <2>1. writer[w].item \in Item
    BY <1>1, <1>17 DEF WritersInv, CommitRow, WriterEnds, SetWriter, kbVars,
         contentVars, purgeVars
  <2> QED
    BY <1>1, <1>17, <2>1 DEF CommitRow, WriterEnds, SetWriter, kbVars, contentVars,
         purgeVars
<1>18. ASSUME NEW h \in Handler, CleanUp(h)
      PROVE  RowTypes'
  <2>1. Owns(h) => status = "purge_pending"
    BY <1>1, <1>18 DEF Owns, CleanUp, PlanInv, EventInv, Deleting, CompletedIsPurged
  <2>2. epoch' \in Epochs
    BY <1>1, <1>18, <2>1 DEF CleanUp, PlanInv
  <2> QED
    BY <1>1, <1>18, <2>2 DEF CleanUp
<1>19. ASSUME NEW w \in Writer, BeginRequest(w) \/ CaptureLease(w) \/ WriterDies(w)
      PROVE  RowTypes'
  <2>1. UNCHANGED <<status, epoch, rows, keys, held, run, stored, known>>
    BY <1>19 DEF BeginRequest, MayShare, SetWriter, Fresh, kbVars, contentVars,
             purgeVars, CaptureLease, WriterDies, WriterEnds
  <2> QED
    BY <1>1, <2>1
<1>20. ASSUME NEW r \in Reader, BeginAnswer(r) \/ ReadHits(r) \/ GiveAnswer(r)
      PROVE  RowTypes'
  <2>1. UNCHANGED <<status, epoch, rows, keys, held, run, stored, known>>
    BY <1>20 DEF BeginAnswer, kbVars, contentVars, purgeVars, ReadHits, GiveAnswer,
             InBoundary
  <2> QED
    BY <1>1, <2>1
<1>21. ASSUME NEW h \in Handler, Claim(h) \/ Refuse(h) \/ Accept(h) \/ ObjectFails(h) \/
         CommitObject(h) \/ CleanUpFails(h) \/ Raise(h) \/ MarkFailed(h) \/
         HandlerDies(h)
      PROVE  RowTypes'
  <2>1. UNCHANGED <<status, epoch, rows, keys, held, run, stored, known>>
    BY <1>21 DEF Claim, SetHandler, kbVars, contentVars, purgeVars, Refuse, Publish,
             HandlerEnds, Failed, Accept, ObjectFails, Deleting, CommitObject,
             CleanUpFails, Raise, MarkFailed, ReleaseFailed, HandlerDies
  <2> QED
    BY <1>1, <2>1
<1>22. CASE \/ Retry
             \/ Recover
             \/ UNCHANGED vars
  <2>1. UNCHANGED <<status, epoch, rows, keys, held, run, stored, known>>
    BY <1>22 DEF Retry, kbVars, contentVars, purgeVars, Recover, ReleaseFailed, vars
  <2> QED
    BY <1>1, <2>1
<1> HIDE DEF RowTypes, ProcessTypes, WriterStates, HandlerStates, Statuses, RunStatuses, Epochs
<1> QED
  BY <1>2, <1>3, <1>4, <1>5, <1>6, <1>7, <1>8, <1>9, <1>10, <1>11, <1>12, <1>13, <1>14,
           <1>15, <1>16, <1>17, <1>18, <1>19, <1>20, <1>21, <1>22
     DEF Next, Write, Answer, Administer, Work, Fail

LEMMA FlagTypesStep ==
    ASSUME Inv, [Next]_vars
    PROVE  FlagTypes'
<1>1. FlagTypes
  BY TypeParts DEF Inv
<1> USE DEF FlagTypes
<1>2. ASSUME NEW w \in Writer, CommitRow(w)
      PROVE  FlagTypes'
  BY <1>2, <1>1, Zenon DEF CommitRow, WriterEnds, SetWriter, kbVars, contentVars,
           purgeVars
<1>3. ASSUME Archive
      PROVE  FlagTypes'
  BY <1>3, <1>1, Zenon DEF Archive, MayUpdate, kbVars, contentVars, purgeVars
<1>4. ASSUME Restore
      PROVE  FlagTypes'
  BY <1>4, <1>1, Zenon DEF Restore, MayUpdate, kbVars, contentVars, purgeVars
<1>5. ASSUME Age
      PROVE  FlagTypes'
  BY <1>5, <1>1, Zenon DEF Age, kbVars, contentVars, purgeVars
<1>6. ASSUME NEW h \in Handler, CleanUp(h)
      PROVE  FlagTypes'
  BY <1>6, <1>1, Zenon DEF CleanUp, Publish, SetHandler, HandlerEnds, Deleting, kbVars,
           contentVars, purgeVars
<1>7. ASSUME NEW w \in Writer, BeginRequest(w) \/ Enqueue(w) \/ CaptureLease(w) \/
         CheckStage(w) \/ ClaimStage(w) \/ LockBoundary(w) \/ PutObject(w) \/
         CommitItem(w) \/ WriterDies(w) \/ EndRun(w)
      PROVE  FlagTypes'
  <2>1. UNCHANGED <<aged, shared>>
    BY <1>7 DEF BeginRequest, MayShare, SetWriter, Fresh, kbVars, contentVars,
             purgeVars, Enqueue, CaptureLease, CheckStage, InBoundary, WriterAt,
             WriterEnds, GiveUp, ClaimStage, LockBoundary, PutObject, CommitItem,
             WriterDies, EndRun
  <2> QED
    BY <1>1, <2>1
<1>8. ASSUME NEW r \in Reader, BeginAnswer(r) \/ ReadHits(r) \/ GiveAnswer(r)
      PROVE  FlagTypes'
  <2>1. UNCHANGED <<aged, shared>>
    BY <1>8 DEF BeginAnswer, kbVars, contentVars, purgeVars, ReadHits, GiveAnswer,
             InBoundary
  <2> QED
    BY <1>1, <2>1
<1>9. ASSUME NEW h \in Handler, Claim(h) \/ Refuse(h) \/ Accept(h) \/ RemoveObject(h) \/
         ObjectFails(h) \/ CommitObject(h) \/ CleanUpFails(h) \/ Raise(h) \/
         MarkFailed(h) \/ HandlerDies(h)
      PROVE  FlagTypes'
  <2>1. UNCHANGED <<aged, shared>>
    BY <1>9 DEF Claim, SetHandler, kbVars, contentVars, purgeVars, Refuse, Publish,
             HandlerEnds, Failed, Accept, RemoveObject, Deleting, ObjectFails,
             CommitObject, CleanUpFails, Raise, MarkFailed, ReleaseFailed, HandlerDies
  <2> QED
    BY <1>1, <2>1
<1>10. ASSUME NEW force \in BOOLEAN, SubmitPurge(force)
      PROVE  FlagTypes'
  <2>1. UNCHANGED <<aged, shared>>
    BY <1>10 DEF SubmitPurge, MayUpdate, kbVars, contentVars, purgeVars
  <2> QED
    BY <1>1, <2>1
<1>11. ASSUME NEW i \in Item, ChangeHold(i)
      PROVE  FlagTypes'
  <2>1. UNCHANGED <<aged, shared>>
    BY <1>11 DEF ChangeHold, kbVars, contentVars, purgeVars
  <2> QED
    BY <1>1, <2>1
<1>12. CASE \/ HardDelete
             \/ Retry
             \/ AdvanceEpoch
             \/ Recover
             \/ UNCHANGED vars
  <2>1. UNCHANGED <<aged, shared>>
    BY <1>12 DEF HardDelete, MayUpdate, kbVars, contentVars, purgeVars, Retry,
             AdvanceEpoch, Recover, ReleaseFailed, vars
  <2> QED
    BY <1>1, <2>1
<1> HIDE DEF FlagTypes
<1> QED
  BY <1>2, <1>3, <1>4, <1>5, <1>6, <1>7, <1>8, <1>9, <1>10, <1>11, <1>12
     DEF Next, Write, Answer, Administer, Work, Fail

LEMMA OpTypesStep ==
    ASSUME Inv, [Next]_vars
    PROVE  OpTypes'
<1>1. OpTypes /\ EventTypes /\ RowTypes /\ ProcessTypes
  BY TypeParts DEF Inv
<1> USE DEF OpTypes
<1>2. ASSUME NEW h \in Handler, Refuse(h)
      PROVE  OpTypes'
  BY <1>2, <1>1, Outcomes DEF Refuse, Publish, SetHandler, HandlerEnds, Failed, kbVars,
           contentVars, purgeVars
<1>3. ASSUME NEW h \in Handler, ObjectFails(h)
      PROVE  OpTypes'
  BY <1>3, <1>1, Outcomes DEF ObjectFails, Publish, SetHandler, HandlerEnds, Failed,
           Deleting, kbVars, contentVars, purgeVars
<1>4. ASSUME NEW h \in Handler, CleanUp(h)
      PROVE  OpTypes'
  BY <1>4, <1>1, Outcomes DEF CleanUp, Publish, SetHandler, HandlerEnds, Deleting,
           kbVars, contentVars, purgeVars
<1>5. ASSUME NEW h \in Handler, CleanUpFails(h)
      PROVE  OpTypes'
  BY <1>5, <1>1, Outcomes DEF CleanUpFails, Publish, SetHandler, HandlerEnds, Failed,
           Deleting, kbVars, contentVars, purgeVars
<1>6. ASSUME NEW h \in Handler, CommitObject(h)
      PROVE  OpTypes'
  BY <1>6, <1>1, Ledgers DEF CommitObject, SetHandler, kbVars, contentVars, purgeVars
<1>7. ASSUME NEW h \in Handler, MarkFailed(h)
      PROVE  OpTypes'
  <2>1. CASE ReleaseFailed
    BY <1>1, <2>1, Releases
  <2>2. CASE UNCHANGED <<op, event>>
    BY <1>1, <2>2
  <2> QED
    BY <1>7, <2>1, <2>2 DEF MarkFailed, Recover
<1>8. ASSUME Recover
      PROVE  OpTypes'
  <2>1. CASE ReleaseFailed
    BY <1>1, <2>1, Releases
  <2>2. CASE UNCHANGED <<op, event>>
    BY <1>1, <2>2
  <2> QED
    BY <1>8, <2>1, <2>2 DEF MarkFailed, Recover
<1>9. ASSUME Retry
      PROVE  OpTypes'
  <2>1. op' \in OpRecords /\ op'.plan = op.plan /\ op'.todo = op.todo /\ op'.status = "pending"
    BY <1>1, <1>9, OpReports DEF Retry, OpStatuses, Errors
  <2> QED
    BY <1>1, <1>9, <2>1
<1>10. ASSUME NEW force \in BOOLEAN, SubmitPurge(force)
      PROVE  OpTypes'
  <2>1. Executed(Payload) \in Plans
    <3>1. Runs \in SUBSET Writer /\ Jobs \in SUBSET Writer /\ Blockers \in SUBSET Codes
      BY DEF Runs, Jobs, Blockers
    <3>2. FlagTypes
      BY TypeParts DEF Inv
    <3>3. Payload.shared \in BOOLEAN
      BY <3>2, Zenon DEF FlagTypes, Payload
    <3> QED
      BY <1>1, <3>1, <3>3 DEF Executed, Payload, Plans, RowTypes, Statuses
  <2> QED
    BY <1>1, <1>10, <2>1 DEF SubmitPurge, RowTypes, OpRecords, OpStatuses, Errors
<1>11. ASSUME NEW w \in Writer, BeginRequest(w) \/ Enqueue(w) \/ CaptureLease(w) \/
         CheckStage(w) \/ ClaimStage(w) \/ LockBoundary(w) \/ PutObject(w) \/
         CommitItem(w) \/ CommitRow(w) \/ WriterDies(w) \/ EndRun(w)
      PROVE  OpTypes'
  <2>1. UNCHANGED <<op>>
    BY <1>11 DEF BeginRequest, MayShare, SetWriter, Fresh, kbVars, contentVars,
             purgeVars, Enqueue, CaptureLease, CheckStage, InBoundary, WriterAt,
             WriterEnds, GiveUp, ClaimStage, LockBoundary, PutObject, CommitItem,
             CommitRow, WriterDies, EndRun
  <2> QED
    BY <1>1, <2>1
<1>12. ASSUME NEW r \in Reader, BeginAnswer(r) \/ ReadHits(r) \/ GiveAnswer(r)
      PROVE  OpTypes'
  <2>1. UNCHANGED <<op>>
    BY <1>12 DEF BeginAnswer, kbVars, contentVars, purgeVars, ReadHits, GiveAnswer,
             InBoundary
  <2> QED
    BY <1>1, <2>1
<1>13. ASSUME NEW h \in Handler, Claim(h) \/ Accept(h) \/ RemoveObject(h) \/ Raise(h) \/
         HandlerDies(h)
      PROVE  OpTypes'
  <2>1. UNCHANGED <<op>>
    BY <1>13 DEF Claim, SetHandler, kbVars, contentVars, purgeVars, Accept,
             RemoveObject, Deleting, Raise, HandlerDies, HandlerEnds
  <2> QED
    BY <1>1, <2>1
<1>14. ASSUME NEW i \in Item, ChangeHold(i)
      PROVE  OpTypes'
  <2>1. UNCHANGED <<op>>
    BY <1>14 DEF ChangeHold, kbVars, contentVars, purgeVars
  <2> QED
    BY <1>1, <2>1
<1>15. CASE \/ Archive
             \/ Restore
             \/ HardDelete
             \/ Age
             \/ AdvanceEpoch
             \/ UNCHANGED vars
  <2>1. UNCHANGED <<op>>
    BY <1>15 DEF Archive, MayUpdate, kbVars, contentVars, purgeVars, Restore,
             HardDelete, Age, AdvanceEpoch, vars
  <2> QED
    BY <1>1, <2>1
<1> HIDE DEF OpTypes
<1> QED
  BY <1>2, <1>3, <1>4, <1>5, <1>6, <1>7, <1>8, <1>9, <1>10, <1>11, <1>12, <1>13, <1>14,
           <1>15
     DEF Next, Write, Answer, Administer, Work, Fail

LEMMA EventTypesStep ==
    ASSUME Inv, [Next]_vars
    PROVE  EventTypes'
<1>1. EventTypes /\ EventInv /\ OpTypes /\ ProcessTypes
  BY TypeParts DEF Inv
<1> USE DEF EventTypes
<1>2. ASSUME NEW h \in Handler, Refuse(h)
      PROVE  EventTypes'
  BY <1>2, <1>1, Outcomes DEF Refuse, Publish, SetHandler, HandlerEnds, Failed, kbVars,
           contentVars, purgeVars
<1>3. ASSUME NEW h \in Handler, ObjectFails(h)
      PROVE  EventTypes'
  BY <1>3, <1>1, Outcomes DEF ObjectFails, Publish, SetHandler, HandlerEnds, Failed,
           Deleting, kbVars, contentVars, purgeVars
<1>4. ASSUME NEW h \in Handler, CleanUp(h)
      PROVE  EventTypes'
  BY <1>4, <1>1, Outcomes DEF CleanUp, Publish, SetHandler, HandlerEnds, Deleting,
           kbVars, contentVars, purgeVars
<1>5. ASSUME NEW h \in Handler, CleanUpFails(h)
      PROVE  EventTypes'
  BY <1>5, <1>1, Outcomes DEF CleanUpFails, Publish, SetHandler, HandlerEnds, Failed,
           Deleting, kbVars, contentVars, purgeVars
<1>6. ASSUME NEW h \in Handler, MarkFailed(h)
      PROVE  EventTypes'
  <2>1. event' \in EventRecords /\ retries' = retries
    BY <1>1, <1>6, Releases DEF MarkFailed
  <2> QED
    BY <1>1, <2>1
<1>7. ASSUME Recover
      PROVE  EventTypes'
  <2>1. event' \in EventRecords /\ retries' = retries
    BY <1>1, <1>7, Releases DEF Recover
  <2> QED
    BY <1>1, <2>1
<1>8. ASSUME NEW force \in BOOLEAN, SubmitPurge(force)
      PROVE  EventTypes'
  <2> QED
    BY <1>1, <1>8 DEF EventRecords, EventInv, SubmitPurge, MayUpdate, kbVars,
         contentVars, purgeVars
<1>9. ASSUME NEW h \in Handler, Claim(h)
      PROVE  EventTypes'
  <2> QED
    BY <1>1, <1>9 DEF EventRecords, EventInv, Claim, SetHandler, kbVars, contentVars,
         purgeVars
<1>10. ASSUME Retry
      PROVE  EventTypes'
  <2> QED
    BY <1>1, <1>10 DEF EventRecords, EventInv, Retry, kbVars, contentVars, purgeVars
<1>11. ASSUME NEW w \in Writer, BeginRequest(w) \/ Enqueue(w) \/ CaptureLease(w) \/
         CheckStage(w) \/ ClaimStage(w) \/ LockBoundary(w) \/ PutObject(w) \/
         CommitItem(w) \/ CommitRow(w) \/ WriterDies(w) \/ EndRun(w)
      PROVE  EventTypes'
  <2>1. UNCHANGED <<event, retries>>
    BY <1>11 DEF BeginRequest, MayShare, SetWriter, Fresh, kbVars, contentVars,
             purgeVars, Enqueue, CaptureLease, CheckStage, InBoundary, WriterAt,
             WriterEnds, GiveUp, ClaimStage, LockBoundary, PutObject, CommitItem,
             CommitRow, WriterDies, EndRun
  <2> QED
    BY <1>1, <2>1
<1>12. ASSUME NEW r \in Reader, BeginAnswer(r) \/ ReadHits(r) \/ GiveAnswer(r)
      PROVE  EventTypes'
  <2>1. UNCHANGED <<event, retries>>
    BY <1>12 DEF BeginAnswer, kbVars, contentVars, purgeVars, ReadHits, GiveAnswer,
             InBoundary
  <2> QED
    BY <1>1, <2>1
<1>13. ASSUME NEW h \in Handler, Accept(h) \/ RemoveObject(h) \/ CommitObject(h) \/
         Raise(h) \/ HandlerDies(h)
      PROVE  EventTypes'
  <2>1. UNCHANGED <<event, retries>>
    BY <1>13 DEF Accept, SetHandler, kbVars, contentVars, purgeVars, RemoveObject,
             Deleting, CommitObject, Raise, HandlerDies, HandlerEnds
  <2> QED
    BY <1>1, <2>1
<1>14. ASSUME NEW i \in Item, ChangeHold(i)
      PROVE  EventTypes'
  <2>1. UNCHANGED <<event, retries>>
    BY <1>14 DEF ChangeHold, kbVars, contentVars, purgeVars
  <2> QED
    BY <1>1, <2>1
<1>15. CASE \/ Archive
             \/ Restore
             \/ HardDelete
             \/ Age
             \/ AdvanceEpoch
             \/ UNCHANGED vars
  <2>1. UNCHANGED <<event, retries>>
    BY <1>15 DEF Archive, MayUpdate, kbVars, contentVars, purgeVars, Restore,
             HardDelete, Age, AdvanceEpoch, vars
  <2> QED
    BY <1>1, <2>1
<1> HIDE DEF EventTypes
<1> QED
  BY <1>2, <1>3, <1>4, <1>5, <1>6, <1>7, <1>8, <1>9, <1>10, <1>11, <1>12, <1>13, <1>14,
           <1>15
     DEF Next, Write, Answer, Administer, Work, Fail

LEMMA ProcessTypesStep ==
    ASSUME Inv, [Next]_vars
    PROVE  ProcessTypes'
<1>1. ProcessTypes /\ RowTypes /\ OpTypes /\ EventTypes
  BY TypeParts DEF Inv
<1> USE DEF ProcessTypes
<1>2. ASSUME NEW w \in Writer, BeginRequest(w)
      PROVE  ProcessTypes'
  <2>1. writer' \in [Writer -> WriterStates]
    BY <1>1, <1>2 DEF ProcessTypes, RowTypes, WriterStates, WriterKinds, BeginRequest,
         MayShare, SetWriter, Fresh, kbVars, contentVars, purgeVars
  <2> QED
    BY <1>1, <1>2, <2>1 DEF ProcessTypes, BeginRequest, MayShare, SetWriter, Fresh,
         kbVars, contentVars, purgeVars
<1>3. ASSUME NEW w \in Writer, Enqueue(w)
      PROVE  ProcessTypes'
  <2>1. writer' \in [Writer -> WriterStates]
    BY <1>1, <1>3 DEF ProcessTypes, RowTypes, WriterStates, WriterKinds, Enqueue,
         MayShare, SetWriter, Fresh, kbVars, contentVars, purgeVars
  <2> QED
    BY <1>1, <1>3, <2>1 DEF ProcessTypes, Enqueue, MayShare, SetWriter, Fresh, kbVars,
         contentVars, purgeVars
<1>4. ASSUME NEW w \in Writer, CaptureLease(w)
      PROVE  ProcessTypes'
  <2>1. writer' \in [Writer -> WriterStates]
    BY <1>1, <1>4 DEF ProcessTypes, RowTypes, WriterStates, WriterKinds, CaptureLease,
         SetWriter, Fresh, kbVars, contentVars, purgeVars
  <2> QED
    BY <1>1, <1>4, <2>1 DEF ProcessTypes, CaptureLease, SetWriter, Fresh, kbVars,
         contentVars, purgeVars
<1>5. ASSUME NEW w \in Writer, CheckStage(w)
      PROVE  ProcessTypes'
  <2>1. writer' \in [Writer -> WriterStates]
    BY <1>1, <1>5, WriterMoves, WriterEndings DEF WriterPlaces, CheckStage, InBoundary,
         GiveUp, kbVars, contentVars, purgeVars
  <2> QED
    BY <1>1, <1>5, <2>1 DEF ProcessTypes, CheckStage, InBoundary, GiveUp, kbVars,
         contentVars, purgeVars
<1>6. ASSUME NEW w \in Writer, ClaimStage(w)
      PROVE  ProcessTypes'
  <2>1. writer' \in [Writer -> WriterStates]
    BY <1>1, <1>6, WriterMoves, WriterEndings DEF WriterPlaces, ClaimStage, kbVars,
         contentVars, purgeVars
  <2> QED
    BY <1>1, <1>6, <2>1 DEF ProcessTypes, ClaimStage, kbVars, contentVars, purgeVars
<1>7. ASSUME NEW w \in Writer, LockBoundary(w)
      PROVE  ProcessTypes'
  <2>1. writer' \in [Writer -> WriterStates]
    BY <1>1, <1>7, WriterMoves, WriterEndings DEF WriterPlaces, LockBoundary, MayShare,
         InBoundary, GiveUp, kbVars, contentVars, purgeVars
  <2> QED
    BY <1>1, <1>7, <2>1 DEF ProcessTypes, LockBoundary, MayShare, InBoundary, GiveUp,
         kbVars, contentVars, purgeVars
<1>8. ASSUME NEW w \in Writer, PutObject(w)
      PROVE  ProcessTypes'
  <2>1. writer' \in [Writer -> WriterStates]
    BY <1>1, <1>8, WriterMoves, WriterEndings DEF WriterPlaces, PutObject, kbVars,
         contentVars, purgeVars
  <2> QED
    BY <1>1, <1>8, <2>1 DEF ProcessTypes, PutObject, kbVars, contentVars, purgeVars
<1>9. ASSUME NEW w \in Writer, CommitItem(w)
      PROVE  ProcessTypes'
  <2>1. writer' \in [Writer -> WriterStates]
    BY <1>1, <1>9, WriterMoves, WriterEndings DEF WriterPlaces, CommitItem, kbVars,
         contentVars, purgeVars
  <2> QED
    BY <1>1, <1>9, <2>1 DEF ProcessTypes, CommitItem, kbVars, contentVars, purgeVars
<1>10. ASSUME NEW w \in Writer, CommitRow(w)
      PROVE  ProcessTypes'
  <2>1. writer' \in [Writer -> WriterStates]
    BY <1>1, <1>10, WriterMoves, WriterEndings DEF WriterPlaces, CommitRow, kbVars,
         contentVars, purgeVars
  <2> QED
    BY <1>1, <1>10, <2>1 DEF ProcessTypes, CommitRow, kbVars, contentVars, purgeVars
<1>11. ASSUME NEW w \in Writer, WriterDies(w)
      PROVE  ProcessTypes'
  <2>1. writer' \in [Writer -> WriterStates]
    BY <1>1, <1>11, WriterMoves, WriterEndings DEF WriterPlaces, WriterDies, kbVars,
         contentVars, purgeVars
  <2> QED
    BY <1>1, <1>11, <2>1 DEF ProcessTypes, WriterDies, kbVars, contentVars, purgeVars
<1>12. ASSUME NEW r \in Reader, BeginAnswer(r)
      PROVE  ProcessTypes'
  <2>1. reader' \in [Reader -> ReaderStates]
    BY <1>1, <1>12 DEF ProcessTypes, RowTypes, ReaderStates, IdleReader, BeginAnswer,
         kbVars, contentVars, purgeVars
  <2> QED
    BY <1>1, <1>12, <2>1 DEF ProcessTypes, BeginAnswer, kbVars, contentVars, purgeVars
<1>13. ASSUME NEW r \in Reader, ReadHits(r)
      PROVE  ProcessTypes'
  <2>1. reader' \in [Reader -> ReaderStates]
    BY <1>1, <1>13 DEF ProcessTypes, RowTypes, ReaderStates, IdleReader, ReadHits,
         kbVars, contentVars, purgeVars
  <2> QED
    BY <1>1, <1>13, <2>1 DEF ProcessTypes, ReadHits, kbVars, contentVars, purgeVars
<1>14. ASSUME NEW r \in Reader, GiveAnswer(r)
      PROVE  ProcessTypes'
  <2>1. IdleReader \in ReaderStates /\ [IdleReader EXCEPT !.at = "answered"] \in ReaderStates
    BY DEF IdleReader, ReaderStates, Epochs
  <2>2. reader' \in [Reader -> ReaderStates]
    BY <1>1, <1>14, <2>1 DEF ProcessTypes, GiveAnswer
  <2> QED
    BY <1>1, <1>14, <2>2 DEF ProcessTypes, GiveAnswer, InBoundary, kbVars, contentVars,
         purgeVars
<1>15. ASSUME NEW h \in Handler, Claim(h)
      PROVE  ProcessTypes'
  <2>1. handler' \in [Handler -> HandlerStates]
    BY <1>1, <1>15, Progress
  <2> QED
    BY <1>1, <1>15, <2>1 DEF ProcessTypes, Claim, kbVars, contentVars, purgeVars
<1>16. ASSUME NEW h \in Handler, Refuse(h)
      PROVE  ProcessTypes'
  <2>1. handler' \in [Handler -> HandlerStates]
    BY <1>1, <1>16, Outcomes
  <2> QED
    BY <1>1, <1>16, <2>1 DEF ProcessTypes, Refuse, kbVars, contentVars, purgeVars
<1>17. ASSUME NEW h \in Handler, Accept(h)
      PROVE  ProcessTypes'
  <2>1. handler' \in [Handler -> HandlerStates]
    BY <1>1, <1>17, Progress
  <2> QED
    BY <1>1, <1>17, <2>1 DEF ProcessTypes, Accept, kbVars, contentVars, purgeVars
<1>18. ASSUME NEW h \in Handler, RemoveObject(h)
      PROVE  ProcessTypes'
  <2>1. handler' \in [Handler -> HandlerStates]
    BY <1>1, <1>18, Removals
  <2> QED
    BY <1>1, <1>18, <2>1 DEF ProcessTypes, RemoveObject, Deleting, kbVars, contentVars,
         purgeVars
<1>19. ASSUME NEW h \in Handler, ObjectFails(h)
      PROVE  ProcessTypes'
  <2>1. handler' \in [Handler -> HandlerStates]
    BY <1>1, <1>19, Outcomes
  <2> QED
    BY <1>1, <1>19, <2>1 DEF ProcessTypes, ObjectFails, Deleting, kbVars, contentVars,
         purgeVars
<1>20. ASSUME NEW h \in Handler, CommitObject(h)
      PROVE  ProcessTypes'
  <2>1. handler' \in [Handler -> HandlerStates]
    BY <1>1, <1>20, Ledgers
  <2> QED
    BY <1>1, <1>20, <2>1 DEF ProcessTypes, CommitObject, kbVars, contentVars, purgeVars
<1>21. ASSUME NEW h \in Handler, CleanUp(h)
      PROVE  ProcessTypes'
  <2>1. handler' \in [Handler -> HandlerStates]
    BY <1>1, <1>21, Outcomes
  <2> QED
    BY <1>1, <1>21, <2>1 DEF ProcessTypes, CleanUp, Deleting, kbVars, contentVars, purgeVars
<1>22. ASSUME NEW h \in Handler, CleanUpFails(h)
      PROVE  ProcessTypes'
  <2>1. handler' \in [Handler -> HandlerStates]
    BY <1>1, <1>22, Outcomes
  <2> QED
    BY <1>1, <1>22, <2>1 DEF ProcessTypes, CleanUpFails, Deleting, kbVars, contentVars,
         purgeVars
<1>23. ASSUME NEW h \in Handler, Raise(h)
      PROVE  ProcessTypes'
  <2>1. handler' \in [Handler -> HandlerStates]
    BY <1>1, <1>23, Progress
  <2> QED
    BY <1>1, <1>23, <2>1 DEF ProcessTypes, Raise, kbVars, contentVars, purgeVars
<1>24. ASSUME NEW h \in Handler, MarkFailed(h)
      PROVE  ProcessTypes'
  <2>1. handler' \in [Handler -> HandlerStates]
    BY <1>1, <1>24, HandlerEndings DEF MarkFailed
  <2> QED
    BY <1>1, <1>24, <2>1 DEF ProcessTypes, MarkFailed, kbVars, contentVars, purgeVars
<1>25. ASSUME NEW h \in Handler, HandlerDies(h)
      PROVE  ProcessTypes'
  <2>1. handler' \in [Handler -> HandlerStates]
    BY <1>1, <1>25, HandlerEndings DEF HandlerDies
  <2> QED
    BY <1>1, <1>25, <2>1 DEF ProcessTypes, HandlerDies, kbVars, contentVars, purgeVars
<1>26. ASSUME NEW w \in Writer, EndRun(w)
      PROVE  ProcessTypes'
  <2>1. UNCHANGED <<writer, reader, handler>>
    BY <1>26 DEF EndRun, kbVars, contentVars, purgeVars
  <2> QED
    BY <1>1, <2>1
<1>27. ASSUME NEW force \in BOOLEAN, SubmitPurge(force)
      PROVE  ProcessTypes'
  <2>1. UNCHANGED <<writer, reader, handler>>
    BY <1>27 DEF SubmitPurge, MayUpdate, kbVars, contentVars, purgeVars
  <2> QED
    BY <1>1, <2>1
<1>28. ASSUME NEW i \in Item, ChangeHold(i)
      PROVE  ProcessTypes'
  <2>1. UNCHANGED <<writer, reader, handler>>
    BY <1>28 DEF ChangeHold, kbVars, contentVars, purgeVars
  <2> QED
    BY <1>1, <2>1
<1>29. CASE \/ Archive
             \/ Restore
             \/ HardDelete
             \/ Retry
             \/ Age
             \/ AdvanceEpoch
             \/ Recover
             \/ UNCHANGED vars
  <2>1. UNCHANGED <<writer, reader, handler>>
    BY <1>29 DEF Archive, MayUpdate, kbVars, contentVars, purgeVars, Restore,
             HardDelete, Retry, Age, AdvanceEpoch, Recover, ReleaseFailed, vars
  <2> QED
    BY <1>1, <2>1
<1> HIDE DEF ProcessTypes
<1> QED
  BY <1>2, <1>3, <1>4, <1>5, <1>6, <1>7, <1>8, <1>9, <1>10, <1>11, <1>12, <1>13, <1>14,
           <1>15, <1>16, <1>17, <1>18, <1>19, <1>20, <1>21, <1>22, <1>23, <1>24, <1>25,
           <1>26, <1>27, <1>28, <1>29
     DEF Next, Write, Answer, Administer, Work, Fail

LEMMA WritersStep ==
    ASSUME Inv, [Next]_vars
    PROVE  WritersInv'
<1>1. WritersInv /\ RowTypes /\ ProcessTypes /\ OpTypes /\ EventTypes
  BY TypeParts DEF Inv
<1>2. PlanInv /\ HandlersInv /\ ContentInv
  BY DEF Inv
<1> USE DEF WritersInv, RowTypes
<1>3. ASSUME NEW w \in Writer, BeginRequest(w)
      PROVE  WritersInv'
  <2> QED
    BY <1>1, <1>3 DEF ProcessTypes, WriterStates, BeginRequest, MayShare, SetWriter,
         Fresh, kbVars, contentVars, purgeVars
<1>4. ASSUME NEW w \in Writer, Enqueue(w)
      PROVE  WritersInv'
  <2> QED
    BY <1>1, <1>4 DEF ProcessTypes, WriterStates, Enqueue, MayShare, SetWriter, Fresh,
         kbVars, contentVars, purgeVars
<1>5. ASSUME NEW w \in Writer, CaptureLease(w)
      PROVE  WritersInv'
  <2> QED
    BY <1>1, <1>5 DEF ProcessTypes, WriterStates, CaptureLease, SetWriter, Fresh,
         kbVars, contentVars, purgeVars
<1>6. ASSUME NEW w \in Writer, CheckStage(w)
      PROVE  WritersInv'
  <2> QED
    BY <1>1, <1>6, WriterMoves, WriterEndings DEF WriterPlaces, CheckStage, InBoundary,
         GiveUp, kbVars, contentVars, purgeVars
<1>7. ASSUME NEW w \in Writer, ClaimStage(w)
      PROVE  WritersInv'
  <2> QED
    BY <1>1, <1>7, WriterMoves, WriterEndings DEF WriterPlaces, ClaimStage, kbVars,
         contentVars, purgeVars
<1>8. ASSUME NEW w \in Writer, LockBoundary(w)
      PROVE  WritersInv'
  <2> QED
    BY <1>1, <1>8, WriterMoves, WriterEndings DEF WriterPlaces, LockBoundary, MayShare,
         InBoundary, GiveUp, kbVars, contentVars, purgeVars
<1>9. ASSUME NEW w \in Writer, PutObject(w)
      PROVE  WritersInv'
  <2> QED
    BY <1>1, <1>9, WriterMoves, WriterEndings DEF WriterPlaces, PutObject, kbVars,
         contentVars, purgeVars
<1>10. ASSUME NEW w \in Writer, CommitItem(w)
      PROVE  WritersInv'
  <2> QED
    BY <1>1, <1>10, WriterMoves, WriterEndings DEF WriterPlaces, CommitItem, kbVars,
         contentVars, purgeVars
<1>11. ASSUME NEW w \in Writer, CommitRow(w)
      PROVE  WritersInv'
  <2> QED
    BY <1>1, <1>11, WriterMoves, WriterEndings DEF WriterPlaces, CommitRow, kbVars,
         contentVars, purgeVars
<1>12. ASSUME NEW w \in Writer, WriterDies(w)
      PROVE  WritersInv'
  <2> QED
    BY <1>1, <1>12, WriterMoves, WriterEndings DEF WriterPlaces, WriterDies, kbVars,
         contentVars, purgeVars
<1>13. ASSUME Archive
      PROVE  WritersInv'
  <2> QED
    BY <1>1, <1>13 DEF Sharing, Archive, MayUpdate, kbVars, contentVars, purgeVars
<1>14. ASSUME Restore
      PROVE  WritersInv'
  <2> QED
    BY <1>1, <1>14 DEF Sharing, Restore, MayUpdate, kbVars, contentVars, purgeVars
<1>15. ASSUME AdvanceEpoch
      PROVE  WritersInv'
  <2> QED
    BY <1>1, <1>15 DEF Sharing, AdvanceEpoch, MayUpdate, kbVars, contentVars, purgeVars
<1>16. ASSUME HardDelete
      PROVE  WritersInv'
  <2> QED
    BY <1>1, <1>16 DEF Sharing, HardDelete, MayUpdate, kbVars, contentVars, purgeVars
<1>17. ASSUME NEW force \in BOOLEAN, SubmitPurge(force)
      PROVE  WritersInv'
  <2> QED
    BY <1>1, <1>17 DEF Sharing, SubmitPurge, MayUpdate, kbVars, contentVars, purgeVars
<1>18. ASSUME NEW h \in Handler, RemoveObject(h)
      PROVE  WritersInv'
  <2>1. op.status # "none"
    BY <1>2, <1>18 DEF PlanInv, RemoveObject, Deleting
  <2>2. \A v \in Writer : writer[v].at \notin {"locked", "stored"}
    BY <1>1, <1>2, <2>1 DEF PlanInv
  <2>3. UNCHANGED <<writer, rows, known, status, epoch>>
    BY <1>18 DEF RemoveObject, SetHandler, Deleting, kbVars, contentVars, purgeVars
  <2> QED
    BY <1>1, <2>2, <2>3
<1>19. ASSUME NEW h \in Handler, CleanUp(h)
      PROVE  WritersInv'
  <2>1. op.status # "none"
    BY <1>2, <1>19 DEF PlanInv, CleanUp, Deleting
  <2>2. \A v \in Writer : writer[v].at \notin {"locked", "stored"}
    BY <1>1, <1>2, <2>1 DEF PlanInv
  <2>3. UNCHANGED <<writer, known, stored>> /\ rows' \subseteq rows
    BY <1>19 DEF CleanUp, Publish, SetHandler, HandlerEnds, Deleting, kbVars,
         contentVars, purgeVars
  <2> QED
    BY <1>1, <2>2, <2>3
<1>20. ASSUME NEW w \in Writer, EndRun(w)
      PROVE  WritersInv'
  <2>1. UNCHANGED <<writer, rows, known, status, epoch, stored>>
    BY <1>20 DEF EndRun, kbVars, contentVars, purgeVars
  <2> QED
    BY <1>1, <2>1
<1>21. ASSUME NEW r \in Reader, BeginAnswer(r) \/ ReadHits(r) \/ GiveAnswer(r)
      PROVE  WritersInv'
  <2>1. UNCHANGED <<writer, rows, known, status, epoch, stored>>
    BY <1>21 DEF BeginAnswer, kbVars, contentVars, purgeVars, ReadHits, GiveAnswer,
             InBoundary
  <2> QED
    BY <1>1, <2>1
<1>22. ASSUME NEW h \in Handler, Claim(h) \/ Refuse(h) \/ Accept(h) \/ ObjectFails(h) \/
         CommitObject(h) \/ CleanUpFails(h) \/ Raise(h) \/ MarkFailed(h) \/
         HandlerDies(h)
      PROVE  WritersInv'
  <2>1. UNCHANGED <<writer, rows, known, status, epoch, stored>>
    BY <1>22 DEF Claim, SetHandler, kbVars, contentVars, purgeVars, Refuse, Publish,
             HandlerEnds, Failed, Accept, ObjectFails, Deleting, CommitObject,
             CleanUpFails, Raise, MarkFailed, ReleaseFailed, HandlerDies
  <2> QED
    BY <1>1, <2>1
<1>23. ASSUME NEW i \in Item, ChangeHold(i)
      PROVE  WritersInv'
  <2>1. UNCHANGED <<writer, rows, known, status, epoch, stored>>
    BY <1>23 DEF ChangeHold, kbVars, contentVars, purgeVars
  <2> QED
    BY <1>1, <2>1
<1>24. CASE \/ Retry
             \/ Age
             \/ Recover
             \/ UNCHANGED vars
  <2>1. UNCHANGED <<writer, rows, known, status, epoch, stored>>
    BY <1>24 DEF Retry, kbVars, contentVars, purgeVars, Age, Recover, ReleaseFailed,
             vars
  <2> QED
    BY <1>1, <2>1
<1> HIDE DEF WritersInv, RowTypes
<1> QED
  BY <1>3, <1>4, <1>5, <1>6, <1>7, <1>8, <1>9, <1>10, <1>11, <1>12, <1>13, <1>14, <1>15,
           <1>16, <1>17, <1>18, <1>19, <1>20, <1>21, <1>22, <1>23, <1>24
     DEF Next, Write, Answer, Administer, Work, Fail

LEMMA ContentStep ==
    ASSUME Inv, [Next]_vars
    PROVE  ContentInv'
<1>1. ContentInv /\ WritersInv /\ RowTypes /\ ProcessTypes /\ OpTypes /\ EventTypes
  BY TypeParts DEF Inv
<1>2. PlanInv /\ HandlersInv /\ EventInv
  BY DEF Inv
<1> USE DEF ContentInv, PurgedIsEmpty, RestorableIsIntact, DeletedWasUnused, ArchivedIsNotShared, Runs
<1>3. ASSUME NEW w \in Writer, Enqueue(w)
      PROVE  ContentInv'
  <2> QED
    BY <1>1, <1>3 DEF RowTypes, Enqueue, MayShare, SetWriter, Fresh, kbVars,
         contentVars, purgeVars
<1>4. ASSUME NEW w \in Writer, CheckStage(w)
      PROVE  ContentInv'
  <2> QED
    BY <1>1, <1>4 DEF RowTypes, CheckStage, InBoundary, WriterAt, SetWriter, WriterEnds,
         GiveUp, kbVars, contentVars, purgeVars
<1>5. ASSUME NEW w \in Writer, ClaimStage(w)
      PROVE  ContentInv'
  <2> QED
    BY <1>1, <1>5 DEF RowTypes, ClaimStage, WriterAt, SetWriter, WriterEnds, kbVars,
         contentVars, purgeVars
<1>6. ASSUME NEW w \in Writer, LockBoundary(w)
      PROVE  ContentInv'
  <2> QED
    BY <1>1, <1>6 DEF RowTypes, LockBoundary, MayShare, InBoundary, WriterAt, SetWriter,
         WriterEnds, GiveUp, kbVars, contentVars, purgeVars
<1>7. ASSUME NEW w \in Writer, EndRun(w)
      PROVE  ContentInv'
  <2> QED
    BY <1>1, <1>7 DEF RowTypes, EndRun, kbVars, contentVars, purgeVars
<1>8. ASSUME Archive
      PROVE  ContentInv'
  <2> QED
    BY <1>1, <1>8 DEF RowTypes, Archive, MayUpdate, kbVars, contentVars, purgeVars
<1>9. ASSUME Restore
      PROVE  ContentInv'
  <2> QED
    BY <1>1, <1>9 DEF RowTypes, Restore, MayUpdate, kbVars, contentVars, purgeVars
<1>10. ASSUME HardDelete
      PROVE  ContentInv'
  <2> QED
    BY <1>1, <1>10 DEF RowTypes, HardDelete, MayUpdate, kbVars, contentVars, purgeVars
<1>11. ASSUME NEW force \in BOOLEAN, SubmitPurge(force)
      PROVE  ContentInv'
  <2> QED
    BY <1>1, <1>11 DEF RowTypes, SubmitPurge, MayUpdate, kbVars, contentVars, purgeVars
<1>12. ASSUME NEW w \in Writer, PutObject(w)
      PROVE  ContentInv'
  <2>1. status = "active" /\ writer[w].item \in Item
    BY <1>1, <1>12 DEF WritersInv, PutObject, WriterAt, SetWriter, kbVars, contentVars,
         purgeVars
  <2> QED
    BY <1>1, <1>12, <2>1 DEF WritersInv, RowTypes, PutObject, WriterAt, SetWriter,
         kbVars, contentVars, purgeVars
<1>13. ASSUME NEW w \in Writer, CommitRow(w)
      PROVE  ContentInv'
  <2>1. status = "active" /\ writer[w].item \in Item
    BY <1>1, <1>13 DEF WritersInv, CommitRow, WriterEnds, SetWriter, kbVars,
         contentVars, purgeVars
  <2> QED
    BY <1>1, <1>13, <2>1 DEF WritersInv, RowTypes, CommitRow, WriterEnds, SetWriter,
         kbVars, contentVars, purgeVars
<1>14. ASSUME NEW w \in Writer, CommitItem(w)
      PROVE  ContentInv'
  <2>1. status = "active" /\ writer[w].item \in stored
    BY <1>1, <1>14 DEF WritersInv, CommitItem
  <2>2. UNCHANGED <<status, shared, stored>>
    BY <1>14 DEF CommitItem, kbVars
  <2>3. \/ keys' = keys \cup {writer[w].item} /\ known' = known \cup {writer[w].item}
        \/ UNCHANGED <<keys, known>>
    BY <1>14 DEF CommitItem
  <2> QED
    BY <1>1, <2>1, <2>2, <2>3
<1>15. ASSUME NEW h \in Handler, RemoveObject(h)
      PROVE  ContentInv'
  <2>1. status \in {"purge_pending", "purged"}
    BY <1>2, <1>15 DEF PlanInv, RemoveObject, Deleting
  <2> QED
    BY <1>1, <1>15, <2>1 DEF RemoveObject, SetHandler, Deleting, kbVars, contentVars,
         purgeVars
<1>16. ASSUME NEW h \in Handler, CleanUp(h)
      PROVE  ContentInv'
  <2>1. CASE Owns(h)
    <3>1. status = "purge_pending"
      BY <1>2, <1>16, <2>1 DEF PlanInv, EventInv, CompletedIsPurged, CleanUp, Deleting, Owns
    <3>2. known \cap stored = {}
      BY <1>1, <1>2, <1>16, <3>1 DEF PlanInv, HandlersInv, CleanUp, Deleting, RowTypes
    <3> QED
      BY <1>16, <2>1, <3>2 DEF CleanUp
  <2>2. CASE ~Owns(h)
    <3>1. UNCHANGED <<status, rows, keys, known, stored, run, shared>>
      BY <1>16, <2>2 DEF CleanUp
    <3> QED
      BY <1>1, <3>1
  <2> QED
    BY <2>1, <2>2
<1>17. ASSUME NEW w \in Writer, BeginRequest(w) \/ CaptureLease(w) \/ WriterDies(w)
      PROVE  ContentInv'
  <2>1. UNCHANGED <<status, rows, keys, known, stored, run, shared>>
    BY <1>17 DEF BeginRequest, MayShare, SetWriter, Fresh, kbVars, contentVars,
             purgeVars, CaptureLease, WriterDies, WriterEnds
  <2> QED
    BY <1>1, <2>1
<1>18. ASSUME NEW r \in Reader, BeginAnswer(r) \/ ReadHits(r) \/ GiveAnswer(r)
      PROVE  ContentInv'
  <2>1. UNCHANGED <<status, rows, keys, known, stored, run, shared>>
    BY <1>18 DEF BeginAnswer, kbVars, contentVars, purgeVars, ReadHits, GiveAnswer,
             InBoundary
  <2> QED
    BY <1>1, <2>1
<1>19. ASSUME NEW h \in Handler, Claim(h) \/ Refuse(h) \/ Accept(h) \/ ObjectFails(h) \/
         CommitObject(h) \/ CleanUpFails(h) \/ Raise(h) \/ MarkFailed(h) \/
         HandlerDies(h)
      PROVE  ContentInv'
  <2>1. UNCHANGED <<status, rows, keys, known, stored, run, shared>>
    BY <1>19 DEF Claim, SetHandler, kbVars, contentVars, purgeVars, Refuse, Publish,
             HandlerEnds, Failed, Accept, ObjectFails, Deleting, CommitObject,
             CleanUpFails, Raise, MarkFailed, ReleaseFailed, HandlerDies
  <2> QED
    BY <1>1, <2>1
<1>20. ASSUME NEW i \in Item, ChangeHold(i)
      PROVE  ContentInv'
  <2>1. UNCHANGED <<status, rows, keys, known, stored, run, shared>>
    BY <1>20 DEF ChangeHold, kbVars, contentVars, purgeVars
  <2> QED
    BY <1>1, <2>1
<1>21. CASE \/ Retry
             \/ Age
             \/ AdvanceEpoch
             \/ Recover
             \/ UNCHANGED vars
  <2>1. UNCHANGED <<status, rows, keys, known, stored, run, shared>>
    BY <1>21 DEF Retry, kbVars, contentVars, purgeVars, Age, AdvanceEpoch, MayUpdate,
             Recover, ReleaseFailed, vars
  <2> QED
    BY <1>1, <2>1
<1> HIDE DEF ContentInv, PurgedIsEmpty, RestorableIsIntact, DeletedWasUnused, ArchivedIsNotShared, Runs
<1> QED
  BY <1>3, <1>4, <1>5, <1>6, <1>7, <1>8, <1>9, <1>10, <1>11, <1>12, <1>13, <1>14, <1>15,
           <1>16, <1>17, <1>18, <1>19, <1>20, <1>21
     DEF Next, Write, Answer, Administer, Work, Fail

LEMMA PlanStep ==
    ASSUME Inv, [Next]_vars
    PROVE  PlanInv'
<1>1. PlanInv /\ EventInv /\ HandlersInv /\ RowTypes /\ OpTypes /\ EventTypes /\ ProcessTypes
  BY TypeParts DEF Inv
<1>2. ContentInv /\ WritersInv
  BY DEF Inv
<1> USE DEF PlanInv
<1>3. ASSUME NEW h \in Handler, Claim(h)
      PROVE  PlanInv'
  <2>1. op.status # "none" /\ UNCHANGED <<op, status, epoch, known>>
    BY <1>1, <1>3 DEF Claim, kbVars
  <2> QED
    BY <1>1, <1>3, <2>1, Progress
<1>4. ASSUME NEW h \in Handler, Refuse(h)
      PROVE  PlanInv'
  <2>1. op.status # "none" /\ UNCHANGED <<status, epoch, known>>
    BY <1>1, <1>4 DEF Refuse, kbVars
  <2> QED
    BY <1>1, <1>4, <2>1, Outcomes
<1>5. ASSUME NEW h \in Handler, Accept(h)
      PROVE  PlanInv'
  <2>1. op.status # "none" /\ UNCHANGED <<op, status, epoch, known>>
    BY <1>1, <1>5 DEF Accept, kbVars
  <2> QED
    BY <1>1, <1>5, <2>1, Progress
<1>6. ASSUME NEW h \in Handler, RemoveObject(h)
      PROVE  PlanInv'
  <2>1. UNCHANGED <<op, event, status, epoch, known>> /\ op.status # "none"
    BY <1>1, <1>6 DEF RemoveObject, Deleting, kbVars
  <2> QED
    BY <1>1, <2>1
<1>7. ASSUME NEW h \in Handler, ObjectFails(h)
      PROVE  PlanInv'
  <2>1. op.status # "none" /\ UNCHANGED <<status, epoch, known>>
    BY <1>1, <1>7 DEF ObjectFails, Deleting, kbVars
  <2> QED
    BY <1>1, <1>7, <2>1, Outcomes
<1>8. ASSUME NEW h \in Handler, CommitObject(h)
      PROVE  PlanInv'
  <2>1. op.status # "none" /\ UNCHANGED <<status, epoch, known>>
    BY <1>1, <1>8 DEF HandlersInv, CommitObject, kbVars
  <2> QED
    BY <1>1, <1>8, <2>1, Ledgers
<1>9. ASSUME NEW h \in Handler, CleanUp(h)
      PROVE  PlanInv'
  <2>1. op.status # "none" /\ known' = known
    BY <1>1, <1>9 DEF CleanUp, Deleting
  <2>2. /\ Owns(h) => status' = "purged"
        /\ ~Owns(h) => UNCHANGED <<status, epoch>>
    BY <1>9 DEF CleanUp
  <2> QED
    BY <1>1, <1>9, <2>1, <2>2, Outcomes
<1>10. ASSUME NEW h \in Handler, CleanUpFails(h)
      PROVE  PlanInv'
  <2>1. op.status # "none" /\ UNCHANGED <<status, epoch, known>>
    BY <1>1, <1>10 DEF CleanUpFails, Deleting, kbVars
  <2> QED
    BY <1>1, <1>10, <2>1, Outcomes
<1>11. ASSUME NEW h \in Handler, Raise(h)
      PROVE  PlanInv'
  <2>1. op.status # "none" /\ UNCHANGED <<op, status, epoch, known>>
    BY <1>1, <1>11 DEF Raise, kbVars
  <2> QED
    BY <1>1, <1>11, <2>1, Progress
<1>12. ASSUME NEW h \in Handler, MarkFailed(h)
      PROVE  PlanInv'
  <2>1. op.status # "none" /\ UNCHANGED <<status, epoch, known>>
    BY <1>1, <1>12 DEF MarkFailed, kbVars
  <2>2. /\ op'.status # "none" /\ op'.plan = op.plan /\ op'.todo = op.todo
    BY <1>1, <1>12, <2>1, Releases DEF MarkFailed
  <2> QED
    BY <1>1, <2>1, <2>2
<1>13. ASSUME NEW h \in Handler, HandlerDies(h)
      PROVE  PlanInv'
  <2>1. op.status # "none" /\ UNCHANGED <<op, event, status, epoch, known>>
    BY <1>1, <1>13 DEF HandlerDies, kbVars
  <2> QED
    BY <1>1, <2>1
<1>14. ASSUME NEW w \in Writer, CommitItem(w)
      PROVE  PlanInv'
  <2> QED
    BY <1>1, <1>2, <1>14 DEF ContentInv, RestorableIsIntact, WritersInv, RowTypes,
         Epochs, CommitItem, WriterEnds, SetWriter, kbVars, contentVars, purgeVars
<1>15. ASSUME Archive
      PROVE  PlanInv'
  <2> QED
    BY <1>1, <1>2, <1>15 DEF ContentInv, RestorableIsIntact, WritersInv, RowTypes,
         Epochs, Archive, MayUpdate, kbVars, contentVars, purgeVars
<1>16. ASSUME Restore
      PROVE  PlanInv'
  <2> QED
    BY <1>1, <1>2, <1>16 DEF ContentInv, RestorableIsIntact, WritersInv, RowTypes,
         Epochs, Restore, MayUpdate, kbVars, contentVars, purgeVars
<1>17. ASSUME AdvanceEpoch
      PROVE  PlanInv'
  <2> QED
    BY <1>1, <1>2, <1>17 DEF ContentInv, RestorableIsIntact, WritersInv, RowTypes,
         Epochs, AdvanceEpoch, MayUpdate, kbVars, contentVars, purgeVars
<1>18. ASSUME HardDelete
      PROVE  PlanInv'
  <2> QED
    BY <1>1, <1>2, <1>18 DEF ContentInv, RestorableIsIntact, WritersInv, RowTypes,
         Epochs, HardDelete, MayUpdate, kbVars, contentVars, purgeVars
<1>19. ASSUME NEW force \in BOOLEAN, SubmitPurge(force)
      PROVE  PlanInv'
  <2>1. op'.status = "pending" /\ op'.plan.keys = keys /\ op'.todo = keys
    BY <1>19 DEF SubmitPurge, Executed, Payload
  <2>2. keys = known
    BY <1>2, <1>19 DEF ContentInv, SubmitPurge
  <2> QED
    BY <1>1, <1>19, <2>1, <2>2 DEF SubmitPurge
<1>20. ASSUME Recover
      PROVE  PlanInv'
  <2>1. op.status # "none" /\ UNCHANGED <<status, epoch, known>>
    BY <1>1, <1>20 DEF Recover, kbVars
  <2>2. /\ op'.status # "none" /\ op'.plan = op.plan /\ op'.todo = op.todo
    BY <1>1, <1>20, <2>1, Releases DEF Recover
  <2> QED
    BY <1>1, <2>1, <2>2
<1>21. ASSUME Retry
      PROVE  PlanInv'
  <2>1. op.status # "none" /\ UNCHANGED <<status, epoch, known>>
    BY <1>21 DEF Retry, kbVars
  <2>2. /\ op'.status = "pending" /\ op'.plan = op.plan /\ op'.todo = op.todo
    BY <1>1, <1>21, OpReports DEF Retry, OpStatuses, Errors
  <2> QED
    BY <1>1, <2>1, <2>2
<1>22. ASSUME NEW w \in Writer, BeginRequest(w) \/ Enqueue(w) \/ CaptureLease(w) \/
         CheckStage(w) \/ ClaimStage(w) \/ LockBoundary(w) \/ PutObject(w) \/
         CommitRow(w) \/ WriterDies(w) \/ EndRun(w)
      PROVE  PlanInv'
  <2>1. UNCHANGED <<status, epoch, op, event, handler, known>>
    BY <1>22 DEF BeginRequest, MayShare, SetWriter, Fresh, kbVars, contentVars,
             purgeVars, Enqueue, CaptureLease, CheckStage, InBoundary, WriterAt,
             WriterEnds, GiveUp, ClaimStage, LockBoundary, PutObject, CommitRow,
             WriterDies, EndRun
  <2> QED
    BY <1>1, <2>1
<1>23. ASSUME NEW r \in Reader, BeginAnswer(r) \/ ReadHits(r) \/ GiveAnswer(r)
      PROVE  PlanInv'
  <2>1. UNCHANGED <<status, epoch, op, event, handler, known>>
    BY <1>23 DEF BeginAnswer, kbVars, contentVars, purgeVars, ReadHits, GiveAnswer,
             InBoundary
  <2> QED
    BY <1>1, <2>1
<1>24. ASSUME NEW i \in Item, ChangeHold(i)
      PROVE  PlanInv'
  <2>1. UNCHANGED <<status, epoch, op, event, handler, known>>
    BY <1>24 DEF ChangeHold, kbVars, contentVars, purgeVars
  <2> QED
    BY <1>1, <2>1
<1>25. CASE \/ Age
             \/ UNCHANGED vars
  <2>1. UNCHANGED <<status, epoch, op, event, handler, known>>
    BY <1>25 DEF Age, kbVars, contentVars, purgeVars, vars
  <2> QED
    BY <1>1, <2>1
<1> HIDE DEF PlanInv
<1> QED
  BY <1>3, <1>4, <1>5, <1>6, <1>7, <1>8, <1>9, <1>10, <1>11, <1>12, <1>13, <1>14, <1>15,
           <1>16, <1>17, <1>18, <1>19, <1>20, <1>21, <1>22, <1>23, <1>24, <1>25
     DEF Next, Write, Answer, Administer, Work, Fail

LEMMA EventStep ==
    ASSUME Inv, [Next]_vars
    PROVE  EventInv'
<1>1. PlanInv /\ EventInv /\ HandlersInv /\ RowTypes /\ OpTypes /\ EventTypes /\ ProcessTypes
  BY TypeParts DEF Inv
<1>2. ContentInv /\ WritersInv
  BY DEF Inv
<1> USE DEF EventInv, CompletedIsPurged
<1>3. ASSUME NEW h \in Handler, Refuse(h)
      PROVE  EventInv'
  <2>1. status' = status
    BY <1>3 DEF Refuse, kbVars
  <2>2. op.status = "completed" => ~Owns(h)
    BY <1>1 DEF Owns
  <2>3. CASE Owns(h)
    BY <1>1, <1>3, <2>1, <2>2, <2>3, Outcomes
  <2>4. CASE ~Owns(h)
    BY <1>1, <1>3, <2>1, <2>4, Outcomes
  <2> QED
    BY <2>3, <2>4
<1>4. ASSUME NEW h \in Handler, ObjectFails(h)
      PROVE  EventInv'
  <2>1. status' = status
    BY <1>4 DEF ObjectFails, kbVars
  <2>2. op.status = "completed" => ~Owns(h)
    BY <1>1 DEF Owns
  <2>3. CASE Owns(h)
    BY <1>1, <1>4, <2>1, <2>2, <2>3, Outcomes
  <2>4. CASE ~Owns(h)
    BY <1>1, <1>4, <2>1, <2>4, Outcomes
  <2> QED
    BY <2>3, <2>4
<1>5. ASSUME NEW h \in Handler, CleanUpFails(h)
      PROVE  EventInv'
  <2>1. status' = status
    BY <1>5 DEF CleanUpFails, kbVars
  <2>2. op.status = "completed" => ~Owns(h)
    BY <1>1 DEF Owns
  <2>3. CASE Owns(h)
    BY <1>1, <1>5, <2>1, <2>2, <2>3, Outcomes
  <2>4. CASE ~Owns(h)
    BY <1>1, <1>5, <2>1, <2>4, Outcomes
  <2> QED
    BY <2>3, <2>4
<1>6. ASSUME NEW h \in Handler, CleanUp(h)
      PROVE  EventInv'
  <2>1. /\ Owns(h) => status' = "purged"
        /\ ~Owns(h) => status' = status
    BY <1>6 DEF CleanUp
  <2> QED
    BY <1>1, <1>6, <2>1, Outcomes
<1>7. ASSUME NEW h \in Handler, CommitObject(h)
      PROVE  EventInv'
  <2>1. status' = status
    BY <1>7 DEF CommitObject, kbVars
  <2> QED
    BY <1>1, <1>7, <2>1, Ledgers
<1>8. ASSUME NEW h \in Handler, Claim(h)
      PROVE  EventInv'
  <2>1. /\ status' = status /\ op' = op /\ event.status = "pending"
        /\ event'.status = "processing"
    BY <1>8 DEF Claim, kbVars
  <2> QED
    BY <1>1, <2>1
<1>9. ASSUME NEW h \in Handler, MarkFailed(h)
      PROVE  EventInv'
  <2>1. status' = status /\ (op.status = "completed" => ~Owns(h))
    BY <1>1, <1>9 DEF MarkFailed, kbVars, Owns
  <2>2. CASE Owns(h)
    BY <1>1, <1>9, <2>1, <2>2, Releases DEF MarkFailed
  <2>3. CASE ~Owns(h)
    BY <1>1, <1>9, <2>1, <2>3 DEF MarkFailed
  <2> QED
    BY <2>2, <2>3
<1>10. ASSUME Recover
      PROVE  EventInv'
  <2>1. status' = status /\ op.status # "completed"
    BY <1>1, <1>10 DEF Recover, kbVars
  <2> QED
    BY <1>1, <1>10, <2>1, Releases DEF Recover
<1>11. ASSUME Retry
      PROVE  EventInv'
  <2>1. /\ status' = status /\ op.status # "completed"
        /\ event'.attempts = 0
    BY <1>11 DEF Retry, kbVars
  <2>2. op'.status = "pending"
    BY <1>1, <1>11, OpReports DEF Retry, OpStatuses, Errors
  <2> QED
    BY <1>1, <2>1, <2>2
<1>12. ASSUME NEW force \in BOOLEAN, SubmitPurge(force)
      PROVE  EventInv'
  <2> QED
    BY <1>1, <1>12 DEF SubmitPurge
<1>13. ASSUME Archive
      PROVE  EventInv'
  <2> QED
    BY <1>1, <1>13 DEF PlanInv, Archive, MayUpdate, kbVars, contentVars, purgeVars
<1>14. ASSUME Restore
      PROVE  EventInv'
  <2> QED
    BY <1>1, <1>14 DEF PlanInv, Restore, MayUpdate, kbVars, contentVars, purgeVars
<1>15. ASSUME HardDelete
      PROVE  EventInv'
  <2> QED
    BY <1>1, <1>15 DEF PlanInv, HardDelete, MayUpdate, kbVars, contentVars, purgeVars
<1>16. ASSUME NEW w \in Writer, BeginRequest(w) \/ Enqueue(w) \/ CaptureLease(w) \/
         CheckStage(w) \/ ClaimStage(w) \/ LockBoundary(w) \/ PutObject(w) \/
         CommitItem(w) \/ CommitRow(w) \/ WriterDies(w) \/ EndRun(w)
      PROVE  EventInv'
  <2>1. UNCHANGED <<status, op, event>>
    BY <1>16 DEF BeginRequest, MayShare, SetWriter, Fresh, kbVars, contentVars,
             purgeVars, Enqueue, CaptureLease, CheckStage, InBoundary, WriterAt,
             WriterEnds, GiveUp, ClaimStage, LockBoundary, PutObject, CommitItem,
             CommitRow, WriterDies, EndRun
  <2> QED
    BY <1>1, <2>1
<1>17. ASSUME NEW r \in Reader, BeginAnswer(r) \/ ReadHits(r) \/ GiveAnswer(r)
      PROVE  EventInv'
  <2>1. UNCHANGED <<status, op, event>>
    BY <1>17 DEF BeginAnswer, kbVars, contentVars, purgeVars, ReadHits, GiveAnswer,
             InBoundary
  <2> QED
    BY <1>1, <2>1
<1>18. ASSUME NEW h \in Handler, Accept(h) \/ RemoveObject(h) \/ Raise(h) \/
         HandlerDies(h)
      PROVE  EventInv'
  <2>1. UNCHANGED <<status, op, event>>
    BY <1>18 DEF Accept, SetHandler, kbVars, contentVars, purgeVars, RemoveObject,
             Deleting, Raise, HandlerDies, HandlerEnds
  <2> QED
    BY <1>1, <2>1
<1>19. ASSUME NEW i \in Item, ChangeHold(i)
      PROVE  EventInv'
  <2>1. UNCHANGED <<status, op, event>>
    BY <1>19 DEF ChangeHold, kbVars, contentVars, purgeVars
  <2> QED
    BY <1>1, <2>1
<1>20. CASE \/ Age
             \/ AdvanceEpoch
             \/ UNCHANGED vars
  <2>1. UNCHANGED <<status, op, event>>
    BY <1>20 DEF Age, kbVars, contentVars, purgeVars, AdvanceEpoch, MayUpdate, vars
  <2> QED
    BY <1>1, <2>1
<1> HIDE DEF EventInv, CompletedIsPurged
<1> QED
  BY <1>3, <1>4, <1>5, <1>6, <1>7, <1>8, <1>9, <1>10, <1>11, <1>12, <1>13, <1>14, <1>15,
           <1>16, <1>17, <1>18, <1>19, <1>20
     DEF Next, Write, Answer, Administer, Work, Fail

LEMMA HandlersStep ==
    ASSUME Inv, [Next]_vars
    PROVE  HandlersInv'
<1>1. PlanInv /\ EventInv /\ HandlersInv /\ RowTypes /\ OpTypes /\ EventTypes /\ ProcessTypes
  BY TypeParts DEF Inv
<1>2. ContentInv /\ WritersInv
  BY DEF Inv
<1> USE DEF HandlersInv, LedgerIsTrue
<1>3. ASSUME NEW h \in Handler, Claim(h)
      PROVE  HandlersInv'
  <2>1. stored' = stored /\ op' = op /\ op.status # "none"
    BY <1>1, <1>3 DEF PlanInv, Claim
  <2> QED
    BY <1>1, <1>3, <2>1, Progress DEF PlanInv
<1>4. ASSUME NEW h \in Handler, Refuse(h)
      PROVE  HandlersInv'
  <2>1. stored' = stored /\ op.status # "none"
    BY <1>1, <1>4 DEF PlanInv, Refuse
  <2>2. op'.plan = op.plan /\ op'.todo = op.todo
    BY <1>1, <1>4, Outcomes
  <2>3. /\ handler'[h].at = "idle" /\ handler'[h].removed = None
        /\ \A g \in Handler \ {h} : handler'[g] = handler[g]
    BY <1>1, <1>4, Outcomes
  <2> QED
    BY <1>1, <2>1, <2>2, <2>3
<1>5. ASSUME NEW h \in Handler, Accept(h)
      PROVE  HandlersInv'
  <2>1. stored' = stored /\ op' = op /\ op.status # "none"
    BY <1>1, <1>5 DEF PlanInv, Accept
  <2> QED
    BY <1>1, <1>5, <2>1, Progress DEF PlanInv
<1>6. ASSUME NEW h \in Handler, RemoveObject(h)
      PROVE  HandlersInv'
  <2>1. op' = op /\ handler[h].at \in {"locked", "open"}
    BY <1>6 DEF RemoveObject, Deleting
  <2> QED
    BY <1>1, <1>6, <2>1, Removals DEF PlanInv
<1>7. ASSUME NEW h \in Handler, ObjectFails(h)
      PROVE  HandlersInv'
  <2>1. stored' = stored /\ op.status # "none"
    BY <1>1, <1>7 DEF PlanInv, ObjectFails, Deleting
  <2>2. op'.plan = op.plan /\ op'.todo = op.todo
    BY <1>1, <1>7, Outcomes
  <2>3. /\ handler'[h].at = "idle" /\ handler'[h].removed = None
        /\ \A g \in Handler \ {h} : handler'[g] = handler[g]
    BY <1>1, <1>7, Outcomes
  <2> QED
    BY <1>1, <2>1, <2>2, <2>3
<1>8. ASSUME NEW h \in Handler, CommitObject(h)
      PROVE  HandlersInv'
  <2>1. stored' = stored /\ handler[h].removed # None
    BY <1>8 DEF CommitObject
  <2>2. CASE event.status = "processing"
    BY <1>1, <1>8, <2>1, <2>2, Ledgers DEF PlanInv
  <2>3. CASE event.status # "processing"
    BY <1>1, <1>8, <2>1, <2>3, Ledgers DEF PlanInv
  <2> QED
    BY <2>2, <2>3
<1>9. ASSUME NEW h \in Handler, CleanUp(h)
      PROVE  HandlersInv'
  <2>1. stored' = stored /\ op.status # "none"
    BY <1>1, <1>9 DEF PlanInv, CleanUp, Deleting
  <2>2. op'.plan = op.plan /\ op'.todo = op.todo
    BY <1>1, <1>9, Outcomes
  <2>3. /\ handler'[h].at = "idle" /\ handler'[h].removed = None
        /\ \A g \in Handler \ {h} : handler'[g] = handler[g]
    BY <1>1, <1>9, Outcomes
  <2> QED
    BY <1>1, <2>1, <2>2, <2>3
<1>10. ASSUME NEW h \in Handler, CleanUpFails(h)
      PROVE  HandlersInv'
  <2>1. stored' = stored /\ op.status # "none"
    BY <1>1, <1>10 DEF PlanInv, CleanUpFails, Deleting
  <2>2. op'.plan = op.plan /\ op'.todo = op.todo
    BY <1>1, <1>10, Outcomes
  <2>3. /\ handler'[h].at = "idle" /\ handler'[h].removed = None
        /\ \A g \in Handler \ {h} : handler'[g] = handler[g]
    BY <1>1, <1>10, Outcomes
  <2> QED
    BY <1>1, <2>1, <2>2, <2>3
<1>11. ASSUME NEW h \in Handler, Raise(h)
      PROVE  HandlersInv'
  <2>1. stored' = stored /\ op' = op /\ op.status # "none"
    BY <1>1, <1>11 DEF PlanInv, Raise
  <2> QED
    BY <1>1, <1>11, <2>1, Progress DEF PlanInv
<1>12. ASSUME NEW h \in Handler, MarkFailed(h)
      PROVE  HandlersInv'
  <2>1. stored' = stored /\ op.status # "none"
    BY <1>1, <1>12 DEF PlanInv, MarkFailed
  <2>2. op'.plan = op.plan /\ op'.todo = op.todo
    BY <1>1, <1>12, Releases DEF MarkFailed
  <2> QED
    BY <1>1, <1>12, <2>1, <2>2, HandlerEndings DEF MarkFailed
<1>13. ASSUME NEW h \in Handler, HandlerDies(h)
      PROVE  HandlersInv'
  <2>1. stored' = stored /\ op' = op
    BY <1>13 DEF HandlerDies
  <2> QED
    BY <1>1, <1>13, <2>1, HandlerEndings DEF HandlerDies
<1>14. ASSUME NEW w \in Writer, PutObject(w)
      PROVE  HandlersInv'
  <2>1. status = "active"
    BY <1>2, <1>14 DEF WritersInv, PutObject
  <2>2. /\ op.status = "none" /\ UNCHANGED <<op, handler>>
        /\ \A h \in Handler : handler[h].at = "idle"
    BY <1>1, <1>14, <2>1 DEF PlanInv, PutObject, purgeVars
  <2> QED
    BY <1>1, <2>2
<1>15. ASSUME NEW force \in BOOLEAN, SubmitPurge(force)
      PROVE  HandlersInv'
  <2>1. op.status = "none" /\ op'.plan.keys = keys /\ op'.todo = keys
    BY <1>1, <1>15 DEF PlanInv, SubmitPurge, Executed, Payload
  <2>2. /\ handler' = handler
        /\ \A h \in Handler : handler[h].at = "idle"
    BY <1>1, <1>15, <2>1 DEF PlanInv, SubmitPurge
  <2> QED
    BY <1>1, <2>1, <2>2
<1>16. ASSUME Recover
      PROVE  HandlersInv'
  <2>1. UNCHANGED <<stored, handler>> /\ op.status # "none"
    BY <1>1, <1>16 DEF PlanInv, Recover
  <2>2. op'.plan = op.plan /\ op'.todo = op.todo
    BY <1>1, <1>16, Releases DEF Recover
  <2> QED
    BY <1>1, <2>1, <2>2
<1>17. ASSUME Retry
      PROVE  HandlersInv'
  <2>1. UNCHANGED <<stored, handler>> /\ op.status # "none"
    BY <1>17 DEF Retry
  <2>2. op'.plan = op.plan /\ op'.todo = op.todo
    BY <1>1, <1>17, OpReports DEF Retry, OpStatuses, Errors
  <2> QED
    BY <1>1, <2>1, <2>2
<1>18. ASSUME NEW w \in Writer, BeginRequest(w) \/ Enqueue(w) \/ CaptureLease(w) \/
         CheckStage(w) \/ ClaimStage(w) \/ LockBoundary(w) \/ CommitItem(w) \/
         CommitRow(w) \/ WriterDies(w) \/ EndRun(w)
      PROVE  HandlersInv'
  <2>1. UNCHANGED <<op, handler, stored>>
    BY <1>18 DEF BeginRequest, MayShare, SetWriter, Fresh, kbVars, contentVars,
             purgeVars, Enqueue, CaptureLease, CheckStage, InBoundary, WriterAt,
             WriterEnds, GiveUp, ClaimStage, LockBoundary, CommitItem, CommitRow,
             WriterDies, EndRun
  <2> QED
    BY <1>1, <2>1
<1>19. ASSUME NEW r \in Reader, BeginAnswer(r) \/ ReadHits(r) \/ GiveAnswer(r)
      PROVE  HandlersInv'
  <2>1. UNCHANGED <<op, handler, stored>>
    BY <1>19 DEF BeginAnswer, kbVars, contentVars, purgeVars, ReadHits, GiveAnswer,
             InBoundary
  <2> QED
    BY <1>1, <2>1
<1>20. ASSUME NEW i \in Item, ChangeHold(i)
      PROVE  HandlersInv'
  <2>1. UNCHANGED <<op, handler, stored>>
    BY <1>20 DEF ChangeHold, kbVars, contentVars, purgeVars
  <2> QED
    BY <1>1, <2>1
<1>21. CASE \/ Archive
             \/ Restore
             \/ HardDelete
             \/ Age
             \/ AdvanceEpoch
             \/ UNCHANGED vars
  <2>1. UNCHANGED <<op, handler, stored>>
    BY <1>21 DEF Archive, MayUpdate, kbVars, contentVars, purgeVars, Restore,
             HardDelete, Age, AdvanceEpoch, vars
  <2> QED
    BY <1>1, <2>1
<1> HIDE DEF HandlersInv, LedgerIsTrue
<1> QED
  BY <1>3, <1>4, <1>5, <1>6, <1>7, <1>8, <1>9, <1>10, <1>11, <1>12, <1>13, <1>14, <1>15,
           <1>16, <1>17, <1>18, <1>19, <1>20, <1>21
     DEF Next, Write, Answer, Administer, Work, Fail

LEMMA ReadersStep ==
    ASSUME Inv, [Next]_vars
    PROVE  ReadersInv'
<1>1. ReadersInv /\ RowTypes /\ ProcessTypes
  BY TypeParts DEF Inv
<1> USE DEF ReadersInv, RowTypes, Epochs, ProcessTypes, ReaderStates, IdleReader
<1>2. ASSUME NEW r \in Reader, BeginAnswer(r)
      PROVE  ReadersInv'
  BY <1>2, <1>1 DEF BeginAnswer, kbVars, contentVars, purgeVars
<1>3. ASSUME NEW r \in Reader, ReadHits(r)
      PROVE  ReadersInv'
  BY <1>3, <1>1 DEF ReadHits, kbVars, contentVars, purgeVars
<1>4. ASSUME NEW r \in Reader, GiveAnswer(r)
      PROVE  ReadersInv'
  BY <1>4, <1>1 DEF GiveAnswer, InBoundary, kbVars, contentVars, purgeVars
<1>5. ASSUME Archive
      PROVE  ReadersInv'
  BY <1>5, <1>1 DEF Archive, MayUpdate, kbVars, contentVars, purgeVars
<1>6. ASSUME Restore
      PROVE  ReadersInv'
  BY <1>6, <1>1 DEF Restore, MayUpdate, kbVars, contentVars, purgeVars
<1>7. ASSUME AdvanceEpoch
      PROVE  ReadersInv'
  BY <1>7, <1>1 DEF AdvanceEpoch, MayUpdate, kbVars, contentVars, purgeVars
<1>8. ASSUME NEW h \in Handler, CleanUp(h)
      PROVE  ReadersInv'
  BY <1>8, <1>1 DEF CleanUp, Publish, SetHandler, HandlerEnds, Deleting, kbVars,
           contentVars, purgeVars
<1>9. ASSUME NEW w \in Writer, BeginRequest(w) \/ Enqueue(w) \/ CaptureLease(w) \/
         CheckStage(w) \/ ClaimStage(w) \/ LockBoundary(w) \/ PutObject(w) \/
         CommitItem(w) \/ CommitRow(w) \/ WriterDies(w) \/ EndRun(w)
      PROVE  ReadersInv'
  <2>1. UNCHANGED <<epoch, reader>>
    BY <1>9 DEF BeginRequest, MayShare, SetWriter, Fresh, kbVars, contentVars,
             purgeVars, Enqueue, CaptureLease, CheckStage, InBoundary, WriterAt,
             WriterEnds, GiveUp, ClaimStage, LockBoundary, PutObject, CommitItem,
             CommitRow, WriterDies, EndRun
  <2> QED
    BY <1>1, <2>1
<1>10. ASSUME NEW h \in Handler, Claim(h) \/ Refuse(h) \/ Accept(h) \/ RemoveObject(h)
         \/ ObjectFails(h) \/ CommitObject(h) \/ CleanUpFails(h) \/ Raise(h) \/
         MarkFailed(h) \/ HandlerDies(h)
      PROVE  ReadersInv'
  <2>1. UNCHANGED <<epoch, reader>>
    BY <1>10 DEF Claim, SetHandler, kbVars, contentVars, purgeVars, Refuse, Publish,
             HandlerEnds, Failed, Accept, RemoveObject, Deleting, ObjectFails,
             CommitObject, CleanUpFails, Raise, MarkFailed, ReleaseFailed, HandlerDies
  <2> QED
    BY <1>1, <2>1
<1>11. ASSUME NEW force \in BOOLEAN, SubmitPurge(force)
      PROVE  ReadersInv'
  <2>1. UNCHANGED <<epoch, reader>>
    BY <1>11 DEF SubmitPurge, MayUpdate, kbVars, contentVars, purgeVars
  <2> QED
    BY <1>1, <2>1
<1>12. ASSUME NEW i \in Item, ChangeHold(i)
      PROVE  ReadersInv'
  <2>1. UNCHANGED <<epoch, reader>>
    BY <1>12 DEF ChangeHold, kbVars, contentVars, purgeVars
  <2> QED
    BY <1>1, <2>1
<1>13. CASE \/ HardDelete
             \/ Retry
             \/ Age
             \/ Recover
             \/ UNCHANGED vars
  <2>1. UNCHANGED <<epoch, reader>>
    BY <1>13 DEF HardDelete, MayUpdate, kbVars, contentVars, purgeVars, Retry, Age,
             Recover, ReleaseFailed, vars
  <2> QED
    BY <1>1, <2>1
<1> HIDE DEF ReadersInv, RowTypes, Epochs, ProcessTypes, ReaderStates, IdleReader
<1> QED
  BY <1>2, <1>3, <1>4, <1>5, <1>6, <1>7, <1>8, <1>9, <1>10, <1>11, <1>12, <1>13
     DEF Next, Write, Answer, Administer, Work, Fail

-----------------------------------------------------------------------------
(***************************************************************************)
(* The theorems                                                            *)
(***************************************************************************)

LEMMA StepInv ==
    ASSUME Inv, [Next]_vars
    PROVE  Inv'
<1>1. TypeOK'
  <2>1. RowTypes' /\ FlagTypes' /\ OpTypes' /\ EventTypes' /\ ProcessTypes'
    BY RowTypesStep, FlagTypesStep, OpTypesStep, EventTypesStep, ProcessTypesStep
  <2> QED
    BY <2>1 DEF TypeOK, RowTypes, FlagTypes, OpTypes, EventTypes, ProcessTypes,
                OpRecords, EventRecords
<1> QED
  BY <1>1, WritersStep, ContentStep, PlanStep, EventStep, HandlersStep, ReadersStep
     DEF Inv

\* Every reachable state satisfies the invariant the other theorems rest on.
THEOREM InvHolds == Spec => []Inv
BY InitInv, StepInv, PTL DEF Spec

\* Every variable keeps its type (the rows of nicekit/models/kb.py, and what
\* requests, workers and coroutines remember).
THEOREM TypesHold == Spec => []TypeOK
<1>1. Inv => TypeOK
  BY DEF Inv
<1> QED
  BY <1>1, InvHolds, PTL

\* Whatever workers were in the middle of, nothing of a purged knowledge base
\* is left: execute_knowledge_base_purge finds all there ever was.
THEOREM PurgeIsComplete == Spec => []PurgedIsEmpty
<1>1. Inv => PurgedIsEmpty
  BY DEF Inv, ContentInv
<1> QED
  BY <1>1, InvHolds, PTL

\* Nothing is lost of what restore_knowledge_base can bring back.
THEOREM NothingRestorableIsLost == Spec => []RestorableIsIntact
<1>1. Inv => RestorableIsIntact
  BY DEF Inv, ContentInv
<1> QED
  BY <1>1, InvHolds, PTL

\* hard_delete_empty_knowledge_base deletes only what was never used.
THEOREM DeletionIsOfTheUnused == Spec => []DeletedWasUnused
<1>1. Inv => DeletedWasUnused
  BY DEF Inv, ContentInv
<1> QED
  BY <1>1, InvHolds, PTL

\* A share is never there once archive_knowledge_base has committed, however
\* the request that grants it and the archive follow each other.
THEOREM ArchiveEndsShares == Spec => []ArchivedIsNotShared
<1>1. Inv => ArchivedIsNotShared
  BY DEF Inv, ContentInv
<1> QED
  BY <1>1, InvHolds, PTL

\* The operation is completed exactly when the knowledge base is purged, for
\* any number of coroutines that have lost their claim on the event.
THEOREM OperationTellsThePurge == Spec => []CompletedIsPurged
<1>1. Inv => CompletedIsPurged
  BY DEF Inv, EventInv
<1> QED
  BY <1>1, InvHolds, PTL

\* What the ledger of purge objects takes for deleted is deleted.
THEOREM LedgerHolds == Spec => []LedgerIsTrue
<1>1. Inv => LedgerIsTrue
  BY DEF Inv, HandlersInv
<1> QED
  BY <1>1, InvHolds, PTL

\* No writer that was asked under an earlier boundary commits content: archive
\* and restore between its request and its commit are noticed.
THEOREM WritesAreOfTheirEpoch == Spec => WritesStayInTheirEpoch
<1> DEFINE Stay == \A i \in Item : i \in rows' \ rows =>
                     /\ status = "active"
                     /\ \E w \in Writer : writer[w].item = i /\ writer[w].epoch = epoch
<1>1. ASSUME Inv, [Next]_vars PROVE [Stay]_vars
  <2>1. WritersInv
    BY <1>1 DEF Inv
  <2>2. ASSUME NEW w \in Writer, CommitItem(w) PROVE Stay
    BY <2>1, <2>2 DEF CommitItem, WritersInv
  <2>3. ASSUME NEW w \in Writer, CommitRow(w) PROVE Stay
    BY <2>1, <2>3 DEF CommitRow, WritersInv
  <2>4. ASSUME NEW w \in Writer, Write(w), ~CommitItem(w), ~CommitRow(w) PROVE Stay
    <3>1. rows' = rows
      BY <2>4 DEF Write, BeginRequest, Enqueue, CaptureLease, CheckStage, ClaimStage,
                  LockBoundary, PutObject, WriterDies, EndRun, contentVars
    <3> QED
      BY <3>1
  <2>5. ASSUME NEW r \in Reader, Answer(r) PROVE Stay
    <3>1. rows' = rows
      BY <2>5 DEF Answer, BeginAnswer, ReadHits, GiveAnswer, contentVars
    <3> QED
      BY <3>1
  <2>6. ASSUME NEW h \in Handler, Work(h) \/ Fail(h) PROVE Stay
    <3>1. rows' \subseteq rows
      BY <2>6 DEF Work, Fail, Claim, Refuse, Accept, RemoveObject, CommitObject, CleanUp,
                  MarkFailed, ObjectFails, CleanUpFails, Raise, HandlerDies, contentVars
    <3> QED
      BY <3>1
  <2>7. ASSUME NEW force \in BOOLEAN, SubmitPurge(force) PROVE Stay
    BY <2>7 DEF SubmitPurge, contentVars
  <2>8. ASSUME NEW i \in Item, ChangeHold(i) PROVE Stay
    BY <2>8 DEF ChangeHold
  <2>9. CASE Archive \/ Restore \/ HardDelete \/ Retry \/ Age \/ AdvanceEpoch \/ Recover
    <3>1. rows' = rows
      BY <2>9 DEF Archive, Restore, HardDelete, Retry, Age, AdvanceEpoch, Recover,
                  contentVars
    <3> QED
      BY <3>1
  <2> HIDE DEF Stay
  <2> QED
    BY <1>1, <2>2, <2>3, <2>4, <2>5, <2>6, <2>7, <2>8, <2>9 DEF Next, Administer
<1> QED
  BY <1>1, InvHolds, PTL DEF Spec, WritesStayInTheirEpoch

\* An answer is given only of what was read under the boundary of now, whatever
\* archives, restores and withdrawals came in between.
THEOREM AnswersAreOfNow == Spec => AnswersAreCurrent
<1> DEFINE Now == \A r \in Reader :
                    reader[r].at # "answered" /\ reader'[r].at = "answered"
                    => status = "active" /\ reader[r].seen \subseteq {epoch}
<1>1. ASSUME Inv, [Next]_vars PROVE [Now]_vars
  <2>1. ReadersInv /\ RowTypes /\ ProcessTypes
    BY <1>1, TypeParts DEF Inv
  <2>2. ASSUME NEW r \in Reader, GiveAnswer(r) PROVE Now
    <3>1. IdleReader.at # "answered"
      BY DEF IdleReader
    <3>2. \A e \in reader[r].seen : e \in Nat /\ reader[r].epoch <= e /\ e <= epoch
      BY <2>1, <2>2 DEF GiveAnswer, ReadersInv, ProcessTypes, ReaderStates, Epochs
    <3>3. \A s \in Reader \ {r} : reader'[s] = reader[s]
      BY <2>1, <2>2 DEF GiveAnswer, ProcessTypes
    <3>4. reader'[r].at = "answered" => InBoundary(reader[r].epoch)
      BY <2>1, <2>2, <3>1 DEF GiveAnswer, ProcessTypes
    <3>5. reader'[r].at = "answered" => status = "active" /\ reader[r].seen \subseteq {epoch}
      BY <2>1, <3>2, <3>4 DEF InBoundary, RowTypes, Epochs
    <3> QED
      BY <3>3, <3>5
  <2>3. ASSUME NEW r \in Reader, BeginAnswer(r) \/ ReadHits(r) PROVE Now
    <3>1. \A s \in Reader \ {r} : reader'[s] = reader[s]
      BY <2>1, <2>3 DEF BeginAnswer, ReadHits, ProcessTypes
    <3>2. reader'[r].at = "reading"
      BY <2>1, <2>3 DEF BeginAnswer, ReadHits, ProcessTypes, ReaderStates
    <3> QED
      BY <3>1, <3>2
  <2>4. ASSUME NEW w \in Writer, Write(w) PROVE Now
    <3>1. reader' = reader
      BY <2>4 DEF Write, BeginRequest, Enqueue, CaptureLease, CheckStage, ClaimStage,
                  LockBoundary, PutObject, CommitItem, CommitRow, WriterDies, EndRun
    <3> QED
      BY <3>1
  <2>5. ASSUME NEW h \in Handler, Work(h) \/ Fail(h) PROVE Now
    <3>1. reader' = reader
      BY <2>5 DEF Work, Fail, Claim, Refuse, Accept, RemoveObject, CommitObject, CleanUp,
                  MarkFailed, ObjectFails, CleanUpFails, Raise, HandlerDies
    <3> QED
      BY <3>1
  <2>6. ASSUME NEW force \in BOOLEAN, SubmitPurge(force) PROVE Now
    BY <2>6 DEF SubmitPurge
  <2>7. ASSUME NEW i \in Item, ChangeHold(i) PROVE Now
    BY <2>7 DEF ChangeHold
  <2>8. CASE Archive \/ Restore \/ HardDelete \/ Retry \/ Age \/ AdvanceEpoch \/ Recover
    <3>1. reader' = reader
      BY <2>8 DEF Archive, Restore, HardDelete, Retry, Age, AdvanceEpoch, Recover
    <3> QED
      BY <3>1
  <2> HIDE DEF Now
  <2> QED
    BY <1>1, <2>2, <2>3, <2>4, <2>5, <2>6, <2>7, <2>8 DEF Next, Administer, Answer
<1> QED
  BY <1>1, InvHolds, PTL DEF Spec, AnswersAreCurrent

-----------------------------------------------------------------------------
(***************************************************************************)
(* The contract of the knowledge base                                      *)
(***************************************************************************)

\* What the contract knows of stays as it is.
SameContent == UNCHANGED <<status, Content, shared>>

LEMMA InitContract == Init => Contract!KInit
BY DEF Init, Contract!KInit, Content

\* Content depends on three variables and the objects that were ever named.
LEMMA ContentKept ==
    ASSUME UNCHANGED <<rows, keys, known, stored>>
    PROVE  Content' = Content
BY DEF Content

\* While the rows are there, what a row names is what was ever named.
LEMMA ContentIsListed ==
    ASSUME RowTypes, ContentInv, status \in {"active", "archived"}
    PROVE  Content = rows
BY DEF Content, RowTypes, ContentInv, RestorableIsIntact

LEMMA WritersKeep ==
    ASSUME Inv, NEW w \in Writer, Write(w)
    PROVE  Contract!KNext \/ SameContent
<1> USE DEF SameContent
<1>1. RowTypes /\ WritersInv /\ ContentInv
  BY TypeParts DEF Inv
<1>2. CASE CommitItem(w)
  <2> DEFINE i == writer[w].item
  <2>1. i \in Item \ (rows \cup known) /\ i \in stored /\ status = "active"
    BY <1>1, <1>2 DEF CommitItem, WritersInv
  <2>2. CASE rows' = rows
    <3>1. UNCHANGED <<rows, keys, known, stored>>
      BY <1>2, <2>1, <2>2 DEF CommitItem
    <3> QED
      BY <1>2, <3>1, ContentKept DEF CommitItem, kbVars
  <2>3. CASE rows' # rows
    <3>1. /\ rows' = rows \cup {i} /\ keys' = keys \cup {i} /\ known' = known \cup {i}
          /\ UNCHANGED <<status, shared, stored>>
      BY <1>2, <2>3 DEF CommitItem, kbVars
    <3>2. i \notin Content /\ Content' = Content \cup {i}
      BY <2>1, <3>1 DEF Content
    <3>3. Contract!Add(i)
      BY <2>1, <3>1, <3>2 DEF Contract!Add
    <3> QED
      BY <2>1, <3>3 DEF Contract!KNext
  <2> QED
    BY <2>2, <2>3
<1>3. CASE CommitRow(w)
  <2> DEFINE i == writer[w].item
  <2>1. i \in Item \ (rows \cup known) /\ status = "active"
    BY <1>1, <1>3 DEF CommitRow, WritersInv
  <2>2. UNCHANGED <<status, keys, known, stored>>
    BY <1>3 DEF CommitRow, kbVars
  <2>3. CASE writer[w].kind = "share"
    <3>1. UNCHANGED rows /\ shared' = TRUE
      BY <1>3, <2>3 DEF CommitRow
    <3>2. Contract!Share
      BY <2>1, <2>2, <3>1, ContentKept DEF Contract!Share
    <3> QED
      BY <3>2 DEF Contract!KNext
  <2>4. CASE writer[w].kind # "share"
    <3>1. rows' = rows \cup {i} /\ UNCHANGED shared
      BY <1>3, <2>4 DEF CommitRow
    <3>2. i \notin keys
      BY <1>1, <2>1 DEF RowTypes
    <3>3. i \notin Content /\ Content' = Content \cup {i}
      BY <2>1, <2>2, <3>1, <3>2 DEF Content
    <3>4. Contract!Add(i)
      BY <2>1, <2>2, <3>1, <3>3 DEF Contract!Add
    <3> QED
      BY <2>1, <3>4 DEF Contract!KNext
  <2> QED
    BY <2>3, <2>4
<1>4. CASE PutObject(w)
  <2>1. writer[w].item \notin known
    BY <1>1, <1>4 DEF PutObject, WritersInv
  <2>2. UNCHANGED <<status, shared, rows, keys, known>>
    BY <1>4 DEF PutObject, kbVars, contentVars
  <2>3. Content' = Content
    BY <1>4, <2>1, <2>2 DEF PutObject, Content
  <2> QED
    BY <2>2, <2>3
<1>5. CASE ~CommitItem(w) /\ ~CommitRow(w) /\ ~PutObject(w)
  <2>1. UNCHANGED <<status, shared, rows, keys, known, stored>>
    BY <1>5 DEF Write, BeginRequest, Enqueue, CaptureLease, CheckStage, ClaimStage,
                LockBoundary, WriterDies, EndRun, kbVars, contentVars
  <2> QED
    BY <2>1, ContentKept
<1> QED
  BY <1>2, <1>3, <1>4, <1>5

\* A coroutine that still works on the purge, with its claim or without, deletes
\* only objects of a knowledge base that is to be purged, or that are gone.
LEMMA CoroutinesKeep ==
    ASSUME Inv, Inv', NEW h \in Handler, Work(h) \/ Fail(h)
    PROVE  Contract!KNext \/ SameContent
<1> USE DEF SameContent
<1>1. RowTypes /\ ProcessTypes /\ ContentInv /\ PlanInv /\ EventInv /\ HandlersInv
  BY TypeParts DEF Inv
<1>2. CASE RemoveObject(h)
  <2>1. PICK i \in handler[h].todo : stored' = stored \ {i}
    BY <1>2 DEF RemoveObject
  <2>2. handler[h].at \in {"locked", "open"}
    BY <1>2 DEF RemoveObject, Deleting
  <2>3. i \in known /\ status \in {"purge_pending", "purged"}
    BY <1>1, <2>1, <2>2 DEF HandlersInv, PlanInv
  <2>4. i \in Item
    BY <1>1, <2>3 DEF RowTypes
  <2>5. UNCHANGED <<status, shared, rows, keys, known>>
    BY <1>2 DEF RemoveObject, kbVars, contentVars
  <2>6. CASE status = "purged"
    <3>1. i \notin stored
      BY <1>1, <2>3, <2>6 DEF ContentInv, PurgedIsEmpty
    <3>2. stored' = stored
      BY <2>1, <3>1
    <3> QED
      BY <2>5, <3>2, ContentKept
  <2>7. CASE status = "purge_pending"
    <3>1. keys = known
      BY <1>1, <2>7 DEF ContentInv
    <3>2. Content' = Content \ {i}
      BY <2>1, <2>3, <2>5, <3>1 DEF Content
    <3>3. Contract!Destroy(i)
      BY <2>5, <2>7, <3>2 DEF Contract!Destroy
    <3> QED
      BY <2>4, <3>3 DEF Contract!KNext
  <2> QED
    BY <2>3, <2>6, <2>7
<1>3. CASE CleanUp(h) /\ Owns(h)
  <2>1. event.status = "processing"
    BY <1>3 DEF Owns
  <2>2. op.status # "none" /\ op.status # "completed"
    BY <1>1, <2>1 DEF PlanInv, EventInv
  <2>3. status = "purge_pending"
    BY <1>1, <2>2 DEF PlanInv, EventInv, CompletedIsPurged
  <2>4. /\ status' = "purged" /\ rows' = {} /\ shared' = FALSE
        /\ UNCHANGED <<stored, known>>
    BY <1>3 DEF CleanUp
  <2>5. shared = FALSE
    BY <1>1, <2>3 DEF ContentInv, ArchivedIsNotShared, FlagTypes
  <2>6. known' \cap stored' = {}
    BY <2>4 DEF Inv, ContentInv, PurgedIsEmpty
  <2>7. Content' = {}
    BY <2>4, <2>6 DEF Content
  <2>8. Contract!FinishPurge
    BY <2>3, <2>4, <2>5, <2>7 DEF Contract!FinishPurge
  <2> QED
    BY <2>8 DEF Contract!KNext
<1>4. CASE ~RemoveObject(h) /\ ~(CleanUp(h) /\ Owns(h))
  <2>1. UNCHANGED <<status, shared, rows, keys, known, stored>>
    BY <1>4 DEF Work, Fail, Claim, Refuse, Accept, CommitObject, CleanUp,
                MarkFailed, ObjectFails, CleanUpFails, Raise, HandlerDies, kbVars, contentVars
  <2> QED
    BY <2>1, ContentKept
<1> QED
  BY <1>2, <1>3, <1>4

LEMMA AdministrationKeeps ==
    ASSUME Inv, Administer
    PROVE  Contract!KNext \/ SameContent
<1> USE DEF SameContent
<1>1. RowTypes /\ FlagTypes /\ ContentInv
  BY TypeParts DEF Inv
<1>2. CASE Archive
  <2>1. /\ status = "active" /\ status' = "archived" /\ shared' = FALSE
        /\ UNCHANGED <<rows, keys, known, stored>>
    BY <1>2 DEF Archive
  <2>2. Contract!PutAway
    BY <2>1, ContentKept DEF Contract!PutAway
  <2> QED
    BY <2>2 DEF Contract!KNext
<1>3. CASE Restore
  <2>1. /\ status = "archived" /\ status' = "active"
        /\ UNCHANGED <<shared, rows, keys, known, stored>>
    BY <1>3 DEF Restore, contentVars
  <2>2. Contract!BringBack
    BY <2>1, ContentKept DEF Contract!BringBack
  <2> QED
    BY <2>2 DEF Contract!KNext
<1>4. CASE HardDelete
  <2>1. /\ status = "active" /\ status' = "deleted" /\ rows = {} /\ ~shared
        /\ UNCHANGED <<shared, rows, keys, known, stored>>
    BY <1>4 DEF HardDelete, contentVars
  <2>2. Content = {}
    BY <1>1, <2>1, ContentIsListed
  <2>3. Contract!DropUnused
    BY <2>1, <2>2, ContentKept DEF Contract!DropUnused
  <2> QED
    BY <2>3 DEF Contract!KNext
<1>5. ASSUME NEW force \in BOOLEAN, SubmitPurge(force)
      PROVE  Contract!KNext \/ SameContent
  <2>1. /\ status = "archived" /\ status' = "purge_pending"
        /\ UNCHANGED <<shared, rows, keys, known, stored>>
    BY <1>5 DEF SubmitPurge, contentVars
  <2>2. Contract!OrderPurge
    BY <2>1, ContentKept DEF Contract!OrderPurge
  <2> QED
    BY <2>2 DEF Contract!KNext
<1>6. ASSUME NEW i \in Item, ChangeHold(i)
      PROVE  Contract!KNext \/ SameContent
  <2>1. UNCHANGED <<status, shared, rows, keys, known, stored>>
    BY <1>6 DEF ChangeHold, kbVars
  <2> QED
    BY <2>1, ContentKept
<1>7. CASE Retry
  <2>1. UNCHANGED <<status, shared, rows, keys, known, stored>>
    BY <1>7 DEF Retry, kbVars, contentVars
  <2> QED
    BY <2>1, ContentKept
<1> QED
  BY <1>2, <1>3, <1>4, <1>5, <1>6, <1>7 DEF Administer

LEMMA StepContract ==
    ASSUME Inv, Inv', [Next]_vars
    PROVE  [Contract!KNext]_(Contract!kvars)
<1>1. Contract!KNext \/ SameContent
  <2>1. CASE Age \/ AdvanceEpoch \/ Recover \/ (\E r \in Reader : Answer(r)) \/ UNCHANGED vars
    <3>1. UNCHANGED <<status, shared, rows, keys, known, stored>>
      BY <2>1 DEF Age, AdvanceEpoch, Recover, Answer, BeginAnswer, ReadHits, GiveAnswer, vars,
                  kbVars, contentVars
    <3> QED
      BY <3>1, ContentKept DEF SameContent
  <2> QED
    BY <2>1, WritersKeep, CoroutinesKeep, AdministrationKeeps DEF Next
<1> QED
  BY <1>1 DEF SameContent, Contract!kvars

\* archive_knowledge_base, restore_knowledge_base, the purge and everything that
\* is written meanwhile keep the contract of a knowledge base.
THEOREM ContractIsKept == Spec => KeepsContract
<1>1. Spec => []Inv
  BY InvHolds
<1> QED
  BY <1>1, InitContract, StepContract, PTL DEF Spec, KeepsContract, Contract!KSpec

-----------------------------------------------------------------------------
(***************************************************************************)
(* The contract of the outbox                                              *)
(***************************************************************************)

\* Operation and event tell the same of the dispatch.
DispatchInv ==
    /\ event.status \in {"pending", "processing"} => op.status \in {"pending", "processing"}
    /\ event.status = "published" => op.status \in {"failed", "completed"}
    /\ event.status = "dead_letter" => op.status = "dead_letter"
    /\ event.status = "none" => op.status = "none"

\* What a step may do to the two of them.
Requested ==
    /\ event.status = "none" /\ op.status = "none"
    /\ event'.status = "pending" /\ op'.status = "pending"
GoesOn ==
    /\ event.status \in {"pending", "processing"} /\ event'.status \in {"pending", "processing"}
    /\ op.status \in {"pending", "processing"} /\ op'.status \in {"pending", "processing"}
Ended ==
    /\ event.status = "processing" /\ op.status \in {"pending", "processing"}
    /\ event'.status = "published" /\ op'.status \in {"failed", "completed"}
GivenUp ==
    /\ event.status = "processing" /\ op.status \in {"pending", "processing"}
    /\ event'.status = "dead_letter" /\ op'.status = "dead_letter"
Reopened ==
    /\ event.status \in {"published", "dead_letter"} /\ op.status \in {"failed", "dead_letter"}
    /\ event'.status = "pending" /\ op'.status = "pending"
Untouched == op'.status = op.status /\ event'.status = event.status

DispatchStep == Requested \/ GoesOn \/ Ended \/ GivenUp \/ Reopened \/ Untouched

\* An attempt that failed is followed by another one, or was the last.
LEMMA ReleaseStep ==
    ASSUME Inv, DispatchInv, event.status = "processing", ReleaseFailed
    PROVE  DispatchStep
<1>1. op.status \in {"pending", "processing"}
  BY DEF DispatchInv
<1>2. event'.status \in {"pending", "dead_letter"} /\ op'.status = event'.status
  BY <1>1, TypeParts, Releases DEF Inv
<1> QED
  BY <1>1, <1>2 DEF DispatchStep, GoesOn, GivenUp

LEMMA CoroutineStep ==
    ASSUME Inv, DispatchInv, NEW h \in Handler, Work(h) \/ Fail(h)
    PROVE  DispatchStep
<1>1. OpTypes /\ EventTypes /\ ProcessTypes /\ EventInv
  BY TypeParts DEF Inv
<1>2. CASE Claim(h)
  BY <1>2 DEF Claim, DispatchInv, DispatchStep, GoesOn
<1>3. CASE Refuse(h) \/ ObjectFails(h) \/ CleanUp(h) \/ CleanUpFails(h)
  <2>1. CASE Owns(h)
    <3>1. event.status = "processing" /\ op.status \in {"pending", "processing"}
      BY <2>1 DEF Owns, DispatchInv
    <3>2. event'.status = "published" /\ op'.status \in {"failed", "completed"}
      BY <1>1, <1>3, <2>1, Outcomes
    <3> QED
      BY <3>1, <3>2 DEF DispatchStep, Ended
  <2>2. CASE ~Owns(h)
    BY <1>1, <1>3, <2>2, Outcomes DEF DispatchStep, Untouched
  <2> QED
    BY <2>1, <2>2
<1>4. CASE CommitObject(h)
  <2>1. event' = event
    BY <1>1, <1>4, Ledgers
  <2>2. CASE event.status = "processing"
    <3>1. op'.status \in {op.status, "processing"}
      BY <1>1, <1>4, <2>2, Ledgers
    <3> QED
      BY <2>1, <2>2, <3>1 DEF DispatchInv, DispatchStep, GoesOn
  <2>3. CASE event.status # "processing"
    BY <1>4, <2>1, <2>3 DEF CommitObject, DispatchStep, Untouched
  <2> QED
    BY <2>2, <2>3
<1>5. CASE MarkFailed(h)
  <2>1. CASE Owns(h)
    BY <1>5, <2>1, ReleaseStep DEF MarkFailed, Owns
  <2>2. CASE ~Owns(h)
    BY <1>5, <2>2 DEF MarkFailed, DispatchStep, Untouched
  <2> QED
    BY <2>1, <2>2
<1>6. CASE Accept(h) \/ RemoveObject(h) \/ Raise(h) \/ HandlerDies(h)
  BY <1>6 DEF Accept, RemoveObject, Raise, HandlerDies, DispatchStep, Untouched
<1> QED
  BY <1>2, <1>3, <1>4, <1>5, <1>6 DEF Work, Fail

LEMMA EveryStep ==
    ASSUME Inv, DispatchInv, [Next]_vars
    PROVE  DispatchStep
<1>1. ASSUME NEW force \in BOOLEAN, SubmitPurge(force) PROVE DispatchStep
  <2>1. status = "archived" /\ op'.status = "pending" /\ event'.status = "pending"
    BY <1>1 DEF SubmitPurge
  <2>2. op.status = "none" /\ event.status = "none"
    BY <2>1 DEF Inv, PlanInv
  <2> QED
    BY <2>1, <2>2 DEF DispatchStep, Requested
<1>2. CASE Retry
  <2>1. op.status \in {"failed", "dead_letter"} /\ event'.status = "pending"
    BY <1>2 DEF Retry
  <2>2. event.status \in {"published", "dead_letter"}
    <3>1. event.status \in {"none", "pending", "processing", "published", "dead_letter"}
      BY TypeParts DEF Inv, EventTypes, EventRecords
    <3> QED
      BY <2>1, <3>1 DEF DispatchInv
  <2>3. op'.status = "pending"
    BY <1>2, TypeParts, OpReports DEF Inv, Retry, OpStatuses, Errors
  <2> QED
    BY <2>1, <2>2, <2>3 DEF DispatchStep, Reopened
<1>3. CASE Recover
  BY <1>3, ReleaseStep DEF Recover
<1>4. ASSUME NEW i \in Item, ChangeHold(i) PROVE DispatchStep
  BY <1>4 DEF ChangeHold, purgeVars, DispatchStep, Untouched
<1>5. ASSUME NEW w \in Writer, Write(w) PROVE DispatchStep
  <2>1. UNCHANGED <<op, event>>
    BY <1>5 DEF Write, BeginRequest, Enqueue, CaptureLease, CheckStage, ClaimStage,
                LockBoundary, PutObject, CommitItem, CommitRow, WriterDies, EndRun, purgeVars
  <2> QED
    BY <2>1 DEF DispatchStep, Untouched
<1>6. CASE \/ Archive \/ Restore \/ HardDelete \/ Age \/ AdvanceEpoch
           \/ \E r \in Reader : Answer(r)
           \/ UNCHANGED vars
  <2>1. UNCHANGED <<op, event>>
    BY <1>6 DEF Archive, Restore, HardDelete, Age, AdvanceEpoch, Answer, BeginAnswer,
                ReadHits, GiveAnswer, purgeVars, vars
  <2> QED
    BY <2>1 DEF DispatchStep, Untouched
<1> QED
  BY <1>1, <1>2, <1>3, <1>4, <1>5, <1>6, CoroutineStep DEF Next, Administer

LEMMA DispatchHolds == Spec => []DispatchInv
<1>1. Init => DispatchInv
  BY DEF Init, NoOperation, DispatchInv
<1>2. ASSUME Inv, DispatchInv, [Next]_vars PROVE DispatchInv'
  <2>1. CASE Untouched
    BY <1>2, <2>1 DEF Untouched, DispatchInv
  <2>2. CASE Requested \/ GoesOn \/ Ended \/ GivenUp \/ Reopened
    BY <2>2 DEF Requested, GoesOn, Ended, GivenUp, Reopened, DispatchInv
  <2> QED
    BY <1>2, <2>1, <2>2, EveryStep DEF DispatchStep
<1> QED
  BY <1>1, <1>2, InvHolds, PTL DEF Spec

\* Every step that touches operation or event is one of the contract.
LEMMA StepDispatch ==
    ASSUME Inv, DispatchInv, DispatchInv', [Next]_vars
    PROVE  [Outbox!CNext]_(Outbox!cvars)
<1> USE DEF Dispatch, Outcome, Effects
<1> DEFINE e == "purge"
<1>1. e \in Purge /\ Purge = {e}
  BY DEF Purge
<1>2. CASE Requested
  <2>1. Outbox!Request(e)
    BY <1>1, <1>2 DEF Requested, Outbox!Request
  <2> QED
    BY <1>1, <2>1 DEF Outbox!CNext
<1>3. CASE Ended
  <2>1. Outbox!Complete(e)
    BY <1>1, <1>3 DEF Ended, Outbox!Complete
  <2> QED
    BY <1>1, <2>1 DEF Outbox!CNext
<1>4. CASE GivenUp
  <2>1. Outbox!Abandon(Purge)
    BY <1>1, <1>4 DEF GivenUp, Outbox!Abandon
  <2> QED
    BY <2>1 DEF Outbox!CNext
<1>5. CASE Reopened
  <2>1. Outbox!Reopen(e)
    BY <1>1, <1>5 DEF Reopened, Outbox!Reopen
  <2> QED
    BY <1>1, <2>1 DEF Outbox!CNext
<1>6. CASE GoesOn \/ Untouched
  BY <1>6 DEF GoesOn, Untouched, Outbox!cvars
<1> QED
  BY <1>2, <1>3, <1>4, <1>5, <1>6, EveryStep DEF DispatchStep

\* submit_knowledge_base_purge, the coroutines and the retry together dispatch
\* the purge as the outbox promises: what is shown of the knowledge base does
\* not rest on less than that.
THEOREM PurgeIsDispatchedOnce == Spec => PurgeIsDispatched
<1>1. Init => Outbox!CInit
  BY DEF Init, NoOperation, Outbox!CInit, Dispatch, Outcome, Effects
<1> QED
  BY <1>1, InvHolds, DispatchHolds, StepDispatch, PTL
     DEF Spec, PurgeIsDispatched, Outbox!CSpec

=============================================================================
