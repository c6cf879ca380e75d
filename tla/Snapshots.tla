------------------------------ MODULE Snapshots ------------------------------
(***************************************************************************)
(* Snapshots of one knowledge base: built, activated, rolled back to, and  *)
(* collected (kb/snapshot.py, kb/projection_gc.py, and the retrieval       *)
(* builder, which decides where a build finds the text of a document).     *)
(*                                                                         *)
(* Every one of these transactions locks the row of the knowledge base, so *)
(* each is a step.  What still interleaves: the collection runs from an    *)
(* outbox event, as late and in whatever order the consumer gets to it;    *)
(* clients send a transition again under the operation id of an earlier    *)
(* one; and the handler of a withdrawal reads the knowledge base before    *)
(* the lock and goes on with that copy.                                    *)
(*                                                                         *)
(* A snapshot is identified by hashes of what went into it: its row is     *)
(* found again when the same input is built again.                         *)
(***************************************************************************)
EXTENDS Integers, FiniteSets

CONSTANTS
    Doc,            \* documents with a confirmed revision
    LegacyDoc,      \* those ingested before chunks were staged per revision
    Operation,      \* operation ids that clients choose
    Fresh,          \* an id of its own: the client names none
    None,
    Request,        \* the manifests that requests may name (bound)
    MaxDrafts,      \* so many new rows are ready or failed at a time (bound)
    MaxEpoch,       \* so many changes of the boundary (bound)
    MaxChanges      \* so many of them and switches together (bound)

ASSUME SnapshotAssumption ==
    /\ LegacyDoc \subseteq Doc /\ Request \subseteq SUBSET Doc
    /\ Fresh \notin Operation
    /\ MaxEpoch \in Nat /\ MaxDrafts \in Nat /\ MaxChanges \in Nat

VARIABLES
    docs,           \* lifecycle of each document
    epoch,          \* consumption_epoch: the boundary of what may be used
    withdrawnAt,    \* history: the epoch of the last withdrawal, or 0
    legacyRows,     \* whether the chunks that belong to no snapshot exist
    rows,           \* the rows of knowledge_snapshots
    active,         \* active_snapshot_id
    clock,          \* the time of the last switch: their number
    pending,        \* events of switches that are not yet handled
    bound,          \* transitions announced under an operation id
    copy,           \* the knowledge base as a withdrawal's handler read it
    replayed        \* history: the last switch announced itself by an old event

vars == <<docs, epoch, withdrawnAt, legacyRows, rows, active, clock, pending,
          bound, copy, replayed>>

\* "managed": the retrieval projection is one of the required builders, so the
\* snapshot has chunks of its own.  Others were built by an earlier release.
Old(m) == [manifest |-> m, epoch |-> 0, managed |-> FALSE]
Inherited == {Old(LegacyDoc), Old({})}
Snapshot == [manifest : SUBSET Doc, epoch : 0..MaxEpoch, managed : {TRUE}] \cup Inherited
Statuses == {"absent", "ready", "active", "retired", "failed"}
\* whole: the projections are there.  collected: build_stats says they were
\* deleted.
Row == [status : Statuses, whole : BOOLEAN, collected : BOOLEAN,
        retiredAt : Nat]
\* build_stats is replaced, and with it the mark of a collection.
BuiltRow(st, whole) ==
    [status |-> st, whole |-> whole, collected |-> FALSE, retiredAt |-> 0]
Transitions == {"activated", "rolled_back"}

\* The knowledge base as a handler may have read it.
Copy == [epoch : 0..MaxEpoch, active : Snapshot \cup {None}]

ASSUME NoneAssumption == None \notin Snapshot /\ None \notin Copy

TypeOK ==
    /\ docs \in [Doc -> {"active", "withdrawal_pending", "withdrawn"}]
    /\ epoch \in 0..MaxEpoch /\ withdrawnAt \in 0..MaxEpoch
    /\ legacyRows \in BOOLEAN /\ replayed \in BOOLEAN
    /\ rows \in [Snapshot -> Row]
    /\ active \in Snapshot \cup {None}
    /\ clock \in Nat
    /\ pending \subseteq [at : Nat, from : Snapshot \cup {None}]
    /\ bound \subseteq [op : Operation, kind : Transitions,
                        from : Snapshot \cup {None}, to : Snapshot]
    /\ copy \in [Doc -> Copy \cup {None}]

-----------------------------------------------------------------------------
Live == {d \in Doc : docs[d] = "active"}
WithStatus(st) == {s \in Snapshot : rows[s].status = st}
Retired == WithStatus("retired")
\* The generation that the pointer can go back to.
LatestRetired ==
    LET old == Retired
    IN  {s \in old : \A t \in old : rows[t].retiredAt <= rows[s].retiredAt}

\* What an earlier release may have left: an active snapshot that has no chunks
\* of its own, and another that can still be activated.
Init ==
    /\ docs = [d \in Doc |-> "active"]
    /\ epoch = 0 /\ withdrawnAt = 0
    /\ legacyRows = TRUE
    /\ active \in {None, Old(LegacyDoc)}
    /\ \E drafts \in SUBSET (Inherited \ {Old(LegacyDoc)}) :
          rows = [s \in Snapshot |->
                    IF s = active THEN BuiltRow("active", TRUE)
                    ELSE IF s \in drafts THEN BuiltRow("ready", TRUE)
                    ELSE BuiltRow("absent", FALSE)]
    /\ clock = 0
    /\ pending = {} /\ bound = {}
    /\ copy = [d \in Doc |-> None]
    /\ replayed = FALSE

-----------------------------------------------------------------------------
(* Building.                                                               *)

\* build_snapshot returns the row as it is.
Reused(s) == \/ rows[s].status \in {"ready", "active"}
             \/ rows[s].status = "retired" /\ ~rows[s].collected

\* The managed generation that chunks can be copied from.
Generation == IF active = None THEN {} ELSE IF active.managed THEN {active} ELSE {}
\* Where the retrieval builder finds the chunks of a document.
HasText(d) ==
    \/ d \notin LegacyDoc
    \/ \E s \in Generation : d \in s.manifest
    \/ Generation = {} /\ legacyRows

Builds(s) == ~Reused(s) /\ \A d \in s.manifest : HasText(d)
WithReady(s) == [rows EXCEPT ![s] = BuiltRow("ready", TRUE)]

\* Those of this release that are ready or failed.
Drafts == {s \in WithStatus("ready") \cup WithStatus("failed") : s.managed}
\* create_snapshot: of the latest revisions, or of those the request names.
\* Whether it fails or not, the row is committed.  The builders run in a
\* savepoint; the projections survive a build that could not be announced.
BuildSnapshot(m) ==
    LET s == [manifest |-> m, epoch |-> epoch, managed |-> TRUE]
    IN  /\ m \subseteq Live /\ ~Reused(s)
        /\ Cardinality({s} \cup Drafts) <= MaxDrafts
        /\ \/ /\ Builds(s)
              /\ rows' = WithReady(s)
           \/ rows' = [rows EXCEPT ![s] = BuiltRow("failed", rows[s].whole)]
           \/ /\ Builds(s)
              /\ rows' = [rows EXCEPT ![s] = BuiltRow("failed", TRUE)]
        /\ UNCHANGED <<docs, epoch, withdrawnAt, legacyRows, active, clock, pending,
                       bound, copy, replayed>>

\* The review of an image takes the drafts that show it out of circulation.
Invalidated(r) == [r EXCEPT !.status = "failed"]
InvalidateDraft(s) ==
    /\ rows[s].status = "ready"
    /\ rows' = [rows EXCEPT ![s] = Invalidated(rows[s])]
    /\ UNCHANGED <<docs, epoch, withdrawnAt, legacyRows, active, clock, pending,
                   bound, copy, replayed>>

-----------------------------------------------------------------------------
(* Switching the active snapshot.                                          *)

\* Mutant: the boundary is not compared.
Fenced_Open(s, e) == s.manifest \subseteq Doc
\* The fence: the boundary is the one the snapshot was built in.
Fenced(s, e) == s.epoch = e /\ s.manifest \subseteq Live

Retire(r, now) == [r EXCEPT !.status = "retired", !.retiredAt = now]
Serve(r) == [r EXCEPT !.status = "active", !.retiredAt = 0]
Switched(table, s) ==
    [t \in Snapshot |-> IF t = s THEN Serve(table[t])
                        ELSE IF t = active THEN Retire(table[t], clock + 1) ELSE table[t]]

\* Mutant: a rollback does not start a collection.
Announce_ActivationOnly(op, kind, s) ==
    LET said == [op |-> op, kind |-> kind, from |-> active, to |-> s]
    IN  IF said \in bound \/ kind = "rolled_back"
        THEN /\ replayed' = (said \in bound)
             /\ UNCHANGED <<pending, bound>>
        ELSE /\ replayed' = FALSE
             /\ pending' = pending \cup {[at |-> clock + 1, from |-> active]}
             /\ bound' = IF op = Fresh THEN bound ELSE bound \cup {said}

\* The event is looked up by its idempotency key: one that is there must say the
\* same, and then none is written.
Announce(op, kind, s) ==
    LET said == [op |-> op, kind |-> kind, from |-> active, to |-> s]
    IN  IF said \in bound
        THEN /\ replayed' = TRUE
             /\ UNCHANGED <<pending, bound>>
        ELSE /\ ~\E b \in bound : b.op = op /\ b.kind = kind
             /\ replayed' = FALSE
             /\ pending' = pending \cup {[at |-> clock + 1, from |-> active]}
             /\ bound' = IF op = Fresh THEN bound ELSE bound \cup {said}

SwitchTo(table, s, op, kind) ==
    /\ clock + epoch < MaxChanges
    /\ rows' = Switched(table, s)
    /\ active' = s
    /\ clock' = clock + 1
    /\ Announce(op, kind, s)

ActivateSnapshot(s, op) ==
    /\ rows[s].status = "ready" /\ Fenced(s, epoch)
    /\ SwitchTo(rows, s, op, "activated")
    /\ UNCHANGED <<docs, epoch, withdrawnAt, legacyRows, copy>>

\* Mutant: projections may be gone.
RollbackSnapshot_Unchecked(s, op) ==
    /\ rows[s].status = "retired" /\ Fenced(s, epoch)
    /\ SwitchTo(rows, s, op, "rolled_back")
    /\ UNCHANGED <<docs, epoch, withdrawnAt, legacyRows, copy>>

RollbackSnapshot(s, op) ==
    /\ rows[s].status = "retired" /\ Fenced(s, epoch) /\ ~rows[s].collected
    /\ SwitchTo(rows, s, op, "rolled_back")
    /\ UNCHANGED <<docs, epoch, withdrawnAt, legacyRows, copy>>

-----------------------------------------------------------------------------
(* Withdrawals, and what else moves the boundary.                          *)

DeleteDocument(d) ==
    /\ docs[d] = "active" /\ epoch < MaxEpoch /\ clock + epoch < MaxChanges
    /\ docs' = [docs EXCEPT ![d] = "withdrawal_pending"]
    /\ epoch' = epoch + 1 /\ withdrawnAt' = epoch + 1
    /\ UNCHANGED <<legacyRows, rows, active, clock, pending, bound,
                   copy, replayed>>

\* merge_entities moves the boundary, and archive and restore do, once each: what
\* was built before can no longer be switched to, and nothing is built anew.
AdvanceEpoch ==
    /\ epoch < MaxEpoch /\ clock + epoch < MaxChanges
    /\ epoch' = epoch + 1
    /\ UNCHANGED <<docs, withdrawnAt, legacyRows, rows, active, clock, pending,
                   bound, copy, replayed>>

\* rebuild_after_document_tombstone loads the knowledge base ...
ReadKnowledgeBase(d) ==
    /\ docs[d] = "withdrawal_pending" /\ copy[d] = None
    /\ copy' = [copy EXCEPT ![d] = [epoch |-> epoch, active |-> active]]
    /\ UNCHANGED <<docs, epoch, withdrawnAt, legacyRows, rows, active, clock,
                   pending, bound, replayed>>

\* Mutant: the handler switches whatever the pointer has become.
RebuildAfterTombstone_Stale(d) ==
    LET s == [manifest |-> Live, epoch |-> copy[d].epoch, managed |-> TRUE]
    IN  /\ copy[d] # None
        /\ \/ /\ rows[s].status = "active"
              /\ UNCHANGED <<rows, active, clock, pending, bound, replayed>>
           \/ /\ rows[s].status = "ready"
              /\ SwitchTo(rows, s, Fresh, "activated")
           \/ /\ Builds(s)
              /\ SwitchTo(WithReady(s), s, Fresh, "activated")
        /\ docs' = [docs EXCEPT ![d] = "withdrawn"]
        /\ copy' = [copy EXCEPT ![d] = None]
        /\ UNCHANGED <<epoch, withdrawnAt, legacyRows>>

\* ... and the locking read that follows does not refresh what is loaded.
RebuildAfterTombstone(d) ==
    LET s == [manifest |-> Live, epoch |-> copy[d].epoch, managed |-> TRUE]
        current == copy[d].active = active
    IN  /\ copy[d] # None
        /\ \/ /\ rows[s].status = "active"
              /\ UNCHANGED <<rows, active, clock, pending, bound, replayed>>
           \/ /\ rows[s].status = "ready" /\ current
              /\ SwitchTo(rows, s, Fresh, "activated")
           \/ /\ Reused(s) /\ rows[s].status = "retired" /\ current
              /\ SwitchTo(rows, s, Fresh, "rolled_back")
           \/ /\ Builds(s) /\ current
              /\ SwitchTo(WithReady(s), s, Fresh, "activated")
        /\ docs' = [docs EXCEPT ![d] = "withdrawn"]
        /\ copy' = [copy EXCEPT ![d] = None]
        /\ UNCHANGED <<epoch, withdrawnAt, legacyRows>>

\* The handler fails and its transaction is rolled back: it is tried again.
RebuildFails(d) ==
    /\ copy[d] # None
    /\ copy' = [copy EXCEPT ![d] = None]
    /\ UNCHANGED <<docs, epoch, withdrawnAt, legacyRows, rows, active, clock,
                   pending, bound, replayed>>

-----------------------------------------------------------------------------
(* Collection of projections.                                              *)

\* Mutant: the event alone says what the pointer can go back to.
Window_EventOnly(e) == {active, e.from}
Window(e) == {active, e.from} \cup LatestRetired
Collectable(e) ==
    LET kept == Window(e) IN {s \in Retired : s \notin kept /\ ~rows[s].collected}
Emptied(r) == [r EXCEPT !.whole = FALSE, !.collected = TRUE]
\* Mutant: drafts are forgotten.
ReadsLegacy_WindowOnly(e) == {s \in Window(e) : s # None /\ ~s.managed}
\* Those that need the chunks of no snapshot: in the window, or activatable.
ReadsLegacy(e) ==
    {s \in Window(e) \cup WithStatus("ready") : s # None /\ ~s.managed}

\* gc_retired_snapshot_projections
CollectProjections(e) ==
    LET gone == Collectable(e)
    IN  /\ rows' = [s \in Snapshot |-> IF s \in gone THEN Emptied(rows[s]) ELSE rows[s]]
        /\ legacyRows' = (legacyRows /\ ReadsLegacy(e) # {})
        /\ pending' = pending \ {e}
        /\ UNCHANGED <<docs, epoch, withdrawnAt, active, clock, bound, copy, replayed>>

-----------------------------------------------------------------------------
Next ==
    \/ \E m \in Request \cup {Live} : BuildSnapshot(m)
    \/ \E s \in Snapshot : InvalidateDraft(s)
    \/ \E s \in Snapshot, op \in Operation \cup {Fresh} :
          ActivateSnapshot(s, op) \/ RollbackSnapshot(s, op)
    \/ \E d \in Doc : \/ DeleteDocument(d) \/ ReadKnowledgeBase(d)
                      \/ RebuildAfterTombstone(d) \/ RebuildFails(d)
    \/ AdvanceEpoch
    \/ \E e \in pending : CollectProjections(e)

Spec == Init /\ [][Next]_vars

-----------------------------------------------------------------------------
\* A snapshot that answers can be given from.
Usable(s) == rows[s].whole /\ ~rows[s].collected /\ (s.managed \/ legacyRows)

\* The pointer of the knowledge base and the one active row name the same
\* snapshot, and it has its projections and its chunks, whatever was collected,
\* rolled back to or built again in an old row (_switch_active_snapshot,
\* gc_retired_snapshot_projections).
ServedSnapshotIsUsable ==
    /\ WithStatus("active") = {active} \ {None}
    /\ active # None => Usable(active)

\* However late and in whatever order the events are handled, the projections of
\* the generation served last are kept: the operator can go back by one
\* (the "one-generation pointer rollback window" of projection_gc.py).
RollbackWindowIsKept == \A s \in LatestRetired : Usable(s)

\* As long as a snapshot of an earlier release may still be activated or rolled
\* back to, the chunks of no snapshot, which it reads, are not deleted
\* (the deferral in gc_retired_snapshot_projections).
LegacyChunksAreKept ==
    \A s \in Snapshot :
        Reused(s) /\ ~s.managed => legacyRows

\* Projections outside the window are deleted once the last switch's event is
\* handled: they do not pile up, unless that switch repeated an operation id, for
\* which no event is written (_emit_snapshot_event returns the old one).
GarbageIsCollected ==
    \/ \A s \in Retired \ LatestRetired : rows[s].collected
    \/ \E e \in pending : e.at = clock
    \/ replayed

\* When no withdrawal is left to publish, what is served was built after the last
\* one and shows live documents only, though each handler goes on with the epoch
\* it read before it had the lock, handlers of several withdrawals and operators
\* overlap, and the boundary also moves with nothing withdrawn
\* (rebuild_after_document_tombstone).
WithdrawalsSettle ==
    (withdrawnAt > 0 /\ \A d \in Doc : docs[d] # "withdrawal_pending")
        => active # None /\ active.epoch >= withdrawnAt /\ active.manifest \subseteq Live

\* A document whose withdrawal is complete is not served again: no draft, no
\* rollback and no belated handler brings it back (the document fence).
WithdrawnIsNotServed ==
    active # None => \A d \in active.manifest : docs[d] # "withdrawn"
=============================================================================
