--------------------------- MODULE SnapshotsProofs ---------------------------
(***************************************************************************)
(* The invariants of Snapshots for any number of documents, operations and *)
(* switches.  TypeOK and the rest of RowsInv speak of the rows and of what *)
(* a collection may take; WithdrawalsInv of the handlers that go on with an*)
(* old copy of the knowledge base; EventsInv of the event that collects.   *)
(***************************************************************************)
EXTENDS SnapshotRefinement, TLAPS

USE SnapshotAssumption, NoneAssumption

\* One row is served, rows that can be served have their projections, and the
\* collected ones are older than the latest retired one.
RowsInv ==
    /\ \A s \in Snapshot : rows[s].status = "active" <=> s = active
    /\ \A s \in Snapshot : Reused(s) => rows[s].whole
    /\ \A s \in Snapshot : rows[s].status \in {"ready", "active"} => ~rows[s].collected
    /\ \A s \in Retired : rows[s].retiredAt <= clock
    /\ \A s \in LatestRetired : ~rows[s].collected
    /\ active = None => Retired = {}
    /\ LegacyChunksAreKept

\* What is served was built after the last withdrawal, of live documents; or a
\* handler has still to read the boundary, or has read it since.
ServedSince == active # None /\ active.epoch >= withdrawnAt /\ active.manifest \subseteq Live
WillServe(d) ==
    docs[d] = "withdrawal_pending" /\ (copy[d] # None => copy[d].epoch >= withdrawnAt)

\* What is served and what handlers hold comes from the past, and a withdrawal
\* that is not yet served has a handler that will.
WithdrawalsInv ==
    /\ active # None => active.epoch <= epoch
    /\ \A d \in Doc : copy[d] # None =>
          /\ docs[d] = "withdrawal_pending"
          /\ copy[d].epoch <= epoch
          /\ copy[d].active # None => copy[d].active.epoch <= copy[d].epoch
    /\ WithdrawnIsNotServed
    /\ withdrawnAt <= epoch
    /\ withdrawnAt > 0 => ServedSince \/ \E d \in Doc : WillServe(d)

\* The event of the last switch names the latest retired snapshot.
EventsInv ==
    /\ \A e \in pending : e.at <= clock
    /\ \A e \in pending : e.at = clock /\ ~replayed =>
          e.from = None \/ e.from \in LatestRetired
    /\ GarbageIsCollected

Inv == TypeOK /\ RowsInv /\ WithdrawalsInv /\ EventsInv

-----------------------------------------------------------------------------
(* Rows and snapshots *)

LEMMA NewSnapshot ==
    ASSUME NEW m \in SUBSET Doc, NEW e \in 0..MaxEpoch
    PROVE  LET s == [manifest |-> m, epoch |-> e, managed |-> TRUE]
           IN  s \in Snapshot /\ s.manifest = m /\ s.epoch = e /\ s.managed
BY DEF Snapshot

LEMMA SnapshotFields ==
    ASSUME NEW s \in Snapshot
    PROVE  s.manifest \in SUBSET Doc /\ s.epoch \in 0..MaxEpoch
<1>1. CASE s \in [manifest : SUBSET Doc, epoch : 0..MaxEpoch, managed : {TRUE}]
  BY <1>1
<1>2. CASE s = Old(LegacyDoc)
  BY <1>2 DEF Old
<1>3. CASE s = Old({})
  BY <1>3 DEF Old
<1> QED
  BY <1>1, <1>2, <1>3 DEF Snapshot, Inherited

LEMMA BuiltRowFacts ==
    ASSUME NEW st \in Statuses, NEW w \in BOOLEAN
    PROVE  /\ BuiltRow(st, w) \in Row
           /\ BuiltRow(st, w).status = st
           /\ BuiltRow(st, w).whole = w
           /\ ~BuiltRow(st, w).collected
BY DEF BuiltRow, Row

LEMMA InvalidatedFacts ==
    ASSUME NEW r \in Row
    PROVE  /\ Invalidated(r) \in Row
           /\ Invalidated(r).status = "failed"
BY DEF Invalidated, Row, Statuses

LEMMA RetireFacts ==
    ASSUME NEW r \in Row, NEW now \in Nat
    PROVE  /\ Retire(r, now) \in Row
           /\ Retire(r, now).status = "retired"
           /\ Retire(r, now).retiredAt = now
           /\ Retire(r, now).whole = r.whole
           /\ Retire(r, now).collected = r.collected
<1>1. Retire(r, now) \in Row
  BY DEF Retire, Row, Statuses
<1>2. Retire(r, now).status = "retired" /\ Retire(r, now).retiredAt = now
  BY DEF Retire, Row
<1>3. Retire(r, now).whole = r.whole /\ Retire(r, now).collected = r.collected
  BY DEF Retire, Row
<1> QED
  BY <1>1, <1>2, <1>3

LEMMA ServeFacts ==
    ASSUME NEW r \in Row
    PROVE  /\ Serve(r) \in Row
           /\ Serve(r).status = "active"
           /\ Serve(r).whole = r.whole
           /\ Serve(r).collected = r.collected
<1>1. Serve(r) \in Row
  BY DEF Serve, Row, Statuses
<1>2. Serve(r).status = "active"
  BY DEF Serve, Row
<1>3. Serve(r).whole = r.whole /\ Serve(r).collected = r.collected
  BY DEF Serve, Row
<1> QED
  BY <1>1, <1>2, <1>3

LEMMA EmptiedFacts ==
    ASSUME NEW r \in Row
    PROVE  /\ Emptied(r) \in Row
           /\ Emptied(r).status = r.status
           /\ Emptied(r).retiredAt = r.retiredAt
           /\ Emptied(r).collected
<1>1. Emptied(r) \in Row
  BY DEF Emptied, Row
<1>2. Emptied(r).status = r.status /\ Emptied(r).retiredAt = r.retiredAt
  BY DEF Emptied, Row
<1>3. Emptied(r).collected
  BY DEF Emptied, Row
<1> QED
  BY <1>1, <1>2, <1>3

\* A row found to be built anew is not one that anything depends on.
LEMMA NotReused ==
    ASSUME TypeOK, RowsInv, NEW s \in Snapshot, ~Reused(s)
    PROVE  s # active /\ s \notin LatestRetired
BY DEF TypeOK, RowsInv, Reused, LatestRetired, Retired, WithStatus

-----------------------------------------------------------------------------
LEMMA InitInv == Init => Inv
<1> SUFFICES ASSUME Init PROVE Inv
  OBVIOUS
<1>1. Old(LegacyDoc) \in Snapshot /\ Inherited \subseteq Snapshot
  BY DEF Snapshot, Inherited
<1>2. Old(LegacyDoc).epoch = 0 /\ Old(LegacyDoc).manifest \subseteq Doc
  BY DEF Old
<1>3. PICK drafts \in SUBSET (Inherited \ {Old(LegacyDoc)}) :
          rows = [s \in Snapshot |->
                    IF s = active THEN BuiltRow("active", TRUE)
                    ELSE IF s \in drafts THEN BuiltRow("ready", TRUE)
                    ELSE BuiltRow("absent", FALSE)]
  BY DEF Init
<1>4. /\ BuiltRow("active", TRUE) \in Row /\ BuiltRow("active", TRUE).status = "active"
      /\ BuiltRow("active", TRUE).whole /\ ~BuiltRow("active", TRUE).collected
  BY BuiltRowFacts DEF Statuses
<1>5. /\ BuiltRow("ready", TRUE) \in Row /\ BuiltRow("ready", TRUE).status = "ready"
      /\ BuiltRow("ready", TRUE).whole /\ ~BuiltRow("ready", TRUE).collected
  BY BuiltRowFacts DEF Statuses
<1>6. BuiltRow("absent", FALSE) \in Row /\ BuiltRow("absent", FALSE).status = "absent"
  BY BuiltRowFacts DEF Statuses
<1> HIDE DEF Old, Inherited, Snapshot, Copy, BuiltRow, Row
<1>7. rows \in [Snapshot -> Row]
  BY <1>3, <1>4, <1>5, <1>6
<1>8. Retired = {} /\ LatestRetired = {}
  BY <1>3, <1>4, <1>5, <1>6 DEF Retired, LatestRetired, WithStatus
<1>9. TypeOK
  <2>1. docs \in [Doc -> {"active", "withdrawal_pending", "withdrawn"}]
    BY DEF Init
  <2>2. copy \in [Doc -> Copy \cup {None}]
    BY DEF Init
  <2>3. active \in Snapshot \cup {None}
    BY <1>1 DEF Init
  <2>4. epoch \in 0..MaxEpoch /\ clock \in Nat
    BY DEF Init
  <2> QED
    BY <1>7, <2>1, <2>2, <2>3, <2>4 DEF TypeOK, Init
<1>10. RowsInv
  <2>1. \A s \in Snapshot : rows[s].status = "active" <=> s = active
    BY <1>3, <1>4, <1>5, <1>6
  <2>2. \A s \in Snapshot : rows[s].status \in {"ready", "active"} =>
            rows[s].whole /\ ~rows[s].collected
    BY <1>3, <1>4, <1>5, <1>6
  <2>3. \A s \in Snapshot : rows[s].status # "retired"
    BY <1>8 DEF Retired, WithStatus
  <2>4. \A s \in Snapshot : Reused(s) => rows[s].whole
    BY <2>2, <2>3 DEF Reused
  <2>5. LegacyChunksAreKept
    BY DEF LegacyChunksAreKept, Init
  <2> QED
    BY <2>1, <2>2, <2>4, <2>5, <1>8 DEF RowsInv
<1>11. WithdrawalsInv
  BY <1>1, <1>2 DEF Init, WithdrawalsInv, WithdrawnIsNotServed
<1>12. EventsInv
  BY <1>8 DEF Init, EventsInv, GarbageIsCollected
<1> QED
  BY <1>9, <1>10, <1>11, <1>12 DEF Inv
-----------------------------------------------------------------------------
(* Switching.  "table" is the rows as the switch finds them: those of the  *)
(* state, or those with a snapshot that was built a moment ago.            *)

\* What the rows become.
LEMMA RowsAfterSwitch ==
    ASSUME TypeOK, NEW table \in [Snapshot -> Row], NEW s \in Snapshot, s # active,
           rows' = Switched(table, s)
    PROVE  /\ rows' \in [Snapshot -> Row]
           /\ rows'[s].status = "active" /\ rows'[s].whole = table[s].whole
           /\ rows'[s].collected = table[s].collected
           /\ active # None =>
                 /\ rows'[active].status = "retired" /\ rows'[active].retiredAt = clock + 1
                 /\ rows'[active].whole = table[active].whole
                 /\ rows'[active].collected = table[active].collected
           /\ \A t \in Snapshot \ {s, active} : rows'[t] = table[t]
<1>1. clock + 1 \in Nat /\ active \in Snapshot \cup {None}
  BY DEF TypeOK
<1>2. \A t \in Snapshot : table[t] \in Row
  OBVIOUS
<1>3. \A t \in Snapshot : Serve(table[t]) \in Row /\ Retire(table[t], clock + 1) \in Row
  BY <1>1, <1>2, ServeFacts, RetireFacts
<1>4. rows' \in [Snapshot -> Row]
  BY <1>2, <1>3 DEF Switched
<1>5. rows'[s] = Serve(table[s])
  BY DEF Switched
<1>6. active # None => rows'[active] = Retire(table[active], clock + 1)
  BY <1>1 DEF Switched
<1>7. \A t \in Snapshot \ {s, active} : rows'[t] = table[t]
  BY DEF Switched
<1>8. /\ Serve(table[s]).status = "active" /\ Serve(table[s]).whole = table[s].whole
      /\ Serve(table[s]).collected = table[s].collected
  BY <1>2, ServeFacts
<1>9. active # None =>
        /\ Retire(table[active], clock + 1).status = "retired"
        /\ Retire(table[active], clock + 1).retiredAt = clock + 1
        /\ Retire(table[active], clock + 1).whole = table[active].whole
        /\ Retire(table[active], clock + 1).collected = table[active].collected
  BY <1>1, <1>2, RetireFacts
<1> QED
  BY <1>4, <1>5, <1>6, <1>7, <1>8, <1>9

\* After a switch the pointer can go back to what was served before it.
LEMMA LatestAfterSwitch ==
    ASSUME TypeOK, RowsInv, NEW table \in [Snapshot -> Row], NEW s \in Snapshot, s # active,
           \A t \in Snapshot \ {s} : table[t] = rows[t],
           rows' = Switched(table, s)
    PROVE  /\ \A t \in Retired' : t = active \/ (t \in Retired /\ t # s)
           /\ LatestRetired' = {active} \ {None}
<1>1. /\ rows'[s].status = "active"
      /\ active # None => rows'[active].status = "retired" /\ rows'[active].retiredAt = clock + 1
      /\ \A t \in Snapshot \ {s, active} : rows'[t] = rows[t]
  BY RowsAfterSwitch
<1>2. active \in Snapshot \cup {None} /\ clock \in Nat /\ \A t \in Snapshot : rows[t].retiredAt \in Nat
  BY DEF TypeOK, Row
<1>3. \A t \in Retired' : t = active \/ (t \in Retired /\ t # s)
  BY <1>1 DEF Retired, WithStatus
<1>4. CASE active = None
  <2>1. Retired' = {}
    BY <1>2, <1>3, <1>4 DEF RowsInv, Retired, WithStatus
  <2> QED
    BY <1>3, <1>4, <2>1 DEF LatestRetired
<1>5. CASE active # None
  <2>1. active \in Retired'
    BY <1>1, <1>2, <1>5 DEF Retired, WithStatus
  <2>2. \A t \in Retired' : t # active => rows'[t].retiredAt \in Nat /\ rows'[t].retiredAt <= clock
    BY <1>1, <1>2, <1>3 DEF RowsInv, Retired, WithStatus
  <2>3. rows'[active].retiredAt = clock + 1
    BY <1>1, <1>5
  <2>4. active \in LatestRetired'
    BY <1>2, <2>1, <2>2, <2>3 DEF LatestRetired
  <2>5. \A t \in LatestRetired' : t = active
    BY <1>2, <2>1, <2>2, <2>3 DEF LatestRetired
  <2> QED
    BY <1>2, <1>3, <1>5, <2>4, <2>5
<1> QED
  BY <1>4, <1>5

LEMMA SwitchRows ==
    ASSUME TypeOK, RowsInv, NEW table \in [Snapshot -> Row], NEW s \in Snapshot, s # active,
           \A t \in Snapshot \ {s} : table[t] = rows[t],
           table[s].whole, ~table[s].collected, ~s.managed => legacyRows,
           rows' = Switched(table, s), active' = s, clock' = clock + 1,
           UNCHANGED legacyRows
    PROVE  RowsInv'
<1>1. /\ rows'[s].status = "active" /\ rows'[s].whole /\ ~rows'[s].collected
      /\ active # None =>
            /\ rows'[active].status = "retired" /\ rows'[active].retiredAt = clock + 1
            /\ rows'[active].whole = rows[active].whole
            /\ rows'[active].collected = rows[active].collected
      /\ \A t \in Snapshot \ {s, active} : rows'[t] = rows[t]
  BY RowsAfterSwitch DEF TypeOK
<1>2. active \in Snapshot \cup {None} /\ clock \in Nat /\ \A t \in Snapshot : rows[t].retiredAt \in Nat
  BY DEF TypeOK, Row
<1>3. active # None => /\ rows[active].status = "active" /\ ~rows[active].collected
                       /\ rows[active].whole
                       /\ ~active.managed => legacyRows
  BY <1>2 DEF RowsInv, Reused, LegacyChunksAreKept
<1>4. \A t \in Snapshot : rows'[t].status = "active" <=> t = s
  BY <1>1, <1>2 DEF RowsInv
<1>5. \A t \in Snapshot : Reused(t)' => rows'[t].whole /\ (~t.managed => legacyRows)
  BY <1>1, <1>2, <1>3 DEF RowsInv, Reused, LegacyChunksAreKept
<1>6. \A t \in Snapshot : rows'[t].status \in {"ready", "active"} => ~rows'[t].collected
  BY <1>1, <1>2, <1>3 DEF RowsInv
<1>7. /\ \A t \in Retired' : t = active \/ (t \in Retired /\ t # s)
      /\ LatestRetired' = {active} \ {None}
  BY LatestAfterSwitch
<1>8. \A t \in Retired' : rows'[t].retiredAt <= clock'
  BY <1>1, <1>2, <1>7 DEF RowsInv, Retired, WithStatus
<1>9. \A t \in LatestRetired' : ~rows'[t].collected
  BY <1>1, <1>2, <1>3, <1>7
<1>10. LegacyChunksAreKept'
  BY <1>5 DEF LegacyChunksAreKept
<1> QED
  BY <1>4, <1>5, <1>6, <1>8, <1>9, <1>10 DEF RowsInv
\* The event of a switch names what was served before it.
LEMMA SwitchEvents ==
    ASSUME Inv, NEW table \in [Snapshot -> Row], NEW s \in Snapshot, s # active,
           \A t \in Snapshot \ {s} : table[t] = rows[t],
           NEW op \in Operation \cup {Fresh}, NEW kind \in Transitions,
           SwitchTo(table, s, op, kind)
    PROVE  /\ EventsInv'
           /\ pending' \subseteq [at : Nat, from : Snapshot \cup {None}]
           /\ bound' \subseteq [op : Operation, kind : Transitions,
                              from : Snapshot \cup {None}, to : Snapshot]
           /\ replayed' \in BOOLEAN
<1> DEFINE said == [op |-> op, kind |-> kind, from |-> active, to |-> s]
           event == [at |-> clock + 1, from |-> active]
<1>1. /\ active \in Snapshot \cup {None} /\ clock \in Nat /\ clock' = clock + 1
      /\ pending \subseteq [at : Nat, from : Snapshot \cup {None}]
      /\ bound \subseteq [op : Operation, kind : Transitions,
                         from : Snapshot \cup {None}, to : Snapshot]
  BY DEF Inv, TypeOK, SwitchTo
<1>2. LatestRetired' = {active} \ {None}
  BY LatestAfterSwitch DEF Inv, SwitchTo
<1>3. \A e \in pending : e.at \in Nat /\ e.at <= clock
  BY <1>1 DEF Inv, EventsInv
<1>4. CASE said \in bound
  <2>1. replayed' = TRUE /\ pending' = pending /\ bound' = bound
    BY <1>4 DEF SwitchTo, Announce
  <2> QED
    BY <1>1, <1>3, <2>1 DEF EventsInv, GarbageIsCollected
<1>5. CASE said \notin bound
  <2>1. /\ replayed' = FALSE /\ pending' = pending \cup {event}
        /\ bound' = IF op = Fresh THEN bound ELSE bound \cup {said}
    BY <1>5 DEF SwitchTo, Announce
  <2>2. event \in [at : Nat, from : Snapshot \cup {None}] /\ event.at = clock + 1 /\ event.from = active
    BY <1>1
  <2>3. op # Fresh => said \in [op : Operation, kind : Transitions,
                               from : Snapshot \cup {None}, to : Snapshot]
    BY <1>1
  <2> HIDE DEF event, said
  <2>4. \A e \in pending' : e.at <= clock'
    BY <1>1, <1>3, <2>1, <2>2
  <2>5. \A e \in pending' : e.at = clock' => e.from = active
    BY <1>1, <1>3, <2>1, <2>2
  <2>6. \A e \in pending' : e.at = clock' /\ ~replayed' => e.from = None \/ e.from \in LatestRetired'
    BY <1>2, <2>5
  <2>7. GarbageIsCollected'
    BY <1>1, <2>1, <2>2 DEF GarbageIsCollected
  <2> QED
    BY <1>1, <2>1, <2>2, <2>3, <2>4, <2>6, <2>7 DEF EventsInv
<1> QED
  BY <1>4, <1>5

-----------------------------------------------------------------------------
(* Steps that leave the pointer alone.                                     *)

\* A row that nothing depends on is written: the retired rows are those of
\* before without it, the latest retired ones are the same.
LEMMA WriteFreeRow ==
    ASSUME Inv, NEW s \in Snapshot, NEW r \in Row,
           s # active, s \notin LatestRetired,
           rows[s].status = "retired" => rows[s].collected,
           r.status \in {"ready", "failed"},
           r.status = "ready" => r.whole /\ ~r.collected /\ s.managed,
           rows' = [rows EXCEPT ![s] = r],
           UNCHANGED <<legacyRows, active, clock, pending, replayed>>
    PROVE  RowsInv' /\ EventsInv'
<1>1. /\ rows'[s] = r /\ \A t \in Snapshot \ {s} : rows'[t] = rows[t]
      /\ \A t \in Snapshot : rows[t].retiredAt \in Nat
      /\ clock \in Nat
  BY DEF Inv, TypeOK, Row
<1>2. Retired' = Retired \ {s}
  BY <1>1 DEF Retired, WithStatus
<1>3. LatestRetired' = LatestRetired
  <2>1. \A t \in LatestRetired : t \in LatestRetired'
    BY <1>1, <1>2 DEF LatestRetired, Retired, WithStatus
  <2>2. ASSUME NEW t \in LatestRetired' PROVE t \in LatestRetired
    <3>1. t \in Retired \ {s} /\ \A u \in Retired \ {s} : rows[u].retiredAt <= rows[t].retiredAt
      BY <1>1, <1>2 DEF LatestRetired, Retired, WithStatus
    <3>2. CASE s \in Retired /\ rows[s].retiredAt > rows[t].retiredAt
      <4>1. \A u \in Retired : rows[u].retiredAt <= rows[s].retiredAt
        BY <1>1, <3>1, <3>2 DEF Retired, WithStatus
      <4> QED
        BY <3>2, <4>1 DEF LatestRetired
    <3>3. CASE ~(s \in Retired /\ rows[s].retiredAt > rows[t].retiredAt)
      BY <1>1, <3>1, <3>3 DEF LatestRetired, Retired, WithStatus
    <3> QED
      BY <3>2, <3>3
  <2> QED
    BY <2>1, <2>2
<1>4. RowsInv'
  <2>1. \A t \in Snapshot : rows'[t].status = "active" <=> t = active'
    BY <1>1 DEF Inv, RowsInv
  <2>2. \A t \in Snapshot : Reused(t)' => rows'[t].whole /\ (~t.managed => legacyRows')
    BY <1>1 DEF Inv, RowsInv, Reused, LegacyChunksAreKept
  <2>3. \A t \in Snapshot : rows'[t].status \in {"ready", "active"} => ~rows'[t].collected
    BY <1>1 DEF Inv, RowsInv
  <2>4. /\ \A t \in Retired' : rows'[t].retiredAt <= clock'
        /\ active' = None => Retired' = {}
    BY <1>1, <1>2 DEF Inv, RowsInv, Retired, WithStatus
  <2>5. \A t \in LatestRetired' : ~rows'[t].collected
    BY <1>1, <1>3 DEF Inv, RowsInv, LatestRetired, Retired, WithStatus
  <2>6. LegacyChunksAreKept'
    BY <2>2 DEF LegacyChunksAreKept
  <2> QED
    BY <2>1, <2>2, <2>3, <2>4, <2>5, <2>6 DEF RowsInv
<1>5. EventsInv'
  <2>1. GarbageIsCollected'
    <3>1. CASE \A t \in Retired \ LatestRetired : rows[t].collected
      BY <1>1, <1>2, <1>3, <3>1 DEF GarbageIsCollected, Retired, WithStatus
    <3>2. CASE (\E e \in pending : e.at = clock) \/ replayed
      BY <3>2 DEF GarbageIsCollected
    <3> QED
      BY <3>1, <3>2 DEF Inv, EventsInv, GarbageIsCollected
  <2>2. /\ \A e \in pending' : e.at <= clock'
        /\ \A e \in pending' : e.at = clock' /\ ~replayed' =>
              e.from = None \/ e.from \in LatestRetired'
    BY <1>3 DEF Inv, EventsInv
  <2> QED
    BY <2>1, <2>2 DEF EventsInv
<1> QED
  BY <1>4, <1>5

LEMMA CollectInv ==
    ASSUME Inv, NEW e \in pending, CollectProjections(e)
    PROVE  /\ rows' \in [Snapshot -> Row] /\ legacyRows' \in BOOLEAN
           /\ RowsInv' /\ EventsInv'
<1>1. /\ active' = active /\ clock' = clock /\ replayed' = replayed
      /\ pending' = pending \ {e}
  BY DEF CollectProjections
<1>2. /\ rows \in [Snapshot -> Row] /\ clock \in Nat /\ active \in Snapshot \cup {None}
      /\ \A t \in Snapshot : rows[t] \in Row /\ rows[t].retiredAt \in Nat
  BY DEF Inv, TypeOK, Row
<1>3. \A t \in Snapshot \ Collectable(e) : rows'[t] = rows[t]
  BY DEF CollectProjections
<1>4. \A t \in Collectable(e) :
        /\ t \in Snapshot /\ rows[t].status = "retired"
        /\ t \notin Window(e) /\ rows'[t] = Emptied(rows[t])
  BY DEF CollectProjections, Collectable, Retired, WithStatus
<1>5. \A t \in Snapshot :
        /\ rows'[t].status = rows[t].status
        /\ rows'[t].retiredAt = rows[t].retiredAt
        /\ rows[t].collected => rows'[t].collected
  BY <1>2, <1>3, <1>4, EmptiedFacts
<1>6. \A t \in Collectable(e) : rows'[t].collected
  BY <1>2, <1>4, EmptiedFacts
<1>7. rows' \in [Snapshot -> Row]
  BY <1>2, EmptiedFacts DEF CollectProjections
<1>8. Retired' = Retired /\ LatestRetired' = LatestRetired
  BY <1>5 DEF Retired, LatestRetired, WithStatus
<1>9. \A t \in Snapshot : Reused(t)' => Reused(t) /\ rows'[t] = rows[t]
  BY <1>3, <1>4, <1>5, <1>6 DEF Reused
<1>10. LegacyChunksAreKept'
  <2> SUFFICES ASSUME NEW t \in Snapshot, Reused(t)', ~t.managed PROVE legacyRows'
    BY DEF LegacyChunksAreKept
  <2>1. Reused(t) /\ rows'[t] = rows[t] /\ t \notin Collectable(e)
    BY <1>4, <1>6, <1>9 DEF Reused
  <2>2. legacyRows
    BY <2>1 DEF Inv, RowsInv, LegacyChunksAreKept
  <2>3. t \in Window(e) \cup WithStatus("ready")
    BY <2>1 DEF Reused, Collectable, Retired, WithStatus, Window, Inv, RowsInv
  <2>4. t \in ReadsLegacy(e)
    BY <2>3 DEF ReadsLegacy
  <2> QED
    BY <2>2, <2>4 DEF CollectProjections
<1>11. RowsInv'
  <2>1. \A t \in Snapshot : rows'[t].status = "active" <=> t = active'
    BY <1>1, <1>5 DEF Inv, RowsInv
  <2>2. \A t \in Snapshot : Reused(t)' => rows'[t].whole
    BY <1>9 DEF Inv, RowsInv
  <2>3. \A t \in Snapshot : rows'[t].status \in {"ready", "active"} => ~rows'[t].collected
    BY <1>3, <1>4, <1>5 DEF Inv, RowsInv
  <2>4. /\ \A t \in Retired' : rows'[t].retiredAt <= clock'
        /\ active' = None => Retired' = {}
    BY <1>1, <1>5, <1>8 DEF Inv, RowsInv, Retired, WithStatus
  <2>5. \A t \in LatestRetired : t \in Snapshot /\ t \in Window(e)
    BY DEF LatestRetired, Retired, WithStatus, Window
  <2>6. \A t \in LatestRetired' : ~rows'[t].collected
    BY <1>3, <1>4, <1>8, <2>5 DEF Inv, RowsInv
  <2> QED
    BY <1>10, <2>1, <2>2, <2>3, <2>4, <2>6 DEF RowsInv
<1>12. GarbageIsCollected'
  <2>1. CASE \A t \in Retired \ LatestRetired : rows[t].collected
    BY <1>5, <1>8, <2>1 DEF GarbageIsCollected, Retired, WithStatus
  <2>2. CASE replayed
    BY <1>1, <2>2 DEF GarbageIsCollected
  <2>3. CASE e.at # clock /\ \E f \in pending : f.at = clock
    BY <1>1, <2>3 DEF GarbageIsCollected
  <2>4. CASE e.at = clock /\ ~replayed
    <3>1. e.from = None \/ e.from \in LatestRetired
      BY <2>4 DEF Inv, EventsInv
    <3>2. \A t \in Retired : t \in Snapshot /\ t # active
      BY DEF Retired, WithStatus, Inv, RowsInv
    <3>3. \A t \in Retired \ LatestRetired : t \notin Window(e)
      BY <3>1, <3>2 DEF Window
    <3>4. \A t \in Retired \ LatestRetired : t \in Collectable(e) \/ rows[t].collected
      BY <3>3 DEF Collectable
    <3> QED
      BY <1>5, <1>6, <1>8, <3>2, <3>4 DEF GarbageIsCollected
  <2> QED
    BY <2>1, <2>2, <2>3, <2>4 DEF Inv, EventsInv, GarbageIsCollected
<1>13. EventsInv'
  BY <1>1, <1>8, <1>12 DEF Inv, EventsInv
<1> QED
  BY <1>7, <1>11, <1>13 DEF CollectProjections, Inv, TypeOK
-----------------------------------------------------------------------------
(* The steps, one by one.                                                  *)

\* Activation and rollback: the switched row is whole, inside the boundary.
LEMMA OperatorSwitchInv ==
    ASSUME Inv, NEW s \in Snapshot, Reused(s), s # active, Fenced(s, epoch),
           NEW op \in Operation \cup {Fresh}, NEW kind \in Transitions,
           SwitchTo(rows, s, op, kind),
           UNCHANGED <<docs, epoch, withdrawnAt, legacyRows, copy>>
    PROVE  Inv'
<1>1. /\ rows \in [Snapshot -> Row] /\ rows[s].whole /\ ~rows[s].collected
      /\ ~s.managed => legacyRows
  BY DEF Inv, TypeOK, RowsInv, Reused, LegacyChunksAreKept
<1>2. rows' = Switched(rows, s) /\ active' = s /\ clock' = clock + 1
  BY DEF SwitchTo
<1>3. RowsInv'
  BY <1>1, <1>2, SwitchRows DEF Inv
<1>4. /\ EventsInv'
      /\ pending' \subseteq [at : Nat, from : Snapshot \cup {None}]
      /\ bound' \subseteq [op : Operation, kind : Transitions,
                         from : Snapshot \cup {None}, to : Snapshot]
      /\ replayed' \in BOOLEAN
  BY <1>1, SwitchEvents
<1>5. rows' \in [Snapshot -> Row]
  BY <1>1, <1>2, RowsAfterSwitch DEF Inv
<1>6. TypeOK'
  BY <1>2, <1>4, <1>5 DEF Inv, TypeOK
<1>7. WithdrawalsInv'
  <2>1. /\ epoch \in Nat /\ withdrawnAt \in Nat /\ withdrawnAt <= epoch
        /\ s.epoch = epoch /\ s.manifest \subseteq Live
    BY DEF Inv, TypeOK, Fenced, WithdrawalsInv
  <2>2. WithdrawnIsNotServed'
    BY <1>2, <2>1 DEF WithdrawnIsNotServed, Live
  <2>3. ServedSince'
    BY <1>2, <2>1 DEF ServedSince, Live
  <2> QED
    BY <1>2, <2>1, <2>2, <2>3 DEF Inv, WithdrawalsInv
<1> QED
  BY <1>3, <1>4, <1>6, <1>7 DEF Inv

\* A handler switches to what it has just built or found.
LEMMA HandlerSwitchInv ==
    ASSUME Inv, NEW d \in Doc, copy[d] # None, copy[d].active = active,
           NEW s \in Snapshot, s # active, s.manifest = Live, s.epoch = copy[d].epoch,
           NEW table \in [Snapshot -> Row],
           \A t \in Snapshot \ {s} : table[t] = rows[t],
           table[s].whole, ~table[s].collected, ~s.managed => legacyRows,
           NEW kind \in Transitions, SwitchTo(table, s, Fresh, kind),
           docs' = [docs EXCEPT ![d] = "withdrawn"],
           copy' = [copy EXCEPT ![d] = None],
           UNCHANGED <<epoch, withdrawnAt, legacyRows>>
    PROVE  Inv'
<1>1. rows' = Switched(table, s) /\ active' = s /\ clock' = clock + 1
  BY DEF SwitchTo
<1>2. RowsInv'
  BY <1>1, SwitchRows DEF Inv
<1>3. /\ EventsInv'
      /\ pending' \subseteq [at : Nat, from : Snapshot \cup {None}]
      /\ bound' \subseteq [op : Operation, kind : Transitions,
                         from : Snapshot \cup {None}, to : Snapshot]
      /\ replayed' \in BOOLEAN
  BY SwitchEvents
<1>4. rows' \in [Snapshot -> Row]
  BY <1>1, RowsAfterSwitch DEF Inv
<1>5. TypeOK'
  BY <1>1, <1>3, <1>4 DEF Inv, TypeOK
<1>6. WithdrawalsInv'
  <2>1. /\ docs[d] = "withdrawal_pending" /\ copy[d].epoch <= epoch
        /\ active # None => active.epoch <= copy[d].epoch
    BY DEF Inv, WithdrawalsInv
  <2>2. Live' = Live
    BY <2>1 DEF Live, Inv, TypeOK
  <2>3. WithdrawnIsNotServed'
    BY <1>1, <2>2 DEF WithdrawnIsNotServed, Live
  <2>4. /\ epoch \in Nat /\ withdrawnAt \in Nat /\ withdrawnAt <= epoch
        /\ s.epoch \in Nat /\ s.epoch <= epoch
    BY <2>1, SnapshotFields DEF Inv, TypeOK, WithdrawalsInv
  <2>5. ASSUME withdrawnAt' > 0
        PROVE  ServedSince' \/ \E f \in Doc : WillServe(f)'
    <3>1. CASE copy[d].epoch >= withdrawnAt
      BY <1>1, <2>2, <3>1 DEF ServedSince
    <3>2. CASE ~(copy[d].epoch >= withdrawnAt)
      <4>1. ~ServedSince
        <5>1. active # None => active.epoch \in Nat
          BY SnapshotFields DEF Inv, TypeOK
        <5> QED
          BY <2>1, <2>4, <3>2, <5>1 DEF ServedSince
      <4>2. PICK f \in Doc : WillServe(f)
        BY <2>5, <4>1 DEF Inv, WithdrawalsInv
      <4>3. f # d
        BY <3>2, <4>2 DEF WillServe
      <4>4. docs'[f] = docs[f] /\ copy'[f] = copy[f]
        BY <4>3 DEF Inv, TypeOK
      <4> QED
        BY <4>2, <4>4 DEF WillServe
    <3> QED
      BY <3>1, <3>2
  <2>6. \A f \in Doc : copy'[f] # None =>
          /\ docs'[f] = "withdrawal_pending"
          /\ copy'[f].epoch <= epoch'
          /\ copy'[f].active # None => copy'[f].active.epoch <= copy'[f].epoch
    BY DEF Inv, WithdrawalsInv, TypeOK
  <2> QED
    BY <1>1, <2>3, <2>4, <2>5, <2>6 DEF WithdrawalsInv
<1> QED
  BY <1>2, <1>3, <1>5, <1>6 DEF Inv

LEMMA BuildInv ==
    ASSUME Inv, NEW m \in Request \cup {Live}, BuildSnapshot(m)
    PROVE  Inv'
<1> DEFINE s == [manifest |-> m, epoch |-> epoch, managed |-> TRUE]
<1>1. m \in SUBSET Doc /\ epoch \in 0..MaxEpoch /\ rows \in [Snapshot -> Row]
  BY DEF Live, Inv, TypeOK
<1>2. s \in Snapshot /\ s.managed
  BY <1>1, NewSnapshot
<1>3. /\ ~Reused(s)
      /\ \/ rows' = WithReady(s)
         \/ rows' = [rows EXCEPT ![s] = BuiltRow("failed", rows[s].whole)]
         \/ rows' = [rows EXCEPT ![s] = BuiltRow("failed", TRUE)]
      /\ UNCHANGED <<docs, epoch, withdrawnAt, legacyRows, active, clock, pending, bound, copy, replayed>>
  BY DEF BuildSnapshot
<1> HIDE DEF s
<1>4. PICK st \in {"ready", "failed"}, w \in BOOLEAN :
          /\ rows' = [rows EXCEPT ![s] = BuiltRow(st, w)]
          /\ st = "ready" => w
  <2>1. rows[s].whole \in BOOLEAN
    BY <1>1, <1>2 DEF Row
  <2> QED
    BY <1>3, <2>1 DEF WithReady
<1>5. /\ BuiltRow(st, w) \in Row /\ BuiltRow(st, w).status = st
      /\ BuiltRow(st, w).whole = w /\ ~BuiltRow(st, w).collected
  BY <1>4, BuiltRowFacts DEF Statuses
<1> DEFINE r == BuiltRow(st, w)
<1> HIDE DEF r
<1>6. /\ r \in Row /\ r.status \in {"ready", "failed"}
      /\ r.status = "ready" => r.whole /\ ~r.collected /\ s.managed
      /\ rows' = [rows EXCEPT ![s] = r]
  BY <1>2, <1>4, <1>5 DEF r
<1>7. s # active /\ s \notin LatestRetired /\ (rows[s].status = "retired" => rows[s].collected)
  <2>1. s # active /\ s \notin LatestRetired
    BY <1>2, <1>3, NotReused DEF Inv
  <2> QED
    BY <1>3, <2>1 DEF Reused
<1>8. RowsInv' /\ EventsInv'
  BY <1>2, <1>3, <1>6, <1>7, WriteFreeRow
<1>9. TypeOK'
  BY <1>1, <1>3, <1>6 DEF Inv, TypeOK
<1>10. WithdrawalsInv'
  BY <1>3 DEF Inv, WithdrawalsInv, WithdrawnIsNotServed, ServedSince, WillServe, Live
<1> QED
  BY <1>8, <1>9, <1>10 DEF Inv

LEMMA InvalidateInv ==
    ASSUME Inv, NEW s \in Snapshot, InvalidateDraft(s)
    PROVE  Inv'
<1>1. /\ rows[s].status = "ready" /\ rows \in [Snapshot -> Row]
      /\ rows' = [rows EXCEPT ![s] = Invalidated(rows[s])]
      /\ UNCHANGED <<docs, epoch, withdrawnAt, legacyRows, active, clock, pending, bound, copy, replayed>>
  BY DEF InvalidateDraft, Inv, TypeOK
<1>2. Invalidated(rows[s]) \in Row /\ Invalidated(rows[s]).status = "failed"
  BY <1>1, InvalidatedFacts
<1>3. s # active /\ s \notin LatestRetired
  BY <1>1 DEF Inv, RowsInv, LatestRetired, Retired, WithStatus
<1> DEFINE r == Invalidated(rows[s])
<1> HIDE DEF r
<1>4. r \in Row /\ r.status = "failed" /\ rows' = [rows EXCEPT ![s] = r]
  BY <1>1, <1>2 DEF r
<1>5. RowsInv' /\ EventsInv'
  BY <1>1, <1>3, <1>4, WriteFreeRow
<1>6. TypeOK'
  BY <1>1, <1>4 DEF Inv, TypeOK
<1>7. WithdrawalsInv'
  BY <1>1 DEF Inv, WithdrawalsInv, WithdrawnIsNotServed, ServedSince, WillServe, Live
<1> QED
  BY <1>5, <1>6, <1>7 DEF Inv
\* Steps that touch neither rows nor events.
LEMMA SameRows ==
    ASSUME Inv, UNCHANGED <<legacyRows, rows, active, clock, pending, bound, replayed>>
    PROVE  RowsInv' /\ EventsInv'
BY DEF Inv, RowsInv, EventsInv, LegacyChunksAreKept, GarbageIsCollected, Reused,
       LatestRetired, Retired, WithStatus

LEMMA DeleteInv ==
    ASSUME Inv, NEW d \in Doc, DeleteDocument(d)
    PROVE  Inv'
<1>1. /\ docs[d] = "active" /\ epoch < MaxEpoch /\ epoch \in 0..MaxEpoch
      /\ docs' = [docs EXCEPT ![d] = "withdrawal_pending"]
      /\ epoch' = epoch + 1 /\ withdrawnAt' = epoch + 1
      /\ UNCHANGED <<legacyRows, rows, active, clock, pending, bound, copy, replayed>>
  BY DEF DeleteDocument, Inv, TypeOK
<1>2. RowsInv' /\ EventsInv'
  BY <1>1, SameRows
<1>3. TypeOK'
  <2>1. docs' \in [Doc -> {"active", "withdrawal_pending", "withdrawn"}]
    BY <1>1 DEF Inv, TypeOK
  <2>2. epoch' \in 0..MaxEpoch /\ withdrawnAt' \in 0..MaxEpoch
    BY <1>1
  <2> QED
    BY <1>1, <2>1, <2>2 DEF Inv, TypeOK
<1>4. copy[d] = None
  BY <1>1 DEF Inv, WithdrawalsInv
<1>5. \A f \in Doc : docs'[f] = IF f = d THEN "withdrawal_pending" ELSE docs[f]
  BY <1>1 DEF Inv, TypeOK
<1>6. WithdrawalsInv'
  <2>1. WithdrawnIsNotServed'
    BY <1>1, <1>5, SnapshotFields DEF Inv, TypeOK, WithdrawalsInv, WithdrawnIsNotServed
  <2>2. active # None => active.epoch \in 0..MaxEpoch /\ active.epoch <= epoch
    BY SnapshotFields DEF Inv, TypeOK, WithdrawalsInv
  <2>3. active' # None => active'.epoch <= epoch'
    BY <1>1, <2>2
  <2>4. ASSUME NEW f \in Doc, copy[f] # None
        PROVE  /\ docs'[f] = "withdrawal_pending" /\ copy[f].epoch <= epoch'
               /\ copy[f].active # None => copy[f].active.epoch <= copy[f].epoch
    <3>1. copy[f].epoch \in 0..MaxEpoch
      BY <2>4 DEF Inv, TypeOK, Copy
    <3> QED
      BY <1>1, <1>5, <2>4, <3>1 DEF Inv, WithdrawalsInv
  <2>5. WillServe(d)' /\ withdrawnAt' <= epoch'
    BY <1>1, <1>4, <1>5 DEF WillServe
  <2> QED
    BY <1>1, <2>1, <2>3, <2>4, <2>5 DEF WithdrawalsInv
<1> QED
  BY <1>2, <1>3, <1>6 DEF Inv

\* The boundary moves and nothing else: what was built for the last withdrawal
\* stays what is served.
LEMMA AdvanceInv ==
    ASSUME Inv, AdvanceEpoch
    PROVE  Inv'
<1>1. /\ epoch < MaxEpoch /\ epoch \in 0..MaxEpoch /\ epoch' = epoch + 1
      /\ UNCHANGED <<docs, withdrawnAt, legacyRows, rows, active, clock, pending,
                     bound, copy, replayed>>
  BY DEF AdvanceEpoch, Inv, TypeOK
<1>2. RowsInv' /\ EventsInv'
  BY <1>1, SameRows
<1>3. TypeOK'
  BY <1>1 DEF Inv, TypeOK
<1>4. WithdrawalsInv'
  <2>1. active # None => active.epoch \in 0..MaxEpoch /\ active.epoch <= epoch
    BY SnapshotFields DEF Inv, TypeOK, WithdrawalsInv
  <2>2. ASSUME NEW f \in Doc, copy[f] # None
        PROVE  copy[f].epoch <= epoch'
    <3>1. copy[f].epoch \in 0..MaxEpoch /\ copy[f].epoch <= epoch
      BY <2>2 DEF Inv, TypeOK, Copy, WithdrawalsInv
    <3> QED
      BY <1>1, <3>1
  <2>3. withdrawnAt' <= epoch'
    BY <1>1 DEF Inv, TypeOK, WithdrawalsInv
  <2>4. WithdrawnIsNotServed'
    BY <1>1 DEF Inv, WithdrawalsInv, WithdrawnIsNotServed
  <2>5. withdrawnAt' > 0 => ServedSince' \/ \E d \in Doc : WillServe(d)'
    BY <1>1 DEF Inv, WithdrawalsInv, ServedSince, WillServe, Live
  <2> QED
    BY <1>1, <2>1, <2>2, <2>3, <2>4, <2>5 DEF Inv, WithdrawalsInv
<1> QED
  BY <1>2, <1>3, <1>4 DEF Inv

LEMMA ReadInv ==
    ASSUME Inv, NEW d \in Doc, ReadKnowledgeBase(d)
    PROVE  Inv'
<1> DEFINE c == [epoch |-> epoch, active |-> active]
<1>1. /\ docs[d] = "withdrawal_pending"
      /\ copy' = [copy EXCEPT ![d] = c]
      /\ UNCHANGED <<docs, epoch, withdrawnAt, legacyRows, rows, active, clock, pending, bound, replayed>>
  BY DEF ReadKnowledgeBase
<1>2. c \in Copy /\ c # None /\ c.epoch = epoch /\ c.active = active
  BY DEF Inv, TypeOK, Copy
<1> HIDE DEF c
<1>3. RowsInv' /\ EventsInv'
  BY <1>1, SameRows
<1>4. TypeOK'
  BY <1>1, <1>2 DEF Inv, TypeOK
<1>5. \A f \in Doc : copy'[f] = IF f = d THEN c ELSE copy[f]
  BY <1>1 DEF Inv, TypeOK
<1>6. WithdrawalsInv'
  <2>1. WithdrawnIsNotServed'
    BY <1>1 DEF Inv, WithdrawalsInv, WithdrawnIsNotServed
  <2>2. epoch \in Nat /\ withdrawnAt \in Nat /\ withdrawnAt <= epoch
    BY DEF Inv, TypeOK, WithdrawalsInv
  <2>3. \A f \in Doc : copy'[f] # None =>
          /\ docs'[f] = "withdrawal_pending"
          /\ copy'[f].epoch <= epoch'
          /\ copy'[f].active # None => copy'[f].active.epoch <= copy'[f].epoch
    BY <1>1, <1>2, <1>5, <2>2 DEF Inv, WithdrawalsInv
  <2>4. WillServe(d)'
    BY <1>1, <1>2, <1>5, <2>2 DEF WillServe
  <2> QED
    BY <1>1, <2>1, <2>3, <2>4 DEF Inv, WithdrawalsInv
<1> QED
  BY <1>3, <1>4, <1>6 DEF Inv

LEMMA FailInv ==
    ASSUME Inv, NEW d \in Doc, RebuildFails(d)
    PROVE  Inv'
<1>1. /\ copy[d] # None /\ copy' = [copy EXCEPT ![d] = None]
      /\ UNCHANGED <<docs, epoch, withdrawnAt, legacyRows, rows, active, clock, pending, bound, replayed>>
  BY DEF RebuildFails
<1>2. RowsInv' /\ EventsInv'
  BY <1>1, SameRows
<1>3. TypeOK'
  BY <1>1 DEF Inv, TypeOK
<1>4. \A f \in Doc : copy'[f] = IF f = d THEN None ELSE copy[f]
  BY <1>1 DEF Inv, TypeOK
<1>5. WithdrawalsInv'
  <2>1. WithdrawnIsNotServed'
    BY <1>1 DEF Inv, WithdrawalsInv, WithdrawnIsNotServed
  <2>2. docs'[d] = "withdrawal_pending" /\ copy'[d] = None
    BY <1>1, <1>4 DEF Inv, WithdrawalsInv
  <2>3. \A f \in Doc : copy'[f] # None => f # d /\ copy'[f] = copy[f]
    BY <1>4
  <2>4. WillServe(d)'
    BY <2>2 DEF WillServe
  <2> QED
    BY <1>1, <2>1, <2>3, <2>4 DEF Inv, WithdrawalsInv
<1> QED
  BY <1>2, <1>3, <1>5 DEF Inv

\* The snapshot of the handler is served already, and the withdrawal complete.
LEMMA AlreadyServedInv ==
    ASSUME Inv, NEW d \in Doc, copy[d] # None, active # None, active.manifest = Live,
           active.epoch = copy[d].epoch,
           docs' = [docs EXCEPT ![d] = "withdrawn"],
           copy' = [copy EXCEPT ![d] = None],
           UNCHANGED <<epoch, withdrawnAt, legacyRows, rows, active, clock, pending, bound, replayed>>
    PROVE  Inv'
<1>1. RowsInv' /\ EventsInv'
  BY SameRows
<1>2. TypeOK'
  BY DEF Inv, TypeOK
<1>3. docs[d] = "withdrawal_pending" /\ copy[d].epoch <= epoch
  BY DEF Inv, WithdrawalsInv
<1>4. Live' = Live
  BY <1>3 DEF Live, Inv, TypeOK
<1>5. \A f \in Doc \ {d} : copy'[f] = copy[f] /\ docs'[f] = docs[f]
  BY DEF Inv, TypeOK
<1>6. WithdrawalsInv'
  <2>1. WithdrawnIsNotServed'
    BY <1>4 DEF WithdrawnIsNotServed, Live
  <2>2. \A f \in Doc : copy'[f] # None => f # d
    BY DEF Inv, TypeOK
  <2>3. \A f \in Doc : copy'[f] # None =>
          /\ docs'[f] = "withdrawal_pending"
          /\ copy'[f].epoch <= epoch'
          /\ copy'[f].active # None => copy'[f].active.epoch <= copy'[f].epoch
    BY <1>5, <2>2 DEF Inv, WithdrawalsInv
  <2>4. ASSUME withdrawnAt' > 0
        PROVE  ServedSince' \/ \E f \in Doc : WillServe(f)'
    <3>1. CASE copy[d].epoch >= withdrawnAt
      BY <1>4, <3>1 DEF ServedSince
    <3>2. CASE ~(copy[d].epoch >= withdrawnAt)
      <4>1. PICK f \in Doc : WillServe(f)
        BY <2>4, <3>2 DEF Inv, WithdrawalsInv, ServedSince
      <4>2. f # d
        BY <3>2, <4>1 DEF WillServe
      <4> QED
        BY <1>5, <4>1, <4>2 DEF WillServe
    <3> QED
      BY <3>1, <3>2
  <2> QED
    BY <2>1, <2>3, <2>4 DEF Inv, WithdrawalsInv
<1> QED
  BY <1>1, <1>2, <1>6 DEF Inv

LEMMA RebuildInv ==
    ASSUME Inv, NEW d \in Doc, RebuildAfterTombstone(d)
    PROVE  Inv'
<1> DEFINE s == [manifest |-> Live, epoch |-> copy[d].epoch, managed |-> TRUE]
<1>1. /\ copy[d] # None
      /\ docs' = [docs EXCEPT ![d] = "withdrawn"]
      /\ copy' = [copy EXCEPT ![d] = None]
      /\ UNCHANGED <<epoch, withdrawnAt, legacyRows>>
  BY DEF RebuildAfterTombstone
<1>2. copy[d] \in Copy /\ copy[d].epoch \in 0..MaxEpoch /\ Live \in SUBSET Doc
  BY <1>1 DEF Inv, TypeOK, Copy, Live
<1>3. s \in Snapshot /\ s.manifest = Live /\ s.epoch = copy[d].epoch /\ s.managed
  BY <1>2, NewSnapshot
<1>4. rows \in [Snapshot -> Row]
  BY DEF Inv, TypeOK
<1>5. CASE rows[s].status = "active" /\ UNCHANGED <<rows, active, clock, pending, bound, replayed>>
  <2>1. s = active
    BY <1>3, <1>5 DEF Inv, RowsInv
  <2>2. active # None
    BY <1>3, <2>1
  <2> HIDE DEF s
  <2> QED
    BY <1>1, <1>3, <1>5, <2>1, <2>2, AlreadyServedInv
<1>6. ASSUME NEW kind \in Transitions, Reused(s), rows[s].status # "active",
             copy[d].active = active, SwitchTo(rows, s, Fresh, kind)
      PROVE  Inv'
  <2> HIDE DEF s
  <2>1. s # active
    BY <1>3, <1>6 DEF Inv, RowsInv
  <2>2. rows[s].whole /\ ~rows[s].collected
    BY <1>3, <1>6 DEF Inv, RowsInv, Reused
  <2> QED
    BY <1>1, <1>3, <1>4, <1>6, <2>1, <2>2, HandlerSwitchInv
<1>7. CASE /\ Builds(s) /\ copy[d].active = active
           /\ SwitchTo(WithReady(s), s, Fresh, "activated")
  <2> HIDE DEF s
  <2> DEFINE table == WithReady(s)
  <2>1. ~Reused(s)
    BY <1>7 DEF Builds
  <2>2. s # active
    BY <1>3, <2>1, NotReused DEF Inv
  <2>3. /\ BuiltRow("ready", TRUE) \in Row /\ BuiltRow("ready", TRUE).whole
        /\ ~BuiltRow("ready", TRUE).collected
    BY BuiltRowFacts DEF Statuses
  <2>4. /\ table \in [Snapshot -> Row] /\ table[s].whole /\ ~table[s].collected
        /\ \A t \in Snapshot \ {s} : table[t] = rows[t]
    BY <1>3, <1>4, <2>3 DEF WithReady
  <2>5. SwitchTo(table, s, Fresh, "activated") /\ copy[d].active = active /\ "activated" \in Transitions
    BY <1>7 DEF Transitions
  <2> HIDE DEF table
  <2> QED
    BY <1>1, <1>3, <2>2, <2>4, <2>5, HandlerSwitchInv
<1>8. \/ rows[s].status = "active" /\ UNCHANGED <<rows, active, clock, pending, bound, replayed>>
      \/ /\ rows[s].status = "ready" /\ copy[d].active = active
         /\ SwitchTo(rows, s, Fresh, "activated")
      \/ /\ Reused(s) /\ rows[s].status = "retired" /\ copy[d].active = active
         /\ SwitchTo(rows, s, Fresh, "rolled_back")
      \/ /\ Builds(s) /\ copy[d].active = active
         /\ SwitchTo(WithReady(s), s, Fresh, "activated")
  BY DEF RebuildAfterTombstone
<1> HIDE DEF s
<1>9. CASE /\ rows[s].status = "ready" /\ copy[d].active = active
           /\ SwitchTo(rows, s, Fresh, "activated")
  BY <1>6, <1>9 DEF Reused, Transitions
<1>10. CASE /\ Reused(s) /\ rows[s].status = "retired" /\ copy[d].active = active
            /\ SwitchTo(rows, s, Fresh, "rolled_back")
  BY <1>6, <1>10 DEF Transitions
<1> QED
  BY <1>5, <1>7, <1>8, <1>9, <1>10

LEMMA NextInv == Inv /\ [Next]_vars => Inv'
<1> SUFFICES ASSUME Inv, [Next]_vars PROVE Inv'
  OBVIOUS
<1>1. ASSUME NEW m \in Request \cup {Live}, BuildSnapshot(m) PROVE Inv'
  BY <1>1, BuildInv
<1>2. ASSUME NEW s \in Snapshot, InvalidateDraft(s) PROVE Inv'
  BY <1>2, InvalidateInv
<1>3. ASSUME NEW s \in Snapshot, NEW op \in Operation \cup {Fresh}, ActivateSnapshot(s, op)
      PROVE  Inv'
  <2>1. Reused(s) /\ s # active
    BY <1>3 DEF ActivateSnapshot, Reused, Inv, RowsInv
  <2>2. "activated" \in Transitions
    BY DEF Transitions
  <2> QED
    BY <1>3, <2>1, <2>2, OperatorSwitchInv DEF ActivateSnapshot
<1>4. ASSUME NEW s \in Snapshot, NEW op \in Operation \cup {Fresh}, RollbackSnapshot(s, op)
      PROVE  Inv'
  <2>1. Reused(s) /\ s # active
    BY <1>4 DEF RollbackSnapshot, Reused, Inv, RowsInv
  <2>2. "rolled_back" \in Transitions
    BY DEF Transitions
  <2> QED
    BY <1>4, <2>1, <2>2, OperatorSwitchInv DEF RollbackSnapshot
<1>5. ASSUME NEW d \in Doc,
             \/ DeleteDocument(d) \/ ReadKnowledgeBase(d)
             \/ RebuildAfterTombstone(d) \/ RebuildFails(d)
      PROVE  Inv'
  BY <1>5, DeleteInv, ReadInv, RebuildInv, FailInv
<1>6. ASSUME NEW e \in pending, CollectProjections(e) PROVE Inv'
  <2>1. /\ rows' \in [Snapshot -> Row] /\ legacyRows' \in BOOLEAN
        /\ RowsInv' /\ EventsInv'
    BY <1>6, CollectInv
  <2>2. /\ pending' \subseteq pending
        /\ UNCHANGED <<docs, epoch, withdrawnAt, active, clock, bound, copy, replayed>>
    BY <1>6 DEF CollectProjections
  <2>3. TypeOK'
    BY <2>1, <2>2 DEF Inv, TypeOK
  <2>4. WithdrawalsInv'
    BY <2>2 DEF Inv, WithdrawalsInv, WithdrawnIsNotServed, ServedSince, WillServe, Live
  <2> QED
    BY <2>1, <2>3, <2>4 DEF Inv
<1>7. CASE UNCHANGED vars
  <2>1. RowsInv' /\ EventsInv'
    BY <1>7, SameRows DEF vars
  <2>2. TypeOK'
    BY <1>7 DEF vars, Inv, TypeOK
  <2>3. WithdrawalsInv'
    BY <1>7 DEF vars, Inv, WithdrawalsInv, WithdrawnIsNotServed, ServedSince, WillServe, Live
  <2> QED
    BY <2>1, <2>2, <2>3 DEF Inv
<1>8. CASE AdvanceEpoch
  BY <1>8, AdvanceInv
<1> QED
  BY <1>1, <1>2, <1>3, <1>4, <1>5, <1>6, <1>7, <1>8 DEF Next

\* Inv holds of every reachable state (kb/snapshot.py, kb/projection_gc.py).
LEMMA InvHolds == Spec => []Inv
BY InitInv, NextInv, PTL DEF Spec

-----------------------------------------------------------------------------
\* The rows, the pointer and the events keep their types, whatever is built,
\* switched, withdrawn and collected (knowledge_snapshots).
THEOREM TypesHold == Spec => []TypeOK
<1>1. Inv => TypeOK
  BY DEF Inv
<1> QED
  BY <1>1, InvHolds, PTL

\* One row is served, the one the pointer names, with its projections and its
\* chunks (_switch_active_snapshot, gc_retired_snapshot_projections).
THEOREM ServedIsUsable == Spec => []ServedSnapshotIsUsable
<1>1. Inv => ServedSnapshotIsUsable
  BY DEF Inv, TypeOK, RowsInv, ServedSnapshotIsUsable, WithStatus, Usable, Reused,
         LegacyChunksAreKept
<1> QED
  BY <1>1, InvHolds, PTL

\* However late events are handled, the projections of the generation before
\* are there (gc_retired_snapshot_projections).
THEOREM WindowIsKept == Spec => []RollbackWindowIsKept
<1>1. Inv => RollbackWindowIsKept
  <2> SUFFICES ASSUME Inv, NEW s \in LatestRetired PROVE Usable(s)
    BY DEF RollbackWindowIsKept
  <2>1. s \in Snapshot /\ rows[s].status = "retired" /\ ~rows[s].collected
    BY DEF Inv, RowsInv, LatestRetired, Retired, WithStatus
  <2> QED
    BY <2>1 DEF Inv, RowsInv, Reused, Usable, LegacyChunksAreKept
<1> QED
  BY <1>1, InvHolds, PTL

\* The chunks of no snapshot outlive every snapshot that reads them and can be
\* served (gc_retired_snapshot_projections).
THEOREM LegacyIsKept == Spec => []LegacyChunksAreKept
<1>1. Inv => LegacyChunksAreKept
  BY DEF Inv, RowsInv
<1> QED
  BY <1>1, InvHolds, PTL

\* After the event of the last switch nothing outside the window has projections
\* (_emit_snapshot_event, gc_retired_snapshot_projections).
THEOREM GarbageGoes == Spec => []GarbageIsCollected
<1>1. Inv => GarbageIsCollected
  BY DEF Inv, EventsInv
<1> QED
  BY <1>1, InvHolds, PTL

\* Handlers that go on with an old copy leave a snapshot from after the last
\* withdrawal, for any number of overlapping withdrawals and of other changes of
\* the boundary (rebuild_after_document_tombstone).
THEOREM WithdrawalsAreSettled == Spec => []WithdrawalsSettle
<1>1. Inv => WithdrawalsSettle
  BY DEF Inv, WithdrawalsInv, WithdrawalsSettle, ServedSince, WillServe
<1> QED
  BY <1>1, InvHolds, PTL

\* A document whose withdrawal is complete is never served again
\* (_validate_snapshot_document_fence).
THEOREM WithdrawnStaysOut == Spec => []WithdrawnIsNotServed
<1>1. Inv => WithdrawnIsNotServed
  BY DEF Inv, WithdrawalsInv
<1> QED
  BY <1>1, InvHolds, PTL

-----------------------------------------------------------------------------
(* The contract of a withdrawal                                            *)

LEMMA InitWithdrawals == Init => Withdrawals!WInit
<1> SUFFICES ASSUME Init PROVE Withdrawals!WInit
  OBVIOUS
<1>1. Life = [d \in Doc |-> "live"]
  BY DEF Init, Life
<1>2. Visible \in SUBSET Doc
  BY DEF Init, Visible, Old
<1> QED
  BY <1>1, <1>2 DEF Withdrawals!WInit

LEMMA LiveIsLive == Withdrawals!Live = Live
BY DEF Withdrawals!Live, Life, Live

LEMMA SameWithdrawals ==
    ASSUME UNCHANGED <<docs, active>>
    PROVE  UNCHANGED Withdrawals!wvars
BY DEF Withdrawals!wvars, Life, Visible

\* A switch to a snapshot of live documents.
LEMMA SwitchShows ==
    ASSUME NEW table, NEW s \in Snapshot, NEW op, NEW kind,
           SwitchTo(table, s, op, kind), s.manifest \subseteq Live
    PROVE  Visible' \in SUBSET Withdrawals!Live
<1>1. active' = s /\ s # None
  BY DEF SwitchTo
<1> QED
  BY <1>1, LiveIsLive DEF Visible

\* An operator switches inside the fence; no document changes.
LEMMA OperatorShows ==
    ASSUME NEW s \in Snapshot, NEW op,
           ActivateSnapshot(s, op) \/ RollbackSnapshot(s, op)
    PROVE  Withdrawals!Show
<1>1. PICK kind \in Transitions : SwitchTo(rows, s, op, kind)
  BY DEF ActivateSnapshot, RollbackSnapshot, Transitions
<1>2. s.manifest \subseteq Live /\ UNCHANGED docs
  BY DEF ActivateSnapshot, RollbackSnapshot, Fenced
<1>3. Visible' \in SUBSET Withdrawals!Live
  BY <1>1, <1>2, SwitchShows
<1> QED
  BY <1>2, <1>3 DEF Withdrawals!Show, Life

LEMMA DeleteWithdraws ==
    ASSUME TypeOK, NEW d \in Doc, DeleteDocument(d)
    PROVE  Withdrawals!Withdraw(d)
<1>1. docs[d] = "active" /\ docs' = [docs EXCEPT ![d] = "withdrawal_pending"] /\ active' = active
  BY DEF DeleteDocument
<1>2. Life' = [Life EXCEPT ![d] = "leaving"]
  BY <1>1 DEF TypeOK, Life
<1> QED
  BY <1>1, <1>2 DEF Withdrawals!Withdraw, Life, Visible

\* The handler serves what is live, although it works on an old copy: it finds its
\* snapshot served already, or switches to it.
LEMMA RebuildFinishes ==
    ASSUME Inv, NEW d \in Doc, RebuildAfterTombstone(d)
    PROVE  Withdrawals!Finish(d)
<1> DEFINE s == [manifest |-> Live, epoch |-> copy[d].epoch, managed |-> TRUE]
<1>1. copy[d] # None /\ docs' = [docs EXCEPT ![d] = "withdrawn"]
  BY DEF RebuildAfterTombstone
<1>2. docs[d] = "withdrawal_pending"
  BY <1>1 DEF Inv, WithdrawalsInv
<1>3. copy[d].epoch \in 0..MaxEpoch /\ Live \in SUBSET Doc
  BY <1>1 DEF Inv, TypeOK, Copy, Live
<1>4. s \in Snapshot /\ s.manifest = Live
  BY <1>3, NewSnapshot
<1>5. \/ rows[s].status = "active" /\ active' = active
      \/ SwitchTo(rows, s, Fresh, "activated")
      \/ SwitchTo(rows, s, Fresh, "rolled_back")
      \/ SwitchTo(WithReady(s), s, Fresh, "activated")
  BY DEF RebuildAfterTombstone
<1> HIDE DEF s
<1>6. ASSUME rows[s].status = "active", active' = active
      PROVE  Visible' \in SUBSET Withdrawals!Live
  <2>1. active = s /\ s # None
    BY <1>4, <1>6 DEF Inv, RowsInv
  <2> QED
    BY <1>4, <1>6, <2>1, LiveIsLive DEF Visible
<1>7. Visible' \in SUBSET Withdrawals!Live
  BY <1>4, <1>5, <1>6, SwitchShows
<1>8. Life' = [Life EXCEPT ![d] = "gone"] /\ Life[d] = "leaving"
  BY <1>1, <1>2 DEF Inv, TypeOK, Life
<1> QED
  BY <1>7, <1>8 DEF Withdrawals!Finish

LEMMA StepWithdrawals ==
    ASSUME Inv, [Next]_vars
    PROVE  [Withdrawals!WNext]_(Withdrawals!wvars)
<1>1. ASSUME NEW s \in Snapshot, NEW op \in Operation \cup {Fresh},
             ActivateSnapshot(s, op) \/ RollbackSnapshot(s, op)
      PROVE  Withdrawals!WNext
  BY <1>1, OperatorShows DEF Withdrawals!WNext
<1>2. ASSUME NEW d \in Doc, DeleteDocument(d) \/ RebuildAfterTombstone(d)
      PROVE  Withdrawals!WNext
  BY <1>2, DeleteWithdraws, RebuildFinishes DEF Withdrawals!WNext, Inv
<1>3. CASE \/ \E m \in Request \cup {Live} : BuildSnapshot(m)
           \/ \E s \in Snapshot : InvalidateDraft(s)
           \/ \E d \in Doc : ReadKnowledgeBase(d) \/ RebuildFails(d)
           \/ AdvanceEpoch
           \/ \E e \in pending : CollectProjections(e)
           \/ UNCHANGED vars
  <2>1. UNCHANGED <<docs, active>>
    BY <1>3 DEF BuildSnapshot, InvalidateDraft, ReadKnowledgeBase, RebuildFails,
                AdvanceEpoch, CollectProjections, vars
  <2> QED
    BY <2>1, SameWithdrawals
<1> QED
  BY <1>1, <1>2, <1>3 DEF Next

\* Activations, rollbacks and the rebuilds of overlapping withdrawals keep the
\* contract of a withdrawal (_switch_active_snapshot,
\* rebuild_after_document_tombstone).
THEOREM SwitchesKeepWithdrawals == Spec => KeepsWithdrawals
<1> QED
  BY InvHolds, InitWithdrawals, StepWithdrawals, PTL
     DEF Spec, KeepsWithdrawals, Withdrawals!WSpec
=============================================================================
