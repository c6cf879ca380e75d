---------------------------- MODULE IcronProofs ----------------------------
(***************************************************************************)
(* That a due time is claimed once, for any number of tasks, organizations,*)
(* tickers and requests in flight.  The compare-and-set compares times, and*)
(* the argument is that a time never comes back: whoever rewrites it writes*)
(* a later one than any that a ticker has read as due (ReadingsAreDue).    *)
(***************************************************************************)
EXTENDS Icron, TLAPS

USE ScheduleAssumption

Times == 0..(MaxTime + Period)

\* What a ticker has read and not yet claimed was due, and the task still has
\* that time, or none, or a later one.
ReadingsAreDue ==
    \A k \in Ticker, t \in Task : seen[k][t].next # 0 =>
        /\ ticker[k].phase = "working"
        /\ seen[k][t].next <= ticker[k].moment
        /\ t \notin outdated[k] => row[t].next = seen[k][t].next
        /\ t \in outdated[k] => row[t].next = 0 \/ row[t].next > seen[k][t].next

Inv == TypeOK /\ ReadingsAreDue

-----------------------------------------------------------------------------
(* Times and rows *)

LEMMA NextRunsAreLater ==
    ASSUME NEW r, r.kind \in ScheduleKinds, r.kind = "once" => r.runAt \in 0..MaxTime,
           NEW moment \in 0..MaxTime, NEW n \in NextRuns(r, moment)
    PROVE  n \in Times /\ (n = 0 \/ n > moment)
BY DEF NextRuns, ScheduleKinds, Times

\* What the actions make of a row is a row.
LEMMA ScheduledIsRow ==
    ASSUME NEW r \in Rows, NEW k \in ScheduleKinds, NEW at \in 0..MaxTime
    PROVE  /\ Scheduled(r, k, at) \in Rows
           /\ Scheduled(r, k, at).kind = k
           /\ Scheduled(r, k, at).runAt = at
<1>1. Scheduled(r, k, at) \in Rows
  BY DEF Scheduled, Rows
<1>2. Scheduled(r, k, at).kind = k /\ Scheduled(r, k, at).runAt = at
  BY DEF Scheduled, Rows
<1> QED
  BY <1>1, <1>2

LEMMA TimedIsRow ==
    ASSUME NEW r \in Rows, NEW s \in Statuses, NEW n \in Times
    PROVE  Timed(r, s, n) \in Rows /\ Timed(r, s, n).next = n
<1>1. Timed(r, s, n) \in Rows
  BY DEF Timed, Rows, Times
<1>2. Timed(r, s, n).next = n
  BY DEF Timed, Rows
<1> QED
  BY <1>1, <1>2

LEMMA StatusNames == {"absent", "active", "paused", "archived", "deleted"} \subseteq Statuses
BY DEF Statuses

LEMMA InitInv == Init => Inv
<1> SUFFICES ASSUME Init PROVE Inv
  OBVIOUS
<1>1. row \in [Task -> Rows]
  BY DEF Init, Rows, Statuses, ScheduleKinds
<1>2. ticker \in [Ticker -> Tickers] /\ \A k \in Ticker : ticker[k].moment <= clock
  BY DEF Init, Idle, Tickers, Phases
<1>3. seen \in [Ticker -> [Task -> Readings]] /\ \A k \in Ticker, t \in Task : seen[k][t].next = 0
  BY DEF Init, Nothing, NoReading, Readings, ScheduleKinds
<1>4. TypeOK
  BY <1>1, <1>2, <1>3 DEF Init, TypeOK
<1> QED
  BY <1>3, <1>4 DEF Inv, ReadingsAreDue

\* A row may be written with its old time, none, or one later than what is due.
LEMMA WriteRowInv ==
    ASSUME Inv, NEW t \in Task, NEW r \in Rows, WriteRow(t, r),
           \/ r.next \in {0, row[t].next}
           \/ \A k \in Ticker : seen[k][t].next # 0 => r.next > seen[k][t].next
    PROVE  /\ row' \in [Task -> Rows]
           /\ outdated' \in [Ticker -> SUBSET Task]
           /\ \A k \in Ticker, u \in Task : seen[k][u].next # 0 =>
                /\ u \notin outdated'[k] => row'[u].next = seen[k][u].next
                /\ u \in outdated'[k] => row'[u].next = 0 \/ row'[u].next > seen[k][u].next
<1> USE DEF Inv, TypeOK
<1>1. row' \in [Task -> Rows]
  BY DEF WriteRow
<1>2. outdated' \in [Ticker -> SUBSET Task]
  BY DEF WriteRow
<1>3. ASSUME NEW k \in Ticker, NEW u \in Task, seen[k][u].next # 0
      PROVE  /\ u \notin outdated'[k] => row'[u].next = seen[k][u].next
             /\ u \in outdated'[k] => row'[u].next = 0 \/ row'[u].next > seen[k][u].next
  <2>1. CASE u # t
    BY <1>3, <2>1 DEF WriteRow, ReadingsAreDue
  <2>2. CASE u = t
    <3>1. row'[t] = r /\ r.next \in Nat /\ row[t].next \in Nat /\ seen[k][t].next \in Nat
      BY DEF WriteRow, Rows, Readings
    <3>2. outdated'[k] = IF r.next # row[t].next THEN outdated[k] \cup {t} ELSE outdated[k]
      BY <1>3, <2>2 DEF WriteRow
    <3> QED
      BY <1>3, <2>2, <3>1, <3>2 DEF ReadingsAreDue
  <2> QED
    BY <2>1, <2>2
<1> QED
  BY <1>1, <1>2, <1>3

\* A time computed now is later than anything a ticker has read as due.
LEMMA NowIsLater ==
    ASSUME Inv, NEW t \in Task, NEW n \in Times, n > clock
    PROVE  \A k \in Ticker : seen[k][t].next # 0 => n > seen[k][t].next
BY DEF Inv, TypeOK, ReadingsAreDue, Times, Readings, Tickers

-----------------------------------------------------------------------------
(* Requests *)

\* Nothing but rows is written.
LEMMA RequestInv ==
    ASSUME Inv, NEW t \in Task, NEW r \in Rows, WriteRow(t, r),
           UNCHANGED <<clock, ticker, seen, refused>>,
           request' \in [Client -> {NoRequest} \cup [task : Task, read : Rows]],
           r.next \in {0, row[t].next} \/ r.next > clock
    PROVE  Inv'
<1>1. r.next \in Times
  BY DEF Rows, Times
<1>2. \/ r.next \in {0, row[t].next}
      \/ \A k \in Ticker : seen[k][t].next # 0 => r.next > seen[k][t].next
  BY <1>1, NowIsLater
<1>3. /\ row' \in [Task -> Rows]
      /\ outdated' \in [Ticker -> SUBSET Task]
      /\ \A k \in Ticker, u \in Task : seen[k][u].next # 0 =>
           /\ u \notin outdated'[k] => row'[u].next = seen[k][u].next
           /\ u \in outdated'[k] => row'[u].next = 0 \/ row'[u].next > seen[k][u].next
  BY <1>2, WriteRowInv
<1>4. TypeOK'
  BY <1>3 DEF Inv, TypeOK
<1>5. ReadingsAreDue'
  BY <1>3 DEF Inv, ReadingsAreDue
<1> QED
  BY <1>4, <1>5 DEF Inv

LEMMA AnswerTypes ==
    ASSUME Inv, NEW c \in Client, Answer(c)
    PROVE  request' \in [Client -> {NoRequest} \cup [task : Task, read : Rows]]
BY DEF Answer, Inv, TypeOK

LEMMA CreateTaskInv == ASSUME Inv, NEW t \in Task, CreateTask(t) PROVE Inv'
<1>1. PICK k \in ScheduleKinds, at \in 0..MaxTime :
        \E n \in NextRuns(Scheduled(row[t], k, at), clock) :
          WriteRow(t, Timed(Scheduled(row[t], k, at), "active", n))
  BY DEF CreateTask
<1> DEFINE r == Scheduled(row[t], k, at)
<1>2. PICK n \in NextRuns(r, clock) : WriteRow(t, Timed(r, "active", n))
  BY <1>1
<1>3. row[t] \in Rows /\ clock \in 0..MaxTime
  BY DEF Inv, TypeOK
<1>4. r \in Rows /\ r.kind = k /\ r.runAt = at
  BY <1>3, ScheduledIsRow
<1> HIDE DEF r
<1>5. n \in Times /\ (n = 0 \/ n > clock)
  BY <1>3, <1>4, NextRunsAreLater
<1>6. Timed(r, "active", n) \in Rows /\ Timed(r, "active", n).next = n
  BY <1>4, <1>5, TimedIsRow, StatusNames
<1>7. UNCHANGED <<clock, ticker, seen, refused, request>>
  BY DEF CreateTask
<1>8. request' \in [Client -> {NoRequest} \cup [task : Task, read : Rows]]
  BY <1>7 DEF Inv, TypeOK
<1> QED
  BY <1>2, <1>5, <1>6, <1>7, <1>8, RequestInv

\* What is flushed of a copy with a time computed now.
LEMMA FlushInv ==
    ASSUME Inv, NEW c \in Client, Answer(c), NEW t \in Task,
           NEW old \in Rows, NEW new \in Rows, Flush(t, old, new),
           new.next = 0 \/ new.next > clock,
           UNCHANGED <<clock, ticker, seen, refused>>
    PROVE  Inv'
<1> DEFINE r == [status |-> IF new.status # old.status THEN new.status ELSE row[t].status,
                 kind |-> IF new.kind # old.kind THEN new.kind ELSE row[t].kind,
                 runAt |-> IF new.runAt # old.runAt THEN new.runAt ELSE row[t].runAt,
                 next |-> IF new.next # old.next THEN new.next ELSE row[t].next,
                 org |-> row[t].org]
<1>1. row[t] \in Rows
  BY DEF Inv, TypeOK
<1>2. r \in Rows
  BY <1>1 DEF Rows
<1>3. r.next \in {new.next, row[t].next}
  OBVIOUS
<1>4. WriteRow(t, r)
  BY DEF Flush
<1>5. request' \in [Client -> {NoRequest} \cup [task : Task, read : Rows]]
  BY AnswerTypes
<1> HIDE DEF r
<1> QED
  BY <1>2, <1>3, <1>4, <1>5, RequestInv

LEMMA RequestReads ==
    ASSUME Inv, NEW c \in Client, request[c] # NoRequest
    PROVE  request[c].task \in Task /\ request[c].read \in Rows
BY DEF Inv, TypeOK

LEMMA UpdateTaskInv == ASSUME Inv, NEW c \in Client, UpdateTask(c) PROVE Inv'
<1> DEFINE t == request[c].task
           old == request[c].read
<1>1. t \in Task /\ old \in Rows
  BY RequestReads DEF UpdateTask
<1> HIDE DEF t, old
<1>2. PICK k \in ScheduleKinds, at \in 0..MaxTime :
        \E n \in IF old.status = "active" THEN NextRuns(Scheduled(old, k, at), clock) ELSE {0} :
          Flush(t, old, Timed(Scheduled(old, k, at), old.status, n))
  BY DEF UpdateTask, t, old
<1> DEFINE r == Scheduled(old, k, at)
<1>3. PICK n \in IF old.status = "active" THEN NextRuns(r, clock) ELSE {0} :
        Flush(t, old, Timed(r, old.status, n))
  BY <1>2
<1>4. r \in Rows /\ r.kind = k /\ r.runAt = at
  BY <1>1, ScheduledIsRow
<1> HIDE DEF r
<1>5. clock \in 0..MaxTime /\ old.status \in Statuses
  BY <1>1 DEF Inv, TypeOK, Rows
<1>6. n \in Times /\ (n = 0 \/ n > clock)
  <2>1. CASE n \in NextRuns(r, clock)
    BY <1>4, <1>5, <2>1, NextRunsAreLater
  <2>2. CASE n = 0
    BY <2>2 DEF Times
  <2> QED
    BY <1>3, <2>1, <2>2
<1>7. Timed(r, old.status, n) \in Rows /\ Timed(r, old.status, n).next = n
  BY <1>4, <1>5, <1>6, TimedIsRow
<1>8. UNCHANGED <<clock, ticker, seen, refused>> /\ Answer(c)
  BY DEF UpdateTask
<1> QED
  BY <1>1, <1>3, <1>6, <1>7, <1>8, FlushInv

LEMMA SetStatusInv == ASSUME Inv, NEW c \in Client, SetStatus(c) PROVE Inv'
<1> DEFINE t == request[c].task
           old == request[c].read
<1>1. t \in Task /\ old \in Rows
  BY RequestReads DEF SetStatus
<1> HIDE DEF t, old
<1>21. PICK s \in {"active", "paused", "archived"} :
        \E n \in IF s = "active" THEN NextRuns(old, clock) ELSE {0} :
          Flush(t, old, Timed(old, s, n))
  BY DEF SetStatus, t, old
<1>2. PICK n \in IF s = "active" THEN NextRuns(old, clock) ELSE {0} :
        Flush(t, old, Timed(old, s, n))
  BY <1>21
<1>3. n \in Times /\ (n = 0 \/ n > clock)
  <2>1. CASE n \in NextRuns(old, clock)
    <3>1. old.kind \in ScheduleKinds /\ old.runAt \in 0..MaxTime
      BY <1>1 DEF Rows
    <3> QED
      BY <2>1, <3>1, NextRunsAreLater DEF Inv, TypeOK
  <2>2. CASE n = 0
    BY <2>2 DEF Times
  <2> QED
    BY <1>2, <2>1, <2>2
<1>4. s \in Statuses
  BY StatusNames
<1>5. Timed(old, s, n) \in Rows /\ Timed(old, s, n).next = n
  BY <1>1, <1>3, <1>4, TimedIsRow
<1>6. UNCHANGED <<clock, ticker, seen, refused>> /\ Answer(c)
  BY DEF SetStatus
<1> QED
  BY <1>1, <1>2, <1>3, <1>5, <1>6, FlushInv

LEMMA DeleteTaskInv == ASSUME Inv, NEW c \in Client, DeleteTask(c) PROVE Inv'
<1> DEFINE t == request[c].task
           r == Timed(Scheduled(row[t], "manual", 0), "deleted", 0)
<1>1. t \in Task
  BY RequestReads DEF DeleteTask
<1>2. row[t] \in Rows
  BY <1>1 DEF Inv, TypeOK
<1>3. "manual" \in ScheduleKinds /\ 0 \in 0..MaxTime /\ 0 \in Times /\ "deleted" \in Statuses
  BY DEF ScheduleKinds, Times, Statuses
<1>4. Scheduled(row[t], "manual", 0) \in Rows
  BY <1>2, <1>3, ScheduledIsRow
<1>5. r \in Rows /\ r.next = 0
  BY <1>3, <1>4, TimedIsRow
<1>6. WriteRow(t, r) /\ Answer(c) /\ UNCHANGED <<clock, ticker, seen, refused>>
  BY DEF DeleteTask
<1> HIDE DEF t, r
<1> QED
  BY <1>1, <1>5, <1>6, AnswerTypes, RequestInv

LEMMA ReadTaskInv == ASSUME Inv, NEW c \in Client, ReadTask(c) \/ Refuse(c) PROVE Inv'
<1>1. request' \in [Client -> {NoRequest} \cup [task : Task, read : Rows]]
  BY AnswerTypes DEF ReadTask, Refuse, Inv, TypeOK
<1>2. UNCHANGED <<clock, row, ticker, seen, outdated, refused>>
  BY DEF ReadTask, Refuse
<1> QED
  BY <1>1, <1>2 DEF Inv, TypeOK, ReadingsAreDue

-----------------------------------------------------------------------------
(* Tickers *)

LEMMA NothingTypes == Nothing \in [Task -> Readings] /\ \A t \in Task : Nothing[t].next = 0
<1>1. NoReading \in Readings /\ NoReading.next = 0
  BY DEF NoReading, Readings, ScheduleKinds
<1> QED
  BY <1>1 DEF Nothing

LEMMA Forgotten ==
    ASSUME Inv, NEW k \in Ticker, Forget(k)
    PROVE  \A t \in Task : seen'[k][t].next = 0
BY NothingTypes DEF Forget, Inv, TypeOK

\* A ticker that keeps no reading may do as it likes with the rest of its round.
LEMMA TickerInv ==
    ASSUME Inv, NEW k \in Ticker, NEW r \in Tickers, SetTicker(k, r), r.moment <= clock,
           UNCHANGED <<clock, row, outdated, request>>,
           refused' \in SUBSET Task,
           seen' = seen \/ Forget(k),
           \A t \in Task : seen'[k][t].next = 0
    PROVE  Inv'
<1>1. seen' \in [Ticker -> [Task -> Readings]]
      /\ \A j \in Ticker : j # k => seen'[j] = seen[j]
  BY NothingTypes DEF Forget, Inv, TypeOK
<1>2. /\ ticker' \in [Ticker -> Tickers]
      /\ \A j \in Ticker : ticker'[j].moment <= clock
      /\ \A j \in Ticker : j # k => ticker'[j] = ticker[j]
  BY DEF SetTicker, Inv, TypeOK
<1>3. TypeOK'
  BY <1>1, <1>2 DEF Inv, TypeOK
<1>4. ReadingsAreDue'
  BY <1>1, <1>2 DEF ReadingsAreDue, Inv
<1> QED
  BY <1>3, <1>4 DEF Inv

LEMMA NothingRead ==
    ASSUME Inv, NEW k \in Ticker, seen[k] = Nothing \/ ticker[k].phase # "working"
    PROVE  \A t \in Task : seen[k][t].next = 0
BY NothingTypes DEF Inv, ReadingsAreDue

LEMMA IdleTypes == Idle \in Tickers /\ Idle.moment = 0
BY DEF Idle, Tickers, Phases

LEMMA StartRoundInv == ASSUME Inv, NEW k \in Ticker, StartRound(k) PROVE Inv'
<1> DEFINE r == [phase |-> "round", moment |-> clock, orgs |-> Org, claimed |-> {}]
<1>1. r \in Tickers /\ r.moment <= clock
  BY DEF Inv, TypeOK, Tickers, Phases
<1>2. \A t \in Task : seen[k][t].next = 0
  BY NothingRead DEF StartRound
<1>3. SetTicker(k, r) /\ UNCHANGED <<clock, row, seen, outdated, refused, request>>
  BY DEF StartRound
<1>4. refused' \in SUBSET Task
  BY <1>3 DEF Inv, TypeOK
<1> HIDE DEF r
<1> QED
  BY <1>1, <1>2, <1>3, <1>4, TickerInv

LEMMA EndRoundInv == ASSUME Inv, NEW k \in Ticker, EndRound(k) PROVE Inv'
<1>1. \A t \in Task : seen[k][t].next = 0
  BY NothingRead DEF EndRound
<1>2. SetTicker(k, Idle) /\ UNCHANGED <<clock, row, seen, outdated, refused, request>>
  BY DEF EndRound
<1>3. refused' \in SUBSET Task /\ Idle.moment <= clock
  BY <1>2, IdleTypes DEF Inv, TypeOK
<1> QED
  BY <1>1, <1>2, <1>3, IdleTypes, TickerInv

LEMMA CrashInv == ASSUME Inv, NEW k \in Ticker, Crash(k) PROVE Inv'
<1>1. SetTicker(k, Idle) /\ Forget(k) /\ UNCHANGED <<clock, row, outdated, refused, request>>
  BY DEF Crash
<1>2. \A t \in Task : seen'[k][t].next = 0
  BY <1>1, Forgotten
<1>3. refused' \in SUBSET Task /\ Idle.moment <= clock
  BY <1>1, IdleTypes DEF Inv, TypeOK
<1> QED
  BY <1>1, <1>2, <1>3, IdleTypes, TickerInv

\* The state of a ticker with another phase and other claimed tasks.
LEMMA AtTypes ==
    ASSUME NEW q \in Tickers, NEW p \in Phases, NEW S \in SUBSET Task
    PROVE  /\ At(q, p, S) \in Tickers
           /\ At(q, p, S).moment = q.moment
           /\ At(q, p, S).phase = p
<1>1. At(q, p, S) \in Tickers
  BY DEF At, Tickers
<1>2. At(q, p, S).moment = q.moment
  BY DEF At, Tickers
<1>3. At(q, p, S).phase = p
  BY DEF At, Tickers
<1> QED
  BY <1>1, <1>2, <1>3

LEMMA PhaseNames ==
    {"idle", "round", "working", "running"} \subseteq Phases
BY DEF Phases

LEMMA TickerType ==
    ASSUME Inv, NEW k \in Ticker
    PROVE  ticker[k] \in Tickers /\ ticker[k].moment <= clock
BY DEF Inv, TypeOK

\* A ticker with no reading moves on with some of what it has claimed.
LEMMA AtInv ==
    ASSUME Inv, NEW k \in Ticker, NEW p \in Phases, NEW S \in SUBSET Task,
           SetTicker(k, At(ticker[k], p, S)),
           UNCHANGED <<clock, row, outdated, request>>,
           refused' \in SUBSET Task,
           seen' = seen \/ Forget(k),
           \A t \in Task : seen'[k][t].next = 0
    PROVE  Inv'
<1> DEFINE r == At(ticker[k], p, S)
<1>1. r \in Tickers /\ r.moment = ticker[k].moment
  BY TickerType, AtTypes
<1> HIDE DEF r
<1>2. r.moment <= clock /\ SetTicker(k, r)
  BY <1>1, TickerType DEF r
<1> QED
  BY <1>1, <1>2, TickerInv

LEMMA ClaimedTypes == ASSUME Inv, NEW k \in Ticker PROVE ticker[k].claimed \in SUBSET Task
BY TickerType DEF Tickers

LEMMA ScanFailsInv == ASSUME Inv, NEW k \in Ticker, ScanFails(k) PROVE Inv'
<1>1. /\ SetTicker(k, At(ticker[k], "round", {}))
      /\ Forget(k) /\ UNCHANGED <<clock, row, outdated, refused, request>>
  BY DEF ScanFails
<1>2. \A t \in Task : seen'[k][t].next = 0
  BY <1>1, Forgotten
<1>3. refused' \in SUBSET Task
  BY <1>1 DEF Inv, TypeOK
<1> QED
  BY <1>1, <1>2, <1>3, PhaseNames, AtInv

LEMMA LaunchInv == ASSUME Inv, NEW k \in Ticker, NEW t \in Task, Launch(k, t) PROVE Inv'
<1>1. PICK p \in {"working", "running"} :
        SetTicker(k, At(ticker[k], p, ticker[k].claimed \ {t}))
  BY DEF Launch
<1>2. ticker[k].claimed \ {t} \in SUBSET Task /\ p \in Phases
  BY ClaimedTypes, PhaseNames
<1>3. UNCHANGED <<clock, row, seen, outdated, request>> /\ refused' \in SUBSET Task
  BY DEF Launch, Inv, TypeOK
<1>4. \A u \in Task : seen'[k][u].next = 0
  BY <1>3, NothingRead DEF Launch
<1> QED
  BY <1>1, <1>2, <1>3, <1>4, AtInv

LEMMA RunEndsInv ==
    ASSUME Inv, NEW k \in Ticker, RunEnds(k) \/ EndOrg(k)
    PROVE  Inv'
<1>1. PICK p \in {"working", "round"}, S \in {ticker[k].claimed, {}} :
        SetTicker(k, At(ticker[k], p, S))
  BY DEF RunEnds, EndOrg
<1>2. p \in Phases /\ S \in SUBSET Task
  BY PhaseNames, ClaimedTypes
<1>3. UNCHANGED <<clock, row, seen, outdated, refused, request>> /\ refused' \in SUBSET Task
  BY DEF RunEnds, EndOrg, Inv, TypeOK
<1>4. \A u \in Task : seen'[k][u].next = 0
  BY <1>3, NothingRead DEF RunEnds, EndOrg
<1> QED
  BY <1>1, <1>2, <1>3, <1>4, AtInv

LEMMA ScanInv == ASSUME Inv, NEW k \in Ticker, NEW o \in Org, Scan(k, o) PROVE Inv'
<1> DEFINE q == ticker[k]
           r == [q EXCEPT !.phase = "working", !.orgs = q.orgs \ {o}]
<1>1. q \in Tickers /\ q.moment <= clock
  BY DEF Inv, TypeOK
<1>2. ticker' = [ticker EXCEPT ![k] = r]
  BY DEF Scan, SetTicker
<1> HIDE DEF q
<1>3. r \in Tickers /\ r.moment = q.moment /\ r.phase = "working"
  BY <1>1 DEF Tickers, Phases
<1> HIDE DEF r
<1>4. PICK S \in SUBSET Task :
        /\ IsBatch(S, o, q.moment)
        /\ seen' = [seen EXCEPT ![k] = [t \in Task |->
                       IF t \in S THEN [next |-> row[t].next, kind |-> row[t].kind]
                                  ELSE NoReading]]
  BY DEF Scan, q
<1>5. \A t \in S : row[t].next # 0 /\ row[t].next <= q.moment
  BY <1>4 DEF IsBatch, Due
<1>6. UNCHANGED <<clock, row, refused, request>> /\ outdated' = [outdated EXCEPT ![k] = {}]
  BY DEF Scan
<1>7. \A t \in Task : row[t].next \in Times /\ row[t].kind \in ScheduleKinds
  BY DEF Inv, TypeOK, Rows, Times
<1>8. NoReading \in Readings /\ NoReading.next = 0
  BY DEF NoReading, Readings, ScheduleKinds
<1>9. seen' \in [Ticker -> [Task -> Readings]]
  BY <1>4, <1>7, <1>8 DEF Inv, TypeOK, Readings, Times
<1>10. \A t \in Task : seen'[k][t].next # 0 => t \in S /\ seen'[k][t].next = row[t].next
  BY <1>4, <1>8 DEF Inv, TypeOK
<1>11. \A j \in Ticker : j # k => seen'[j] = seen[j] /\ ticker'[j] = ticker[j]
                                 /\ outdated'[j] = outdated[j]
  BY <1>2, <1>4, <1>6 DEF Inv, TypeOK
<1>12. ticker'[k] = r /\ outdated'[k] = {}
  BY <1>2, <1>6 DEF Inv, TypeOK
<1>13. TypeOK'
  BY <1>1, <1>2, <1>3, <1>6, <1>9 DEF Inv, TypeOK
<1>14. ReadingsAreDue'
  BY <1>3, <1>5, <1>6, <1>10, <1>11, <1>12 DEF ReadingsAreDue, Inv
<1> QED
  BY <1>13, <1>14 DEF Inv

\* The heart of the matter: the new time is later than what this ticker read, and
\* one that another ticker has read is the same, unless it is out of date.
LEMMA ClaimInv == ASSUME Inv, NEW k \in Ticker, NEW t \in Task, Claim(k, t) PROVE Inv'
<1> DEFINE was == seen[k][t]
           moment == ticker[k].moment
<1>1. /\ was \in Readings /\ was.next # 0 /\ was.next <= moment
      /\ moment \in 0..MaxTime /\ moment <= clock
  BY DEF Claim, Inv, TypeOK, ReadingsAreDue, Tickers
<1>2. seen' = [seen EXCEPT ![k][t] = NoReading]
      /\ UNCHANGED <<clock, refused, request>>
  BY DEF Claim
<1>3. seen' \in [Ticker -> [Task -> Readings]]
  BY <1>2 DEF Inv, TypeOK, NoReading, Readings, ScheduleKinds
<1>4. \A j \in Ticker, u \in Task : seen'[j][u].next # 0 => seen'[j][u] = seen[j][u]
  BY <1>2 DEF Inv, TypeOK, NoReading
<1>5. CASE ~StillDue(k, t)
  <2>1. UNCHANGED <<row, outdated, ticker>>
    BY <1>5 DEF Claim
  <2>2. TypeOK'
    BY <1>2, <1>3, <2>1 DEF Inv, TypeOK
  <2>3. ReadingsAreDue'
    BY <1>4, <2>1 DEF Inv, ReadingsAreDue
  <2> QED
    BY <2>2, <2>3 DEF Inv
<1>6. CASE StillDue(k, t)
  <2>1. row[t] \in Rows /\ row[t].next = was.next
    BY <1>6 DEF StillDue, Inv, TypeOK
  <2>2. PICK r \in Rows : WriteRow(t, r) /\ (r.next = 0 \/ r.next > moment)
    <3>1. CASE was.kind = "once"
      <4>1. WriteRow(t, Timed(row[t], "archived", 0))
        BY <1>6, <3>1 DEF Claim
      <4>2. "archived" \in Statuses /\ 0 \in Times
        BY StatusNames DEF Times
      <4>3. Timed(row[t], "archived", 0) \in Rows /\ Timed(row[t], "archived", 0).next = 0
        BY <2>1, <4>2, TimedIsRow
      <4> QED
        BY <4>1, <4>3
    <3>2. CASE was.kind # "once"
      <4>1. PICK n \in NextRuns(was, moment) : WriteRow(t, Timed(row[t], "active", n))
        BY <1>6, <3>2 DEF Claim
      <4>2. was.kind \in ScheduleKinds
        BY <1>1 DEF Readings
      <4> HIDE DEF was, moment
      <4>3. n \in Times /\ (n = 0 \/ n > moment)
        BY <1>1, <3>2, <4>2, NextRunsAreLater
      <4>4. /\ Timed(row[t], "active", n) \in Rows
            /\ Timed(row[t], "active", n).next = n
        BY <2>1, <4>3, StatusNames, TimedIsRow
      <4> QED
        BY <4>1, <4>3, <4>4
    <3> QED
      BY <3>1, <3>2
  <2>3. r.next \in Nat /\ was.next \in Nat
    BY <1>1 DEF Rows, Readings
  <2>4. SetTicker(k, At(ticker[k], "working", ticker[k].claimed \cup {t}))
    BY <1>6 DEF Claim
  <2>5. ticker' \in [Ticker -> Tickers]
        /\ \A j \in Ticker : ticker'[j].moment = ticker[j].moment
                              /\ ticker'[j].phase = ticker[j].phase
    <3> DEFINE q == At(ticker[k], "working", ticker[k].claimed \cup {t})
    <3>1. ticker[k].claimed \cup {t} \in SUBSET Task
      BY ClaimedTypes
    <3>2. q \in Tickers /\ q.moment = ticker[k].moment /\ q.phase = "working"
      BY <3>1, TickerType, AtTypes, PhaseNames
    <3>3. ticker' = [ticker EXCEPT ![k] = q] /\ ticker[k].phase = "working"
      BY <2>4 DEF SetTicker, Claim
    <3> HIDE DEF q
    <3> QED
      BY <3>2, <3>3 DEF Inv, TypeOK
  <2>6. \A j \in Ticker : seen[j][t].next # 0 => seen[j][t].next <= was.next
    <3> SUFFICES ASSUME NEW j \in Ticker, seen[j][t].next # 0
                 PROVE  seen[j][t].next <= was.next
      OBVIOUS
    <3>1. seen[j][t].next \in Nat
      BY DEF Inv, TypeOK, Readings
    <3>2. row[t].next = seen[j][t].next \/ row[t].next = 0 \/ row[t].next > seen[j][t].next
      BY DEF Inv, ReadingsAreDue
    <3> QED
      BY <1>1, <2>1, <2>3, <3>1, <3>2
  <2>7. \/ r.next \in {0, row[t].next}
        \/ \A j \in Ticker : seen[j][t].next # 0 => r.next > seen[j][t].next
    <3>1. \A j \in Ticker : seen[j][t].next \in Nat
      BY DEF Inv, TypeOK, Readings
    <3> QED
      BY <1>1, <2>2, <2>3, <2>6, <3>1
  <2>8. /\ row' \in [Task -> Rows]
        /\ outdated' \in [Ticker -> SUBSET Task]
        /\ \A j \in Ticker, u \in Task : seen[j][u].next # 0 =>
             /\ u \notin outdated'[j] => row'[u].next = seen[j][u].next
             /\ u \in outdated'[j] => row'[u].next = 0 \/ row'[u].next > seen[j][u].next
    BY <2>2, <2>7, WriteRowInv
  <2>9. \A j \in Ticker, u \in Task : seen'[j][u].next # 0 => seen[j][u].next # 0
    BY <1>4
  <2>10. TypeOK'
    BY <1>2, <1>3, <2>5, <2>8 DEF Inv, TypeOK
  <2>11. ReadingsAreDue'
    <3> SUFFICES ASSUME NEW j \in Ticker, NEW u \in Task, seen'[j][u].next # 0
                 PROVE  /\ ticker'[j].phase = "working"
                        /\ seen'[j][u].next <= ticker'[j].moment
                        /\ u \notin outdated'[j] => row'[u].next = seen'[j][u].next
                        /\ u \in outdated'[j] => row'[u].next = 0 \/ row'[u].next > seen'[j][u].next
      BY DEF ReadingsAreDue
    <3>1. seen'[j][u] = seen[j][u] /\ seen[j][u].next # 0
      BY <1>4, <2>9
    <3> QED
      BY <2>5, <2>8, <3>1 DEF Inv, ReadingsAreDue
  <2> QED
    BY <2>10, <2>11 DEF Inv
<1> QED
  BY <1>5, <1>6

LEMMA TickInv == ASSUME Inv, Tick PROVE Inv'
<1>1. clock' \in 1..MaxTime /\ clock' >= clock
      /\ UNCHANGED <<row, ticker, seen, outdated, refused, request>>
  BY DEF Tick, Inv, TypeOK
<1>2. \A k \in Ticker : ticker'[k].moment <= clock'
  BY <1>1 DEF Inv, TypeOK, Tickers
<1>3. TypeOK'
  BY <1>1, <1>2 DEF Inv, TypeOK
<1>4. ReadingsAreDue'
  BY <1>1 DEF Inv, ReadingsAreDue
<1> QED
  BY <1>3, <1>4 DEF Inv

-----------------------------------------------------------------------------
(* The theorems *)

LEMMA NextInv == Inv /\ [Next]_vars => Inv'
<1> SUFFICES ASSUME Inv, [Next]_vars PROVE Inv'
  OBVIOUS
<1>1. CASE UNCHANGED vars
  BY <1>1 DEF vars, Inv, TypeOK, ReadingsAreDue
<1>2. CASE Tick
  BY <1>2, TickInv
<1>3. ASSUME NEW t \in Task, CreateTask(t) PROVE Inv'
  BY <1>3, CreateTaskInv
<1>4. ASSUME NEW c \in Client,
             ReadTask(c) \/ UpdateTask(c) \/ SetStatus(c) \/ DeleteTask(c) \/ Refuse(c)
      PROVE  Inv'
  BY <1>4, ReadTaskInv, UpdateTaskInv, SetStatusInv, DeleteTaskInv
<1>5. ASSUME NEW k \in Ticker, TickerStep(k) PROVE Inv'
  BY <1>5, StartRoundInv, EndRoundInv, RunEndsInv, ScanInv, ClaimInv, LaunchInv DEF TickerStep
<1>6. ASSUME NEW k \in Ticker, ScanFails(k) \/ Crash(k) PROVE Inv'
  BY <1>6, ScanFailsInv, CrashInv
<1> QED
  BY <1>1, <1>2, <1>3, <1>4, <1>5, <1>6 DEF Next

LEMMA SpecInv == Spec => []Inv
BY InitInv, NextInv, PTL DEF Spec

\* Every row, reading and pending request has its type: in particular no time
\* lies more than a period ahead, whoever computed it and from whichever moment.
THEOREM TypesHold == Spec => []TypeOK
<1>1. Inv => TypeOK
  BY DEF Inv
<1> QED
  BY <1>1, SpecInv, PTL

\* The compare-and-set of claim_due_task claims a time only while it is the one
\* that was read: no sequence of claims, edits and resumptions brings it back.
THEOREM DueTimesAreClaimedOnce == Spec => ClaimTakesTheTimeRead
<1>1. ASSUME Inv, NEW k \in Ticker, NEW t \in Task, Claim(k, t), StillDue(k, t)
      PROVE  t \notin outdated[k]
  <2>1. seen[k][t].next # 0 /\ seen[k][t].next \in Nat /\ row[t].next = seen[k][t].next
    BY <1>1 DEF Claim, StillDue, Inv, TypeOK, Readings
  <2> QED
    BY <1>1, <2>1 DEF Inv, ReadingsAreDue
<1>2. Inv /\ [Next]_vars =>
        [\A k \in Ticker, t \in Task :
           Claim(k, t) /\ StillDue(k, t) => t \notin outdated[k]]_vars
  BY <1>1
<1> QED
  BY <1>2, SpecInv, PTL DEF Spec, ClaimTakesTheTimeRead
=============================================================================
