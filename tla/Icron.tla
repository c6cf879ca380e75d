-------------------------------- MODULE Icron --------------------------------
(***************************************************************************)
(* Scheduled tasks of agents (agent/icron.py, api/v1/icron.py).            *)
(*                                                                         *)
(* Every process, or the beat of celery, runs a ticker.  A round notes the *)
(* time once, then goes through the organizations: it reads the tasks that *)
(* are due, claims each by a compare-and-set on next_run_at, and launches  *)
(* those it claimed one after the other, each for as long as its agent run *)
(* takes.  So an organization may be scanned with an old time, and while   *)
(* other tickers, and users who edit, pause and resume, change the rows.   *)
(*                                                                         *)
(* Times are ticks of a clock all processes agree on; 0 is SQL NULL.       *)
(***************************************************************************)
EXTENDS Integers, FiniteSets

CONSTANTS
    Task,       \* ids of tasks; an id is used once
    Org,        \* organizations
    Ticker,     \* tickers of all processes
    Client,     \* requests in flight at one time
    None,       \* no task
    Period,     \* no recurring task waits longer than this
    BatchSize,  \* icron_tick_batch_size
    MaxTime     \* the clock stops here (bound)

ASSUME ScheduleAssumption ==
    /\ None \notin Task
    /\ Period \in Nat \ {0} /\ BatchSize \in Nat \ {0} /\ MaxTime \in Nat \ {0}

VARIABLES
    clock,
    row,        \* each task
    ticker,     \* each ticker
    seen,       \* the tasks it has read as due and not yet claimed
    outdated,   \* history: of those, the ones whose time was rewritten since
    refused,    \* tasks that have a run skipped as "task_archived"
    request     \* the row that a client has read and is about to write

vars == <<clock, row, ticker, seen, outdated, refused, request>>

\* "recurring" stands for an interval and for a cron expression.
ScheduleKinds == {"manual", "once", "recurring"}
Statuses == {"absent", "active", "paused", "archived", "deleted"}
Rows == [status : Statuses, kind : ScheduleKinds, runAt : 0..MaxTime,
         next : 0..(MaxTime + Period), org : Org]
\* Between rounds; between organizations; claiming, then launching what was
\* claimed; driving an agent run.
Phases == {"idle", "round", "working", "running"}
Tickers == [phase : Phases, moment : 0..MaxTime, orgs : SUBSET Org, claimed : SUBSET Task]
\* What a ticker keeps of a row: its time and how to compute the next.
Readings == [next : 0..(MaxTime + Period), kind : ScheduleKinds]
NoReading == [next |-> 0, kind |-> "manual"]
NoRequest == [task |-> None]

TypeOK ==
    /\ clock \in 1..MaxTime
    /\ row \in [Task -> Rows]
    /\ ticker \in [Ticker -> Tickers]
    /\ \A k \in Ticker : ticker[k].moment <= clock
    /\ seen \in [Ticker -> [Task -> Readings]]
    /\ outdated \in [Ticker -> SUBSET Task]
    /\ refused \in SUBSET Task
    /\ request \in [Client -> {NoRequest} \cup [task : Task, read : Rows]]

Idle == [phase |-> "idle", moment |-> 0, orgs |-> {}, claimed |-> {}]
Nothing == [t \in Task |-> NoReading]

Init ==
    /\ clock = 1
    /\ row \in [Task -> {[status |-> "absent", kind |-> "manual", runAt |-> 0,
                          next |-> 0, org |-> o] : o \in Org}]
    /\ ticker = [k \in Ticker |-> Idle]
    /\ seen = [k \in Ticker |-> Nothing]
    /\ outdated = [k \in Ticker |-> {}]
    /\ refused = {}
    /\ request = [c \in Client |-> NoRequest]

------------------------------------------------------------------------------
(* The schedule *)

\* compute_next_run: strictly later than the moment, or never.  The grid of a
\* cron expression is not modelled.
NextRuns(r, moment) ==
    CASE r.kind = "manual" -> {0}
      [] r.kind = "once" -> {IF r.runAt > moment THEN r.runAt ELSE 0}
      [] r.kind = "recurring" -> (moment + 1)..(moment + Period)

Due(t, moment) ==
    row[t].status = "active" /\ row[t].next # 0 /\ row[t].next <= moment

\* The columns of a task are written; who has read another time than the new
\* one holds what is out of date.
WriteRow(t, r) ==
    /\ row' = [row EXCEPT ![t] = r]
    /\ outdated' = [k \in Ticker |->
                       IF seen[k][t].next # 0 /\ r.next # row[t].next
                       THEN outdated[k] \cup {t} ELSE outdated[k]]

------------------------------------------------------------------------------
(* Requests *)

Scheduled(r, k, at) == [r EXCEPT !.kind = k, !.runAt = at]
Timed(r, s, n) == [r EXCEPT !.status = s, !.next = n]

\* validate_schedule
InFuture(r) == r.kind = "once" => r.runAt > clock

CreateTask(t) ==
    /\ row[t].status = "absent"
    /\ \E k \in ScheduleKinds, at \in 0..MaxTime :
         LET r == Scheduled(row[t], k, at)
         IN  /\ InFuture(r) /\ (k # "once" => at = 0)
             /\ \E n \in NextRuns(r, clock) : WriteRow(t, Timed(r, "active", n))
    /\ UNCHANGED <<clock, ticker, seen, refused, request>>

\* The endpoints load the task ...
ReadTask(c) ==
    /\ request[c] = NoRequest
    /\ \E t \in Task :
        /\ row[t].status \notin {"absent", "deleted"}
        /\ request' = [request EXCEPT ![c] = [task |-> t, read |-> row[t]]]
    /\ UNCHANGED <<clock, row, ticker, seen, outdated, refused>>

\* ... and write, of the loaded object, the columns that changed in it.
Flush(t, old, new) ==
    WriteRow(t, [status |-> IF new.status # old.status THEN new.status ELSE row[t].status,
                 kind |-> IF new.kind # old.kind THEN new.kind ELSE row[t].kind,
                 runAt |-> IF new.runAt # old.runAt THEN new.runAt ELSE row[t].runAt,
                 next |-> IF new.next # old.next THEN new.next ELSE row[t].next,
                 org |-> row[t].org])

Answer(c) == request' = [request EXCEPT ![c] = NoRequest]

\* PATCH of the schedule: the next time is always computed anew.
UpdateTask(c) ==
    /\ request[c] # NoRequest
    /\ LET t == request[c].task
           old == request[c].read
       IN  /\ row[t].status # "deleted"
           /\ \E k \in ScheduleKinds, at \in 0..MaxTime :
                LET r == Scheduled(old, k, at)
                IN  /\ at = old.runAt \/ InFuture(r)
                    /\ \E n \in IF old.status = "active" THEN NextRuns(r, clock) ELSE {0} :
                         Flush(t, old, Timed(r, old.status, n))
    /\ Answer(c)
    /\ UNCHANGED <<clock, ticker, seen, refused>>

\* Pause, resume, archive: resuming computes the next time from now.
SetStatus(c) ==
    /\ request[c] # NoRequest
    /\ LET t == request[c].task
           old == request[c].read
       IN  /\ row[t].status # "deleted"
           /\ \E s \in {"active", "paused", "archived"} :
                /\ old.status = "archived" => s # "active"
                /\ \E n \in IF s = "active" THEN NextRuns(old, clock) ELSE {0} :
                     Flush(t, old, Timed(old, s, n))
    /\ Answer(c)
    /\ UNCHANGED <<clock, ticker, seen, refused>>

DeleteTask(c) ==
    /\ request[c] # NoRequest
    /\ LET t == request[c].task
       IN  WriteRow(t, Timed(Scheduled(row[t], "manual", 0), "deleted", 0))
    /\ Answer(c)
    /\ UNCHANGED <<clock, ticker, seen, refused>>

\* The request is refused, or finds the task gone.
Refuse(c) ==
    /\ request[c] # NoRequest
    /\ Answer(c)
    /\ UNCHANGED <<clock, row, ticker, seen, outdated, refused>>

------------------------------------------------------------------------------
(* Tickers *)

SetTicker(k, r) == ticker' = [ticker EXCEPT ![k] = r]
At(r, p, S) == [r EXCEPT !.phase = p, !.claimed = S]
Forget(k) == seen' = [seen EXCEPT ![k] = Nothing]

StartRound(k) ==
    /\ ticker[k].phase = "idle"
    /\ SetTicker(k, [phase |-> "round", moment |-> clock, orgs |-> Org, claimed |-> {}])
    /\ UNCHANGED <<clock, row, seen, outdated, refused, request>>

EndRound(k) ==
    /\ ticker[k].phase = "round" /\ ticker[k].orgs = {}
    /\ SetTicker(k, Idle)
    /\ UNCHANGED <<clock, row, seen, outdated, refused, request>>

\* Mutant: a time that has passed is not looked at any more.
IsBatch_JustDue(S, o, moment) ==
    S = {t \in Task : row[t].org = o /\ Due(t, moment) /\ row[t].next = moment}

\* The batch of an organization: those due first.
IsBatch(S, o, moment) ==
    LET due == {t \in Task : row[t].org = o /\ Due(t, moment)}
    IN  /\ S \subseteq due
        /\ Cardinality(S) <= BatchSize
        /\ Cardinality(S) < BatchSize => S = due
        /\ \A t \in S, u \in due \ S : row[t].next <= row[u].next

Scan(k, o) ==
    /\ ticker[k].phase = "round"
    /\ o \in ticker[k].orgs
    /\ SetTicker(k, [ticker[k] EXCEPT !.phase = "working", !.orgs = @ \ {o}])
    /\ \E S \in SUBSET Task :
        /\ IsBatch(S, o, ticker[k].moment)
        /\ seen' = [seen EXCEPT ![k] = [t \in Task |->
                       IF t \in S THEN [next |-> row[t].next, kind |-> row[t].kind]
                                  ELSE NoReading]]
    /\ outdated' = [outdated EXCEPT ![k] = {}]
    /\ UNCHANGED <<clock, row, refused, request>>

\* The compare-and-set.  Mutant: on the status only.
StillDue_ByStatus(k, t) == row[t].status = "active" /\ row[t].next # 0
StillDue(k, t) == row[t].status = "active" /\ row[t].next = seen[k][t].next

\* claim_due_task with the values of plan_claim_values: computed from the row as
\* it was read, and from the moment of the round.
Claim(k, t) ==
    /\ ticker[k].phase = "working" /\ seen[k][t].next # 0
    /\ seen' = [seen EXCEPT ![k][t] = NoReading]
    /\ IF StillDue(k, t)
       THEN /\ \/ /\ seen[k][t].kind = "once"
                  /\ WriteRow(t, Timed(row[t], "archived", 0))
               \/ /\ seen[k][t].kind # "once"
                  /\ \E n \in NextRuns(seen[k][t], ticker[k].moment) :
                       WriteRow(t, Timed(row[t], "active", n))
            /\ SetTicker(k, At(ticker[k], "working", ticker[k].claimed \cup {t}))
       ELSE UNCHANGED <<row, outdated, ticker>>
    /\ UNCHANGED <<clock, refused, request>>

\* An error while scanning or claiming: the organization is given up for this
\* round, what was claimed in it included.
ScanFails(k) ==
    /\ ticker[k].phase = "working" /\ seen[k] # Nothing
    /\ SetTicker(k, At(ticker[k], "round", {}))
    /\ Forget(k)
    /\ UNCHANGED <<clock, row, outdated, refused, request>>

\* A claimed task is launched, unless it is archived or gone by now; other
\* checks (its owner, its session) may skip it too.
Launch(k, t) ==
    /\ ticker[k].phase = "working" /\ seen[k] = Nothing /\ t \in ticker[k].claimed
    /\ \E p \in IF row[t].status \in {"deleted", "archived"} THEN {"working"}
               ELSE {"working", "running"} :
         SetTicker(k, At(ticker[k], p, ticker[k].claimed \ {t}))
    /\ refused' = IF row[t].status = "archived" THEN refused \cup {t} ELSE refused
    /\ UNCHANGED <<clock, row, seen, outdated, request>>

RunEnds(k) ==
    /\ ticker[k].phase = "running"
    /\ SetTicker(k, At(ticker[k], "working", ticker[k].claimed))
    /\ UNCHANGED <<clock, row, seen, outdated, refused, request>>

EndOrg(k) ==
    /\ ticker[k].phase = "working" /\ seen[k] = Nothing /\ ticker[k].claimed = {}
    /\ SetTicker(k, At(ticker[k], "round", {}))
    /\ UNCHANGED <<clock, row, seen, outdated, refused, request>>

Crash(k) ==
    /\ ticker[k].phase # "idle"
    /\ SetTicker(k, Idle)
    /\ Forget(k)
    /\ UNCHANGED <<clock, row, outdated, refused, request>>

Tick ==
    /\ clock < MaxTime
    /\ clock' = clock + 1
    /\ UNCHANGED <<row, ticker, seen, outdated, refused, request>>

------------------------------------------------------------------------------
TickerStep(k) ==
    \/ StartRound(k) \/ EndRound(k) \/ EndOrg(k) \/ RunEnds(k)
    \/ \E o \in Org : Scan(k, o)
    \/ \E t \in Task : Claim(k, t) \/ Launch(k, t)

Next ==
    \/ Tick
    \/ \E t \in Task : CreateTask(t)
    \/ \E c \in Client :
        ReadTask(c) \/ UpdateTask(c) \/ SetStatus(c) \/ DeleteTask(c) \/ Refuse(c)
    \/ \E k \in Ticker : TickerStep(k) \/ ScanFails(k) \/ Crash(k)

Spec == Init /\ [][Next]_vars

\* The loop of a ticker goes on, whatever a round raises, and an agent run ends.
\* A ticker that dies and fails again and again gets, again and again, as far as
\* each organization and each of its due tasks.
FairSpec ==
    /\ Spec
    /\ \A k \in Ticker :
        /\ WF_vars(StartRound(k) \/ EndRound(k) \/ EndOrg(k) \/ RunEnds(k))
        /\ WF_vars(\E t \in Task : Launch(k, t))
        /\ \A o \in Org : SF_vars(Scan(k, o))
        /\ \A t \in Task : SF_vars(Claim(k, t))

------------------------------------------------------------------------------
(* Properties *)

\* A due time is claimed at most once, and only if it still is the time of the
\* task: a ticker that claims with an old reading, and counts from an old
\* moment, never meets the same time again after others have claimed, paused,
\* resumed or rescheduled the task.
ClaimTakesTheTimeRead ==
    [][\A k \in Ticker, t \in Task :
          Claim(k, t) /\ StillDue(k, t) => t \notin outdated[k]]_vars

\* An active task is not due for ever.
DueTaskIsClaimed ==
    \A t \in Task : Due(t, clock) ~> ~Due(t, clock)

\* If no client archives it, a task for one time is not refused as archived when
\* its time comes.
OnceTaskIsLaunched ==
    \A t \in Task : row[t].kind = "once" => t \notin refused
==============================================================================
