------------------------------ MODULE AgentRuns ------------------------------
(***************************************************************************)
(* The agent runs of one chat session: the requests and background tasks   *)
(* that start a run (api/v1/chat.py, agent/icron.py, agent/session_goal.py)*)
(* the turn that executes it (agent/service.py), the inputs queued while   *)
(* it executes (agent/run_inputs.py), its termination (agent/terminal.py)  *)
(* and the recovery of runs that nobody executes any more                  *)
(* (runtime/reliability.py).                                               *)
(*                                                                         *)
(* chat_sessions.active_run_id is the mutual exclusion of the session and  *)
(* the compare-and-set guard of termination.  A run does not hold the row  *)
(* while it executes: it commits at a few points and everything else may   *)
(* happen in between.  One step of the model is one transaction, or what   *)
(* the model and the tools do between two of them.  Tools have sessions of *)
(* their own and do not look at active_run_id: two of them write what is   *)
(* modelled here, the plan of the session and the status of its goal.  The *)
(* log of events and what tools write elsewhere are left out.              *)
(*                                                                         *)
(* Inputs are numbered in the order of created_at.  A run has a fresh id:   *)
(* the model uses one again when nothing refers to it any more, so that    *)
(* a session has any number of runs one after the other.                   *)
(***************************************************************************)
EXTENDS Integers, Sequences, FiniteSets

CONSTANTS
    Run,          \* ids of runs
    None,         \* SQL NULL
    MaxInput,     \* bound on the inputs queued in it
    HasGoal,      \* the session has a goal from the start, or never (bound)
    MaxAutoRuns,  \* max_auto_runs of a goal
    Plans,        \* what tools write the plan to be (bound)
    Overtaking    \* recovery may find a run that is still executing: another
                  \* process starts, or the run outlives the sweep's timeout

\* Of a plan: nothing is in progress; a step is; none is, and one has failed.
PlanStates == {"still", "moving", "failed"}

ASSUME BoundAssumption ==
    /\ None \notin Run /\ Plans \subseteq PlanStates
    /\ MaxInput \in Nat /\ MaxAutoRuns \in Nat /\ Overtaking \in BOOLEAN
    /\ HasGoal \in BOOLEAN

Input == 1..MaxInput

VARIABLES
    (* the row of the session *)
    active,      \* active_run_id
    cancel,      \* cancel_requested
    pending,     \* pending_confirmation or pending_user_input
    plan,        \* what its plan shows
    (* each run: where the code that executes it is *)
    phase,
    kind,        \* what started it, and then whether it is scheduled
    stop,        \* how its last loop ended
    inSequence,  \* runs whose next_message_sequence nobody else has used
    (* each queued input *)
    status,
    owner,       \* run_id
    position,
    appears,     \* messages it has become
    request,     \* the reordering or deletion that has read its rows
    (* the goal of the session (spent: the budget of an active goal is) and the tasks that may continue it *)
    goal,
    continuing,  \* runs whose continuation task has not finished
    lock,        \* the continuation that holds the row of the session ...
    readRuns,    \* ... and the auto_runs it has read
    (* history *)
    fate,        \* of each run: "overtaken" by recovery while it executed,
                 \* "evicted" when its turn had not begun
    autoStarted  \* continuations of the present goal

chatVars == <<active, cancel, pending, plan>>
inputVars == <<status, owner, position, appears>>
goalVars == <<goal, continuing, lock, readRuns, autoStarted>>
turnVars == <<phase, kind, stop, inSequence>>
vars == <<chatVars, inputVars, goalVars, turnVars, request, fate>>

\* A "message" also stands for the text of a continuation and for decisions that
\* leave no approval open.
Kinds == {"message", "continue plan", "partial decision", "answer", "scheduled"}
Stops == {"end_turn", "ask_user", "confirm", "max_turns", "cancelled", "error"}
\* The turn has not begun; the loop runs; it ended and the queue is looked at;
\* the outcome is to be committed; it is, and the session not yet released;
\* a bundle of approvals waits for more decisions.
Executing == {"claimed", "looping", "ended", "settling", "settled", "undecided"}
Phases == Executing \cup {"none"}
Statuses == {"unused", "queued", "consumed", "skipped", "deleted"}
\* "ended" stands for cancelled and completed.
GoalStatuses == {"none", "active", "limited", "ended"}

NoRequest == [reads |-> {}, deletes |-> FALSE, at |-> [i \in Input |-> 0]]

TypeOK ==
    /\ active \in Run \cup {None}
    /\ cancel \in BOOLEAN
    /\ pending \in {"none", "confirm", "question"}
    /\ plan \in PlanStates
    /\ phase \in [Run -> Phases]
    /\ kind \in [Run -> Kinds]
    /\ stop \in [Run -> Stops]
    /\ inSequence \in SUBSET Run
    /\ status \in [Input -> Statuses]
    /\ owner \in [Input -> Run \cup {None}]
    /\ position \in [Input -> Nat]
    /\ \A i \in Input : status[i] = "queued" => owner[i] \in Run /\ position[i] > 0
    /\ appears \in [Input -> Nat]
    /\ request \in [reads : SUBSET Input, deletes : BOOLEAN, at : [Input -> Nat]]
    /\ \A i \in request.reads : request.deletes \/ request.at[i] > 0
    /\ goal \in [status : GoalStatuses, autoRuns : Nat, spent : BOOLEAN]
    /\ continuing \in SUBSET Run
    /\ lock \in Run \cup {None}
    /\ readRuns \in Nat
    /\ fate \in [Run -> {"kept", "overtaken", "evicted"}]
    /\ autoStarted \in Nat

Init ==
    /\ active = None /\ cancel = FALSE /\ pending = "none" /\ plan = "still"
    /\ phase = [r \in Run |-> "none"]
    /\ kind = [r \in Run |-> "message"]
    /\ stop = [r \in Run |-> "end_turn"]
    /\ inSequence = {}
    /\ status = [i \in Input |-> "unused"]
    /\ owner = [i \in Input |-> None]
    /\ position = [i \in Input |-> 0]
    /\ appears = [i \in Input |-> 0]
    /\ request = NoRequest
    /\ goal = [status |-> IF HasGoal THEN "active" ELSE "none", autoRuns |-> 0, spent |-> FALSE]
    /\ continuing = {} /\ lock = None /\ readRuns = 0
    /\ fate = [r \in Run |-> "kept"]
    /\ autoStarted = 0

------------------------------------------------------------------------------
(* The queue of a run *)

Queued == {i \in Input : status[i] = "queued"}
Queue(r) == {i \in Queued : owner[i] = r}

\* ORDER BY position, created_at
Before(i, j) == position[i] < position[j] \/ (position[i] = position[j] /\ i < j)
IsHead(i, r) == i \in Queue(r) /\ \A j \in Queue(r) \ {i} : Before(i, j)

\* max + 1, and 1 for an empty queue
IsNextPosition(p, r) ==
    IF Queue(r) = {} THEN p = 1
    ELSE /\ \A i \in Queue(r) : position[i] < p
         /\ \E i \in Queue(r) : p = position[i] + 1

\* The run and the position of an input matter while it is queued.
LeaveQueue(S, outcome) ==
    /\ status' = [i \in Input |-> IF i \in S THEN outcome ELSE status[i]]
    /\ owner' = [i \in Input |-> IF i \in S THEN None ELSE owner[i]]
    /\ position' = [i \in Input |-> IF i \in S THEN 0 ELSE position[i]]

\* What other runs left in the queue becomes the new run's, from position 1.
AdoptLeftovers(r) ==
    LET leftovers == {i \in Queued : owner[i] # r}
        Rank(i) == Cardinality({j \in leftovers : Before(j, i)}) + 1
    IN  /\ owner' = [i \in Input |-> IF i \in leftovers THEN r ELSE owner[i]]
        /\ position' = [i \in Input |->
                           IF i \in leftovers THEN Rank(i) ELSE position[i]]

\* A message while a run is active joins that run's queue; a decision or an
\* answer is refused.
Enqueue ==
    /\ active # None /\ lock = None
    /\ \E i \in Input, p \in 1..MaxInput :
        /\ status[i] = "unused" /\ \A j \in Input : j < i => status[j] # "unused"
        /\ IsNextPosition(p, active)
        /\ status' = [status EXCEPT ![i] = "queued"]
        /\ owner' = [owner EXCEPT ![i] = active]
        /\ position' = [position EXCEPT ![i] = p]
    /\ UNCHANGED <<appears, chatVars, turnVars, goalVars, request, fate>>

\* DELETE and PUT /order read their rows without a lock ...
ReadQueue ==
    /\ request = NoRequest
    /\ \/ \E i \in Queued : request' = [NoRequest EXCEPT !.reads = {i}, !.deletes = TRUE]
       \/ \E at \in [Input -> 0..MaxInput] :
            /\ \A i \in Input : i \in Queued <=> at[i] # 0
            /\ {at[i] : i \in Queued} = 1..Cardinality(Queued)
            /\ request' = [reads |-> {i \in Queued : at[i] # position[i]},
                           deletes |-> FALSE, at |-> at]
            /\ request'.reads # {}
    /\ UNCHANGED <<chatVars, inputVars, turnVars, goalVars, fate>>

\* ... and write them by primary key, whatever has become of them.  A
\* reordering that finds a row gone fails as a whole.
WriteQueue ==
    /\ request.reads # {}
    /\ \/ /\ request.deletes
          /\ LeaveQueue(request.reads, "deleted")
       \/ /\ ~request.deletes
          /\ UNCHANGED <<status, owner>>
          /\ position' = [i \in Input |->
                             IF /\ i \in request.reads \cap Queued
                                /\ \A j \in request.reads : status[j] # "deleted"
                             THEN request.at[i] ELSE position[i]]
    /\ request' = NoRequest
    /\ UNCHANGED <<appears, chatVars, turnVars, goalVars, fate>>

------------------------------------------------------------------------------
(* What starts a run *)

IsFresh(r) ==
    /\ phase[r] = "none" /\ active # r /\ r \notin continuing
    /\ \A i \in Queued : owner[i] # r

\* The new run takes the session.
Take(r, k) ==
    /\ active = None /\ IsFresh(r)
    /\ active' = r /\ cancel' = FALSE
    /\ phase' = [phase EXCEPT ![r] = "claimed"]
    /\ kind' = [kind EXCEPT ![r] = k]
    /\ UNCHANGED <<pending, plan, stop, inSequence>>

\* POST /messages on an idle session.  A question must be answered; approvals
\* are decided, some or all of them, or superseded by an ordinary message; with
\* neither, a failed step of the plan may be taken up again.
SendMessage(r) ==
    /\ lock = None
    /\ \E k \in CASE pending = "none" ->
                         {"message"} \cup (IF plan = "failed" THEN {"continue plan"} ELSE {})
                  [] pending = "confirm" -> {"message", "partial decision"}
                  [] pending = "question" -> {"answer"} :
         Take(r, k)
    /\ UNCHANGED <<inputVars, goalVars, request, fate>>

\* A scheduled task keeps off a session that is busy or waits for its user.
LaunchScheduled(r) ==
    /\ lock = None
    /\ pending = "none"
    /\ Take(r, "scheduled")
    /\ UNCHANGED <<inputVars, goalVars, request, fate>>

CancelRun ==
    /\ lock = None
    /\ cancel' = (active # None)
    /\ UNCHANGED <<active, pending, plan, inputVars, turnVars, goalVars, request, fate>>

------------------------------------------------------------------------------
(* The turn *)

\* (session_id, sequence) is unique and a run counts its messages from where it
\* began: whatever else is written to the session takes the number of its next
\* message, and its next write collides.  The messages of one loop are one.
Write(r) == r \in inSequence /\ inSequence' = {r}
\* Mutant: the note of a termination is not a message of the session.
WriteNotice_Unnumbered == UNCHANGED inSequence
WriteNotice == inSequence' = {}

GoTo(r, p) == phase' = [phase EXCEPT ![r] = p]
Forget(r) == inSequence' = inSequence \ {r}
\* The locals of a turn end with it.
Leave(r) ==
    /\ GoTo(r, "none")
    /\ kind' = [kind EXCEPT ![r] = "message"]
    /\ stop' = [stop EXCEPT ![r] = "end_turn"]
    /\ fate' = [fate EXCEPT ![r] = "kept"]

\* The turn adopts the queue, takes the number of its next message and
\* resolves what the session waited for.  A bundle that is still undecided
\* ends the turn; a question is only resolved by its answer.  A step that is
\* taken up again has failed.
Begin(r) ==
    /\ phase[r] = "claimed" /\ lock = None
    /\ kind[r] = "answer" => pending = "question"
    /\ kind[r] = "continue plan" => plan # "still"
    /\ plan' = IF kind[r] = "continue plan" THEN "moving" ELSE plan
    /\ AdoptLeftovers(r)
    /\ IF pending = "confirm" /\ kind[r] = "partial decision"
       THEN GoTo(r, "undecided") /\ UNCHANGED pending
       ELSE /\ GoTo(r, "looping")
            /\ pending' = IF pending = "question" /\ kind[r] # "answer"
                          THEN pending ELSE "none"
    /\ inSequence' = inSequence \cup {r}
    /\ kind' = [kind EXCEPT ![r] = IF @ = "scheduled" THEN @ ELSE "message"]
    /\ UNCHANGED <<active, cancel, stop, status, appears, goalVars, request, fate>>

\* plan_update, for a run that executes, whether it has the session or not.
UpdatePlan(r) ==
    /\ phase[r] = "looping" /\ lock = None
    /\ plan' \in Plans
    /\ UNCHANGED <<active, cancel, pending, inputVars, turnVars, goalVars, request, fate>>

\* update_goal, for whatever goal is there by now.
CompleteGoal(r) ==
    /\ phase[r] = "looping" /\ goal.status \in {"active", "limited"}
    /\ goal' = [goal EXCEPT !.status = "ended", !.spent = FALSE]
    /\ UNCHANGED <<chatVars, inputVars, turnVars, continuing, lock, readRuns, autoStarted,
                   request, fate>>

\* The loop of model and tools ends.  Only a run that is still the active one sees
\* the request to cancel, and nobody can be asked for approvals by a scheduled one.
LoopEnds(r) ==
    /\ phase[r] = "looping"
    /\ \E s \in Stops :
        /\ s = "cancelled" => active = r /\ cancel
        /\ s = "confirm" => kind[r] # "scheduled"
        /\ stop' = [stop EXCEPT ![r] = s]
        /\ GoTo(r, IF s = "end_turn" THEN "ended" ELSE "settling")
    /\ UNCHANGED <<chatVars, inputVars, goalVars, kind, inSequence, request, fate>>

\* Mutant: the input stays in the queue.
Consume_Kept(r) ==
    /\ phase[r] = "ended"
    /\ \E i \in Input :
        /\ IsHead(i, r)
        /\ appears[i] < 2
        /\ appears' = [appears EXCEPT ![i] = @ + 1]
    /\ Write(r)
    /\ GoTo(r, "looping")
    /\ UNCHANGED <<chatVars, status, owner, position, kind, stop, goalVars, request, fate>>

\* The next input becomes a message, after those of the loop, and the loop
\* runs again.
Consume(r) ==
    /\ phase[r] = "ended"
    /\ \E i \in Input :
        /\ IsHead(i, r)
        /\ appears' = [appears EXCEPT ![i] = @ + 1]
        /\ LeaveQueue({i}, "consumed")
    /\ Write(r)
    /\ GoTo(r, "looping")
    /\ UNCHANGED <<chatVars, kind, stop, goalVars, request, fate>>

FindQueueEmpty(r) ==
    /\ phase[r] = "ended" /\ Queue(r) = {}
    /\ GoTo(r, "settling")
    /\ UNCHANGED <<chatVars, inputVars, goalVars, kind, stop, inSequence, request, fate>>

\* record_turn_usage: the turn may be the one that spends the budget of the
\* goal that is there by now.
RecordUsage ==
    \E s \in {goal.spent, goal.status = "active"} : goal' = [goal EXCEPT !.spent = s]

\* The outcome is committed without a look at active_run_id.
Settle(r) ==
    /\ phase[r] = "settling" /\ stop[r] \notin {"cancelled", "error"}
    /\ lock = None
    /\ Write(r)
    /\ pending' = CASE stop[r] = "confirm" -> "confirm"
                    [] stop[r] = "ask_user" -> "question"
                    [] OTHER -> pending
    /\ UNCHANGED plan
    /\ RecordUsage
    /\ continuing' = IF stop[r] = "end_turn" /\ goal.status # "none"
                     THEN continuing \cup {r} ELSE continuing
    /\ GoTo(r, "settled")
    /\ stop' = [stop EXCEPT ![r] = "end_turn"]
    /\ kind' = [kind EXCEPT ![r] = "message"]
    /\ UNCHANGED <<active, cancel, inputVars, lock, readRuns, autoStarted, request, fate>>

\* terminalize_agent_run for the run that is active: the first terminal outcome
\* is the only one.  Steps in progress have failed, and its note is a message of
\* the session.
Terminalize(r) ==
    /\ active = r
    /\ active' = None /\ cancel' = FALSE /\ pending' = "none"
    /\ plan' = IF plan = "moving" THEN "failed" ELSE plan
    /\ LeaveQueue(Queue(r), "skipped")
    /\ WriteNotice
    /\ UNCHANGED appears

\* A loop that was cancelled or failed.  A run that is no longer active rolls
\* back what it staged.
Terminate(r) ==
    /\ phase[r] = "settling" /\ stop[r] \in {"cancelled", "error"}
    /\ lock = None /\ r \in inSequence
    /\ \/ Terminalize(r) /\ RecordUsage
       \/ active # r /\ Forget(r) /\ UNCHANGED <<chatVars, inputVars, goal>>
    /\ Leave(r)
    /\ UNCHANGED <<continuing, lock, readRuns, autoStarted, request>>

\* An exception, a lost connection or a collision: everything uncommitted is
\* rolled back.  A run that is no longer active only skips its own queue.
Fail(r) ==
    /\ phase[r] \in {"claimed", "looping", "ended", "settling"}
    /\ lock = None
    /\ \/ Terminalize(r)
       \/ /\ active # r
          /\ LeaveQueue(Queue(r), "skipped")
          /\ Forget(r)
          /\ UNCHANGED <<chatVars, appears>>
    /\ Leave(r)
    /\ UNCHANGED <<goalVars, request>>

\* The turn that leaves approvals undecided returns with turn_settled unset,
\* so that the last block of the turn treats it as one that broke off.
ReturnUndecided(r) ==
    /\ phase[r] = "undecided" /\ lock = None
    /\ Terminalize(r) \/ (active # r /\ Forget(r) /\ UNCHANGED <<chatVars, inputVars>>)
    /\ Leave(r)
    /\ UNCHANGED <<goalVars, request>>

\* Mutant: whoever holds the session.
Release_Unfenced(r) ==
    /\ phase[r] = "settled" /\ lock = None
    /\ active' = None /\ cancel' = FALSE
    /\ Leave(r) /\ Forget(r)
    /\ UNCHANGED <<pending, plan, inputVars, goalVars, request>>

\* The session is released, if it still is the run's.
Release(r) ==
    /\ phase[r] = "settled" /\ lock = None
    /\ IF active = r THEN active' = None /\ cancel' = FALSE
                     ELSE UNCHANGED <<active, cancel>>
    /\ Leave(r) /\ Forget(r)
    /\ UNCHANGED <<pending, plan, inputVars, goalVars, request>>

Crash(r) ==
    /\ phase[r] \in Executing
    /\ Leave(r) /\ Forget(r)
    /\ UNCHANGED <<chatVars, inputVars, goalVars, request>>

\* Mutant: only runs that still execute are recovered.
Recover_Executing(r) ==
    /\ lock = None
    /\ phase[r] \in Executing /\ Overtaking
    /\ Terminalize(r)
    /\ fate' = [fate EXCEPT ![r] = IF phase[r] = "claimed" THEN "evicted" ELSE "overtaken"]
    /\ UNCHANGED <<phase, kind, stop, goalVars, request>>

\* AgentRunRecovery takes every session that has an active run, at startup,
\* and every one that has not changed for a while, in the sweep.
Recover(r) ==
    /\ lock = None
    /\ phase[r] \in Executing => Overtaking
    /\ Terminalize(r)
    /\ fate' = [fate EXCEPT ![r] = CASE phase[r] = "claimed" -> "evicted"
                                     [] phase[r] \in Executing \ {"claimed"} -> "overtaken"
                                     [] OTHER -> @]
    /\ UNCHANGED <<phase, kind, stop, goalVars, request>>

------------------------------------------------------------------------------
(* The goal *)

SetGoal ==
    /\ HasGoal
    /\ goal' = [status |-> "active", autoRuns |-> 0, spent |-> FALSE]
    /\ autoStarted' = 0
    /\ UNCHANGED <<chatVars, inputVars, turnVars, continuing, lock, readRuns, request, fate>>

\* Cancelled or completed by the user.
EndGoal ==
    /\ HasGoal
    /\ goal' = [goal EXCEPT !.status = "ended", !.spent = FALSE]
    /\ UNCHANGED <<chatVars, inputVars, turnVars, continuing, lock, readRuns, autoStarted,
                   request, fate>>

\* Mutant: one continuation too many.
WithinRuns_OneMore ==
    /\ goal.status = "active" /\ active = None /\ pending = "none" /\ Queued = {}
    /\ goal.autoRuns <= MaxAutoRuns

\* evaluate_continuation, up to the budget of tokens and with it
WithinRuns ==
    /\ goal.status = "active" /\ active = None /\ pending = "none" /\ Queued = {}
    /\ goal.autoRuns < MaxAutoRuns
MayContinue == WithinRuns /\ ~goal.spent

\* A continuation that is vetoed is given up.  The first evaluation notes an
\* exhausted budget; the second, under the lock, does not.
DeclineContinuation(c) ==
    /\ c \in continuing /\ lock # c /\ ~MayContinue
    /\ continuing' = continuing \ {c}
    /\ \/ WithinRuns /\ goal' = [goal EXCEPT !.status = "limited", !.spent = FALSE]
       \/ UNCHANGED goal
    /\ UNCHANGED <<chatVars, inputVars, turnVars, lock, readRuns, autoStarted, request, fate>>

\* The session is locked before the veto is evaluated again; the goal is read
\* without a lock.
LockContinuation(c) ==
    /\ c \in continuing /\ lock = None /\ MayContinue
    /\ \E r \in Run : IsFresh(r)
    /\ lock' = c /\ readRuns' = goal.autoRuns
    /\ UNCHANGED <<chatVars, inputVars, turnVars, goal, continuing, autoStarted, request, fate>>

StartContinuation(c) ==
    /\ c \in continuing /\ lock = c
    /\ \E r \in Run : Take(r, "message")
    /\ goal' = [goal EXCEPT !.autoRuns = readRuns + 1]
    /\ autoStarted' = autoStarted + 1
    /\ continuing' = continuing \ {c}
    /\ lock' = None /\ readRuns' = 0
    /\ UNCHANGED <<inputVars, request, fate>>

\* Continuations are tasks of a process and die with it.
LoseContinuation(c) ==
    /\ c \in continuing
    /\ continuing' = continuing \ {c}
    /\ lock' = IF lock = c THEN None ELSE lock
    /\ readRuns' = IF lock = c THEN 0 ELSE readRuns
    /\ UNCHANGED <<chatVars, inputVars, turnVars, goal, autoStarted, request, fate>>

------------------------------------------------------------------------------
TurnStep(r) ==
    \/ Begin(r) \/ LoopEnds(r) \/ Consume(r) \/ FindQueueEmpty(r) \/ Settle(r)
    \/ Terminate(r) \/ Fail(r) \/ ReturnUndecided(r) \/ Release(r)

ToolStep(r) == UpdatePlan(r) \/ CompleteGoal(r)

Next ==
    \/ Enqueue \/ ReadQueue \/ WriteQueue \/ CancelRun \/ SetGoal \/ EndGoal
    \/ \E r \in Run :
        \/ SendMessage(r) \/ LaunchScheduled(r) \/ TurnStep(r) \/ ToolStep(r)
        \/ Crash(r) \/ Recover(r)
        \/ DeclineContinuation(r) \/ LockContinuation(r) \/ StartContinuation(r)
        \/ LoseContinuation(r)

Spec == Init /\ [][Next]_vars

\* Calls to models and tools time out and a loop has a bounded number of rounds,
\* so that it ends whatever its tools do; the sweep runs for ever; a transaction
\* that has a lock ends.
FairSpec ==
    /\ Spec
    /\ \A r \in Run :
        /\ WF_vars(TurnStep(r))
        /\ WF_vars(Recover(r) /\ phase[r] = "none")
        /\ WF_vars(StartContinuation(r))

------------------------------------------------------------------------------
(* Properties *)

\* At most one run executes, recovery aside: a run that executes holds the
\* session, unless recovery took the session from it while it did.
ExecutingRunHoldsSession ==
    \A r \in Run : phase[r] \in Executing => active = r \/ fate[r] # "kept"

\* The turn of a run that recovery has overtaken comes to nothing, however long it
\* goes on: no message, question or outcome of it is committed, no tokens are
\* charged and no continuation is scheduled, for the note of its termination has
\* taken the sequence number of its next message; the session is released only by
\* its holder, and no input is left in its queue.  What its tools did before its
\* loop ended is another matter: they still wrote the plan and completed the goal,
\* which are those of the next run (plan_update and update_goal compare nothing).
OvertakenRunIsFenced ==
    [][\A r \in Run : fate[r] = "overtaken" /\ (TurnStep(r) \/ ToolStep(r))
            => /\ UNCHANGED <<active, cancel, pending, inputVars,
                              continuing, lock, readRuns, autoStarted>>
               /\ phase'[r] # "settled"
               /\ phase'[r] # "looping" => UNCHANGED <<plan, goal>>]_vars

\* An input becomes a message once if it is consumed, and never if it waits or
\* was skipped, whichever of the runs that had it in their queue ended how.
InputAppearsOnce ==
    \A i \in Input :
        CASE status[i] = "consumed" -> appears[i] = 1
          [] status[i] = "deleted" -> appears[i] <= 1
          [] OTHER -> appears[i] = 0

\* A goal is continued at most max_auto_runs times, though its counter is
\* read without a lock and the goal may be set anew in between.
AutoRunsBounded == autoStarted <= goal.autoRuns /\ goal.autoRuns <= MaxAutoRuns

\* A run always gives the session back, crashed or not.
SessionIsReleased == \A r \in Run : (active = r) ~> (active # r)

==============================================================================
