--------------------------- MODULE AgentRunsProofs ---------------------------
(***************************************************************************)
(* The safety properties of AgentRuns, for any set of runs, any number of  *)
(* inputs and any limit of a goal.  Three of them are inductive together   *)
(* with the types; that an overtaken run is fenced needs what recovery     *)
(* leaves behind (OvertakenIsOut), and the limit of a goal needs what a    *)
(* continuation that holds the session has read (LockedWithinLimit).       *)
(* At the end all of that makes AgentRuns an implementation of the contract *)
(* of a session.                                                           *)
(***************************************************************************)
EXTENDS SessionRefinement, FiniteSetTheorems, TLAPS

USE BoundAssumption

(* The type invariant, one part for each group of variables *)

ChatTypes ==
    /\ active \in Run \cup {None}
    /\ cancel \in BOOLEAN
    /\ pending \in {"none", "confirm", "question"}
    /\ plan \in PlanStates

TurnTypes ==
    /\ phase \in [Run -> Phases]
    /\ kind \in [Run -> Kinds]
    /\ stop \in [Run -> Stops]
    /\ inSequence \in SUBSET Run
    /\ fate \in [Run -> {"kept", "overtaken", "evicted"}]

InputTypes ==
    /\ status \in [Input -> Statuses]
    /\ owner \in [Input -> Run \cup {None}]
    /\ position \in [Input -> Nat]
    /\ \A i \in Input : status[i] = "queued" => owner[i] \in Run /\ position[i] > 0
    /\ appears \in [Input -> Nat]

RequestTypes ==
    /\ request \in [reads : SUBSET Input, deletes : BOOLEAN, at : [Input -> Nat]]
    /\ \A i \in request.reads : request.deletes \/ request.at[i] > 0

GoalTypes ==
    /\ goal \in [status : GoalStatuses, autoRuns : Nat, spent : BOOLEAN]
    /\ continuing \in SUBSET Run
    /\ lock \in Run \cup {None}
    /\ readRuns \in Nat
    /\ autoStarted \in Nat

LEMMA TypeParts ==
    /\ TypeOK <=> ChatTypes /\ TurnTypes /\ InputTypes /\ RequestTypes /\ GoalTypes
    /\ TypeOK' <=> (ChatTypes /\ TurnTypes /\ InputTypes /\ RequestTypes /\ GoalTypes)'
BY DEF TypeOK, ChatTypes, TurnTypes, InputTypes, RequestTypes, GoalTypes

LEMMA InitTypes == Init => TypeOK
<1> SUFFICES ASSUME Init PROVE TypeOK
  OBVIOUS
<1>1. ChatTypes
  BY DEF Init, ChatTypes, PlanStates
<1>2. TurnTypes
  BY DEF Init, TurnTypes, Phases, Kinds, Stops
<1>3. InputTypes
  BY DEF Init, InputTypes, Statuses
<1>4. RequestTypes
  BY DEF Init, RequestTypes, NoRequest
<1>5. GoalTypes
  BY DEF Init, GoalTypes, GoalStatuses
<1> QED
  BY <1>1, <1>2, <1>3, <1>4, <1>5, TypeParts

LEMMA LeaveQueueTypes ==
    ASSUME InputTypes, NEW S, NEW outcome \in {"consumed", "skipped", "deleted"},
           LeaveQueue(S, outcome), appears' \in [Input -> Nat]
    PROVE  InputTypes'
BY DEF InputTypes, LeaveQueue, Statuses

LEMMA RankIsPositive ==
    ASSUME NEW S \in SUBSET Input
    PROVE  Cardinality(S) + 1 \in Nat /\ Cardinality(S) + 1 > 0
<1>1. IsFiniteSet(Input)
  BY FS_Interval DEF Input
<1>2. Cardinality(S) \in Nat
  BY <1>1, FS_Subset, FS_CardinalityType
<1> QED
  BY <1>2

LEMMA AdoptLeftoversTypes ==
    ASSUME InputTypes, NEW r \in Run, AdoptLeftovers(r), UNCHANGED <<status, appears>>
    PROVE  InputTypes'
<1> DEFINE leftovers == {i \in Queued : owner[i] # r}
           Rank(i) == Cardinality({j \in leftovers : Before(j, i)}) + 1
<1>1. \A i \in Input : Rank(i) \in Nat /\ Rank(i) > 0
  <2> SUFFICES ASSUME NEW i \in Input PROVE Rank(i) \in Nat /\ Rank(i) > 0
    OBVIOUS
  <2>1. {j \in leftovers : Before(j, i)} \in SUBSET Input
    BY DEF Queued
  <2> QED
    BY <2>1, RankIsPositive
<1>2. /\ owner' = [i \in Input |-> IF i \in leftovers THEN r ELSE owner[i]]
      /\ position' = [i \in Input |-> IF i \in leftovers THEN Rank(i) ELSE position[i]]
  BY DEF AdoptLeftovers
<1> HIDE DEF Rank, leftovers
<1> QED
  BY <1>1, <1>2 DEF InputTypes

LEMMA TerminalizeTypes ==
    ASSUME TypeOK, NEW r \in Run, Terminalize(r)
    PROVE  ChatTypes' /\ InputTypes' /\ inSequence' \in SUBSET Run
<1>1. ChatTypes'
  BY TypeParts DEF Terminalize, ChatTypes, PlanStates
<1>2. InputTypes'
  <2>1. appears' \in [Input -> Nat]
    BY TypeParts DEF Terminalize, InputTypes
  <2> QED
    BY <2>1, TypeParts, LeaveQueueTypes DEF Terminalize
<1> QED
  BY <1>1, <1>2 DEF Terminalize, WriteNotice

-----------------------------------------------------------------------------
(* What the steps have in common *)

LEMMA TakeTypes ==
    ASSUME ChatTypes, TurnTypes, NEW r \in Run, NEW k \in Kinds, Take(r, k), fate' = fate
    PROVE  ChatTypes' /\ TurnTypes'
BY DEF Take, ChatTypes, TurnTypes, Phases, Executing

LEMMA LeaveTypes ==
    ASSUME TurnTypes, NEW r \in Run, Leave(r), inSequence' \in SUBSET Run
    PROVE  TurnTypes'
BY DEF Leave, GoTo, TurnTypes, Phases, Executing, Kinds, Stops

\* The steps of a request and of recovery.
LEMMA RequestStepTypes ==
    ASSUME TypeOK, Enqueue \/ ReadQueue \/ WriteQueue \/ CancelRun
    PROVE  TypeOK'
<1> USE TypeParts
<1>1. CASE Enqueue
  <2>1. active \in Run
    BY <1>1 DEF Enqueue, ChatTypes
  <2>2. InputTypes'
    BY <1>1, <2>1 DEF Enqueue, InputTypes, Statuses
  <2>3. ChatTypes' /\ TurnTypes' /\ RequestTypes' /\ GoalTypes'
    BY <1>1 DEF Enqueue, ChatTypes, TurnTypes, RequestTypes, GoalTypes, chatVars, turnVars, goalVars
  <2> QED
    BY <2>2, <2>3
<1>2. CASE ReadQueue
  <2>1. RequestTypes'
    <3>1. CASE \E i \in Queued : request' = [NoRequest EXCEPT !.reads = {i}, !.deletes = TRUE]
      <4> PICK i \in Queued : request' = [NoRequest EXCEPT !.reads = {i}, !.deletes = TRUE]
        BY <3>1
      <4>1. request' = [reads |-> {i}, deletes |-> TRUE, at |-> [j \in Input |-> 0]]
        BY DEF NoRequest
      <4>2. request'.deletes = TRUE /\ i \in Input
        BY <4>1 DEF Queued
      <4>3. request' \in [reads : SUBSET Input, deletes : BOOLEAN, at : [Input -> Nat]]
        <5>1. {i} \in SUBSET Input /\ [j \in Input |-> 0] \in [Input -> Nat]
          BY <4>2
        <5>2. [reads |-> {i}, deletes |-> TRUE, at |-> [j \in Input |-> 0]]
                  \in [reads : SUBSET Input, deletes : BOOLEAN, at : [Input -> Nat]]
          BY <5>1
        <5> QED
          BY <4>1, <5>2
      <4> QED
        BY <4>2, <4>3 DEF RequestTypes
    <3>2. CASE \E at \in [Input -> 0..MaxInput] :
                 /\ \A i \in Input : i \in Queued <=> at[i] # 0
                 /\ request' = [reads |-> {i \in Queued : at[i] # position[i]},
                                deletes |-> FALSE, at |-> at]
      <4> PICK at \in [Input -> 0..MaxInput] :
                 /\ \A i \in Input : i \in Queued <=> at[i] # 0
                 /\ request' = [reads |-> {i \in Queued : at[i] # position[i]},
                                deletes |-> FALSE, at |-> at]
        BY <3>2
      <4>1. at \in [Input -> Nat] /\ \A i \in Queued : at[i] > 0
        BY DEF Queued
      <4> QED
        BY <4>1 DEF RequestTypes, Queued
    <3> QED
      BY <1>2, <3>1, <3>2 DEF ReadQueue
  <2>2. ChatTypes' /\ TurnTypes' /\ InputTypes' /\ GoalTypes'
    BY <1>2 DEF ReadQueue, ChatTypes, TurnTypes, InputTypes, GoalTypes,
                chatVars, turnVars, inputVars, goalVars
  <2> QED
    BY <2>1, <2>2
<1>3. CASE WriteQueue
  <2>1. InputTypes'
    <3>1. CASE request.deletes /\ LeaveQueue(request.reads, "deleted")
      BY <1>3, <3>1, LeaveQueueTypes DEF WriteQueue, InputTypes
    <3>2. CASE ~request.deletes /\ UNCHANGED <<status, owner>>
      BY <1>3, <3>2 DEF WriteQueue, InputTypes, RequestTypes
    <3> QED
      BY <1>3, <3>1, <3>2 DEF WriteQueue
  <2>2. RequestTypes'
    BY <1>3 DEF WriteQueue, RequestTypes, NoRequest
  <2>3. ChatTypes' /\ TurnTypes' /\ GoalTypes'
    BY <1>3 DEF WriteQueue, ChatTypes, TurnTypes, GoalTypes, chatVars, turnVars, goalVars
  <2> QED
    BY <2>1, <2>2, <2>3
<1>4. CASE CancelRun
  BY <1>4 DEF CancelRun, ChatTypes, TurnTypes, InputTypes, RequestTypes, GoalTypes,
              turnVars, inputVars, goalVars
<1> QED
  BY <1>1, <1>2, <1>3, <1>4

\* What starts, ends or recovers a run.
LEMMA RunStepTypes ==
    ASSUME TypeOK, NEW r \in Run,
           SendMessage(r) \/ LaunchScheduled(r) \/ Crash(r) \/ Recover(r)
    PROVE  TypeOK'
<1> USE TypeParts
<1>1. CASE SendMessage(r) \/ LaunchScheduled(r)
  <2>1. \E k \in Kinds : Take(r, k)
    <3>1. CASE pending = "none" /\ SendMessage(r)
      <4>1. \E k \in {"message", "continue plan"} : Take(r, k)
        BY <3>1 DEF SendMessage
      <4> QED
        BY <4>1 DEF Kinds
    <3>2. CASE pending # "none" /\ SendMessage(r)
      BY <3>2 DEF SendMessage, Kinds, ChatTypes
    <3>3. CASE LaunchScheduled(r)
      BY <3>3 DEF LaunchScheduled, Kinds
    <3> QED
      BY <1>1, <3>1, <3>2, <3>3
  <2>2. ChatTypes' /\ TurnTypes'
    BY <1>1, <2>1, TakeTypes DEF SendMessage, LaunchScheduled
  <2>3. InputTypes' /\ RequestTypes' /\ GoalTypes'
    BY <1>1 DEF SendMessage, LaunchScheduled, InputTypes, RequestTypes, GoalTypes, inputVars, goalVars
  <2> QED
    BY <2>2, <2>3
<1>2. CASE Crash(r)
  <2>1. TurnTypes'
    BY <1>2, LeaveTypes DEF Crash, Forget, TurnTypes
  <2>2. ChatTypes' /\ InputTypes' /\ RequestTypes' /\ GoalTypes'
    BY <1>2 DEF Crash, ChatTypes, InputTypes, RequestTypes, GoalTypes, chatVars, inputVars, goalVars
  <2> QED
    BY <2>1, <2>2
<1>3. CASE Recover(r)
  <2>1. ChatTypes' /\ InputTypes' /\ inSequence' \in SUBSET Run
    BY <1>3, TerminalizeTypes DEF Recover
  <2>2. TurnTypes'
    BY <1>3, <2>1 DEF Recover, TurnTypes
  <2>3. RequestTypes' /\ GoalTypes'
    BY <1>3 DEF Recover, RequestTypes, GoalTypes, goalVars
  <2> QED
    BY <2>1, <2>2, <2>3
<1> QED
  BY <1>1, <1>2, <1>3

\* The steps of a turn up to its outcome.
LEMMA LoopStepTypes ==
    ASSUME TypeOK, NEW r \in Run,
           Begin(r) \/ LoopEnds(r) \/ Consume(r) \/ FindQueueEmpty(r) \/ Settle(r)
    PROVE  TypeOK'
<1> USE TypeParts
<1>1. CASE Begin(r)
  <2>1. InputTypes'
    BY <1>1, AdoptLeftoversTypes DEF Begin
  <2>2. TurnTypes'
    BY <1>1 DEF Begin, TurnTypes, GoTo, Kinds, Phases, Executing
  <2>3. ChatTypes' /\ RequestTypes' /\ GoalTypes'
    BY <1>1 DEF Begin, ChatTypes, PlanStates, RequestTypes, GoalTypes, goalVars
  <2> QED
    BY <2>1, <2>2, <2>3
<1>2. CASE LoopEnds(r) \/ FindQueueEmpty(r)
  <2>1. TurnTypes'
    BY <1>2 DEF LoopEnds, FindQueueEmpty, TurnTypes, GoTo, Stops, Phases, Executing
  <2>2. ChatTypes' /\ InputTypes' /\ RequestTypes' /\ GoalTypes'
    BY <1>2 DEF LoopEnds, FindQueueEmpty, ChatTypes, InputTypes, RequestTypes, GoalTypes,
                chatVars, inputVars, goalVars
  <2> QED
    BY <2>1, <2>2
<1>3. CASE Consume(r)
  <2>1. InputTypes'
    <3> PICK i \in Input : /\ appears' = [appears EXCEPT ![i] = @ + 1]
                           /\ LeaveQueue({i}, "consumed")
      BY <1>3 DEF Consume
    <3>1. appears' \in [Input -> Nat]
      BY DEF InputTypes
    <3> QED
      BY <3>1, LeaveQueueTypes
  <2>2. TurnTypes'
    BY <1>3 DEF Consume, Write, TurnTypes, GoTo, Phases, Executing
  <2>3. ChatTypes' /\ RequestTypes' /\ GoalTypes'
    BY <1>3 DEF Consume, ChatTypes, RequestTypes, GoalTypes, chatVars, goalVars
  <2> QED
    BY <2>1, <2>2, <2>3
<1>4. CASE Settle(r)
  <2>1. ChatTypes'
    BY <1>4 DEF Settle, ChatTypes
  <2>2. TurnTypes'
    BY <1>4 DEF Settle, Write, TurnTypes, GoTo, Phases, Executing, Kinds, Stops
  <2>3. GoalTypes'
    BY <1>4 DEF Settle, RecordUsage, GoalTypes
  <2>4. InputTypes' /\ RequestTypes'
    BY <1>4 DEF Settle, InputTypes, RequestTypes, inputVars
  <2> QED
    BY <2>1, <2>2, <2>3, <2>4
<1> QED
  BY <1>1, <1>2, <1>3, <1>4

\* What the tools of a run leave alone, whatever has become of the run.
LEMMA ToolStepLeaves ==
    ASSUME TypeOK, NEW r \in Run, ToolStep(r)
    PROVE  /\ phase[r] = "looping"
           /\ UNCHANGED <<active, cancel, pending, inputVars, turnVars, continuing, lock,
                          readRuns, autoStarted, request, fate>>
           /\ plan' \in PlanStates
           /\ goal' \in [status : GoalStatuses, autoRuns : {goal.autoRuns}, spent : BOOLEAN]
<1>1. CASE UpdatePlan(r)
  BY <1>1 DEF UpdatePlan, goalVars, TypeOK
<1>2. CASE CompleteGoal(r)
  BY <1>2 DEF CompleteGoal, chatVars, TypeOK, GoalStatuses
<1> QED
  BY <1>1, <1>2 DEF ToolStep

LEMMA ToolStepTypes ==
    ASSUME TypeOK, NEW r \in Run, ToolStep(r)
    PROVE  TypeOK'
<1> USE TypeParts
<1>1. ChatTypes' /\ TurnTypes' /\ InputTypes' /\ RequestTypes'
  BY ToolStepLeaves DEF ChatTypes, TurnTypes, InputTypes, RequestTypes, inputVars, turnVars
<1>2. GoalTypes'
  <2>1. goal.autoRuns \in Nat
    BY DEF GoalTypes
  <2> QED
    BY <2>1, ToolStepLeaves DEF GoalTypes
<1> QED
  BY <1>1, <1>2

\* The steps that end a turn.
LEMMA EndStepTypes ==
    ASSUME TypeOK, NEW r \in Run,
           Terminate(r) \/ Fail(r) \/ ReturnUndecided(r) \/ Release(r)
    PROVE  TypeOK'
<1> USE TypeParts
<1>1. ChatTypes' /\ InputTypes' /\ inSequence' \in SUBSET Run
  <2>1. CASE Terminalize(r)
    BY <2>1, TerminalizeTypes
  <2>2. CASE Fail(r) /\ LeaveQueue(Queue(r), "skipped") /\ Forget(r) /\ UNCHANGED <<chatVars, appears>>
    <3>1. appears' \in [Input -> Nat]
      BY <2>2 DEF InputTypes
    <3> QED
      BY <2>2, <3>1, LeaveQueueTypes DEF Forget, ChatTypes, TurnTypes, chatVars
  <2>3. CASE Forget(r) /\ UNCHANGED <<chatVars, inputVars>>
    BY <2>3 DEF Forget, ChatTypes, TurnTypes, InputTypes, chatVars, inputVars
  <2>4. CASE Release(r)
    BY <2>4 DEF Release, Forget, ChatTypes, TurnTypes, InputTypes, inputVars
  <2> QED
    BY <2>1, <2>2, <2>3, <2>4 DEF Terminate, Fail, ReturnUndecided
<1>2. TurnTypes'
  BY <1>1, LeaveTypes DEF Terminate, Fail, ReturnUndecided, Release
<1>3. GoalTypes'
  BY DEF Terminate, RecordUsage, Fail, ReturnUndecided, Release, GoalTypes, goalVars
<1>4. RequestTypes'
  BY DEF Terminate, Fail, ReturnUndecided, Release, RequestTypes
<1> QED
  BY <1>1, <1>2, <1>3, <1>4

LEMMA GoalStepTypes ==
    ASSUME TypeOK, NEW c,
           \/ SetGoal \/ EndGoal \/ DeclineContinuation(c) \/ LockContinuation(c)
           \/ StartContinuation(c) \/ LoseContinuation(c)
    PROVE  TypeOK'
<1> USE TypeParts
<1>1. ChatTypes' /\ TurnTypes'
  <2>1. CASE StartContinuation(c)
    <3> PICK r \in Run : Take(r, "message")
      BY <2>1 DEF StartContinuation
    <3> QED
      BY <2>1, TakeTypes DEF StartContinuation, Kinds
  <2>2. CASE ~StartContinuation(c)
    BY <2>2 DEF SetGoal, EndGoal, DeclineContinuation, LockContinuation, LoseContinuation,
                ChatTypes, TurnTypes, chatVars, turnVars
  <2> QED
    BY <2>1, <2>2
<1>2. GoalTypes'
  <2>1. CASE SetGoal \/ EndGoal
    <3>1. goal' \in [status : GoalStatuses, autoRuns : Nat, spent : BOOLEAN]
      <4>1. CASE SetGoal
        BY <4>1 DEF SetGoal, GoalStatuses
      <4>2. CASE EndGoal
        BY <4>2 DEF EndGoal, GoalTypes, GoalStatuses
      <4> QED
        BY <2>1, <4>1, <4>2
    <3>2. UNCHANGED <<lock, readRuns, continuing>> /\ autoStarted' \in Nat
      BY <2>1 DEF SetGoal, EndGoal, GoalTypes
    <3> QED
      BY <3>1, <3>2 DEF GoalTypes
  <2>2. CASE DeclineContinuation(c)
    <3>1. goal' \in [status : GoalStatuses, autoRuns : Nat, spent : BOOLEAN]
      BY <2>2 DEF DeclineContinuation, GoalTypes, GoalStatuses
    <3>2. UNCHANGED <<lock, readRuns, autoStarted>> /\ continuing' \in SUBSET Run
      BY <2>2 DEF DeclineContinuation, GoalTypes
    <3> QED
      BY <3>1, <3>2 DEF GoalTypes
  <2>3. CASE LoseContinuation(c)
    BY <2>3 DEF LoseContinuation, GoalTypes
  <2>4. CASE LockContinuation(c)
    BY <2>4 DEF LockContinuation, GoalTypes
  <2>5. CASE StartContinuation(c)
    <3>1. goal' \in [status : GoalStatuses, autoRuns : Nat, spent : BOOLEAN]
      BY <2>5 DEF StartContinuation, GoalTypes
    <3> QED
      BY <2>5, <3>1 DEF StartContinuation, GoalTypes
  <2> QED
    BY <2>1, <2>2, <2>3, <2>4, <2>5
<1>3. InputTypes' /\ RequestTypes'
  BY DEF SetGoal, EndGoal, DeclineContinuation, LockContinuation, StartContinuation,
         LoseContinuation, InputTypes, RequestTypes, inputVars
<1> QED
  BY <1>1, <1>2, <1>3

\* One part of Next for each lemma above.
LEMMA NextParts ==
    ASSUME Next
    PROVE  \/ Enqueue \/ ReadQueue \/ WriteQueue \/ CancelRun
           \/ \E r \in Run : SendMessage(r) \/ LaunchScheduled(r) \/ Crash(r) \/ Recover(r)
           \/ \E r \in Run : \/ Begin(r) \/ LoopEnds(r) \/ Consume(r) \/ FindQueueEmpty(r)
                             \/ Settle(r)
           \/ \E r \in Run : ToolStep(r)
           \/ \E r \in Run : Terminate(r) \/ Fail(r) \/ ReturnUndecided(r) \/ Release(r)
           \/ SetGoal \/ EndGoal
           \/ \E c \in Run : \/ DeclineContinuation(c) \/ LockContinuation(c)
                             \/ StartContinuation(c) \/ LoseContinuation(c)
BY Zenon DEF Next, TurnStep

LEMMA NextTypes == ASSUME TypeOK, [Next]_vars PROVE TypeOK'
<1>1. CASE UNCHANGED vars
  BY <1>1 DEF vars, chatVars, inputVars, goalVars, turnVars, TypeOK
<1>2. CASE Enqueue \/ ReadQueue \/ WriteQueue \/ CancelRun
  BY <1>2, RequestStepTypes
<1>3. CASE \E r \in Run : SendMessage(r) \/ LaunchScheduled(r) \/ Crash(r) \/ Recover(r)
  BY <1>3, RunStepTypes
<1>4. CASE \E r \in Run : \/ Begin(r) \/ LoopEnds(r) \/ Consume(r) \/ FindQueueEmpty(r)
                         \/ Settle(r)
  BY <1>4, LoopStepTypes
<1>5. CASE \E r \in Run : Terminate(r) \/ Fail(r) \/ ReturnUndecided(r) \/ Release(r)
  BY <1>5, EndStepTypes
<1>6. CASE \/ SetGoal \/ EndGoal
           \/ \E c \in Run : \/ DeclineContinuation(c) \/ LockContinuation(c)
                             \/ StartContinuation(c) \/ LoseContinuation(c)
  BY <1>6, GoalStepTypes
<1>7. CASE \E r \in Run : ToolStep(r)
  BY <1>7, ToolStepTypes
<1> QED
  BY <1>1, <1>2, <1>3, <1>4, <1>5, <1>6, <1>7, NextParts

\* Type correctness: an input that waits always has a run and a place.
THEOREM TypesHold == Spec => []TypeOK
<1>1. Init => TypeOK
  BY InitTypes
<1>2. TypeOK /\ [Next]_vars => TypeOK'
  BY NextTypes
<1> QED
  BY <1>1, <1>2, PTL DEF Spec

-----------------------------------------------------------------------------
(* Who holds the session *)

LEMMA NextHolds ==
    ASSUME TypeOK, ExecutingRunHoldsSession, [Next]_vars
    PROVE  ExecutingRunHoldsSession'
<1> USE DEF TypeOK, ExecutingRunHoldsSession
<1>1. CASE UNCHANGED <<phase, active, fate>>
  BY <1>1
<1>2. ASSUME NEW r \in Run, NEW k, Take(r, k), fate' = fate
      PROVE  ExecutingRunHoldsSession'
  BY <1>2 DEF Take
<1>3. ASSUME NEW r \in Run, Leave(r), active' = active \/ active = r
      PROVE  ExecutingRunHoldsSession'
  BY <1>3 DEF Leave, GoTo, Executing
<1>4. ASSUME NEW r \in Run, Recover(r)
      PROVE  ExecutingRunHoldsSession'
  BY <1>4 DEF Recover, Terminalize
<1>5. ASSUME NEW r \in Run, NEW p \in Executing, phase[r] \in Executing, GoTo(r, p),
             UNCHANGED <<active, fate>>
      PROVE  ExecutingRunHoldsSession'
  BY <1>5 DEF GoTo
<1>6. CASE Enqueue \/ ReadQueue \/ WriteQueue \/ CancelRun
  BY <1>1, <1>6 DEF Enqueue, ReadQueue, WriteQueue, CancelRun, chatVars, turnVars
<1>7. CASE \E r \in Run : SendMessage(r) \/ LaunchScheduled(r)
  BY <1>2, <1>7 DEF SendMessage, LaunchScheduled
<1>8. ASSUME NEW r \in Run, Crash(r) PROVE ExecutingRunHoldsSession'
  BY <1>3, <1>8 DEF Crash, chatVars
<1>9. ASSUME NEW r \in Run,
             Begin(r) \/ LoopEnds(r) \/ Consume(r) \/ FindQueueEmpty(r) \/ Settle(r)
      PROVE  ExecutingRunHoldsSession'
  <2>1. UNCHANGED <<active, fate>> /\ phase[r] \in Executing
    BY <1>9 DEF Begin, LoopEnds, Consume, FindQueueEmpty, Settle, chatVars, Executing
  <2>2. \E p \in Executing : GoTo(r, p)
    BY <1>9 DEF Begin, LoopEnds, Consume, FindQueueEmpty, Settle, Executing
  <2> QED
    BY <1>5, <2>1, <2>2
<1>10. ASSUME NEW r \in Run, Terminate(r) \/ Fail(r) \/ ReturnUndecided(r) \/ Release(r)
       PROVE  ExecutingRunHoldsSession'
  <2>1. Leave(r)
    BY <1>10 DEF Terminate, Fail, ReturnUndecided, Release
  <2>2. active' = active \/ active = r
    BY <1>10 DEF Terminate, Fail, ReturnUndecided, Release, Terminalize, chatVars
  <2> QED
    BY <1>3, <2>1, <2>2
<1>11. CASE SetGoal \/ EndGoal
  BY <1>1, <1>11 DEF SetGoal, EndGoal, chatVars, turnVars
<1>12. ASSUME NEW c \in Run,
              \/ DeclineContinuation(c) \/ LockContinuation(c)
              \/ StartContinuation(c) \/ LoseContinuation(c)
       PROVE  ExecutingRunHoldsSession'
  <2>1. CASE StartContinuation(c)
    BY <1>2, <2>1 DEF StartContinuation
  <2>2. CASE ~StartContinuation(c)
    BY <1>1, <1>12, <2>2 DEF DeclineContinuation, LockContinuation, LoseContinuation,
                             chatVars, turnVars
  <2> QED
    BY <2>1, <2>2
<1>13. CASE UNCHANGED vars
  BY <1>1, <1>13 DEF vars, chatVars, turnVars
<1>14. ASSUME NEW r \in Run, ToolStep(r) PROVE ExecutingRunHoldsSession'
  BY <1>1, <1>14, ToolStepLeaves DEF turnVars
<1> QED
  BY <1>4, <1>6, <1>7, <1>8, <1>9, <1>10, <1>11, <1>12, <1>13, <1>14, NextParts

\* A run that executes holds its session, unless recovery took it away.
THEOREM RunsHoldTheSession == Spec => []ExecutingRunHoldsSession
<1>1. Init => ExecutingRunHoldsSession
  BY DEF Init, ExecutingRunHoldsSession, Executing
<1>2. TypeOK /\ ExecutingRunHoldsSession /\ [Next]_vars => ExecutingRunHoldsSession'
  BY NextHolds
<1> QED
  BY <1>1, <1>2, TypesHold, PTL DEF Spec

-----------------------------------------------------------------------------
(* The messages that the inputs become *)

LEMMA NextAppears ==
    ASSUME TypeOK, InputAppearsOnce, [Next]_vars
    PROVE  InputAppearsOnce'
<1> USE DEF TypeOK, InputAppearsOnce
<1>1. CASE UNCHANGED <<status, appears>>
  BY <1>1
<1>2. ASSUME NEW S, \A i \in S : status[i] = "queued", LeaveQueue(S, "skipped"),
             appears' = appears
      PROVE  InputAppearsOnce'
  BY <1>2 DEF LeaveQueue
<1>3. ASSUME NEW r \in Run, Terminalize(r)
      PROVE  InputAppearsOnce'
  BY <1>2, <1>3 DEF Terminalize, Queue, Queued
<1>4. CASE Enqueue
  BY <1>4 DEF Enqueue
<1>5. CASE WriteQueue
  <2>1. CASE request.deletes /\ LeaveQueue(request.reads, "deleted")
    BY <1>5, <2>1 DEF WriteQueue, LeaveQueue, Statuses
  <2>2. CASE ~request.deletes /\ status' = status
    BY <1>1, <1>5, <2>2 DEF WriteQueue
  <2> QED
    BY <1>5, <2>1, <2>2 DEF WriteQueue
<1>6. CASE ReadQueue \/ CancelRun \/ SetGoal \/ EndGoal
  BY <1>1, <1>6 DEF ReadQueue, CancelRun, SetGoal, EndGoal, inputVars
<1>7. ASSUME NEW r \in Run, Consume(r) PROVE InputAppearsOnce'
  BY <1>7 DEF Consume, IsHead, Queue, Queued, LeaveQueue
<1>8. ASSUME NEW r \in Run, Begin(r) \/ LoopEnds(r) \/ FindQueueEmpty(r) \/ Settle(r)
                           \/ SendMessage(r) \/ LaunchScheduled(r) \/ Crash(r) \/ Release(r)
      PROVE  InputAppearsOnce'
  BY <1>1, <1>8 DEF Begin, LoopEnds, FindQueueEmpty, Settle, SendMessage, LaunchScheduled,
                    Crash, Release, inputVars
<1>9. ASSUME NEW r \in Run, Terminate(r) \/ Fail(r) \/ ReturnUndecided(r) \/ Recover(r)
      PROVE  InputAppearsOnce'
  <2>1. CASE Terminalize(r)
    BY <1>3, <2>1
  <2>2. CASE LeaveQueue(Queue(r), "skipped") /\ appears' = appears
    BY <1>2, <2>2 DEF Queue, Queued
  <2>3. CASE UNCHANGED inputVars
    BY <1>1, <2>3 DEF inputVars
  <2> QED
    BY <1>9, <2>1, <2>2, <2>3 DEF Terminate, Fail, ReturnUndecided, Recover
<1>10. ASSUME NEW c \in Run,
              \/ DeclineContinuation(c) \/ LockContinuation(c)
              \/ StartContinuation(c) \/ LoseContinuation(c)
       PROVE  InputAppearsOnce'
  BY <1>1, <1>10 DEF DeclineContinuation, LockContinuation, StartContinuation,
                     LoseContinuation, inputVars
<1>11. CASE UNCHANGED vars
  BY <1>1, <1>11 DEF vars, inputVars
<1>12. ASSUME NEW r \in Run, ToolStep(r) PROVE InputAppearsOnce'
  BY <1>1, <1>12, ToolStepLeaves DEF inputVars
<1> QED
  BY <1>4, <1>5, <1>6, <1>7, <1>8, <1>9, <1>10, <1>11, <1>12, NextParts

\* An input becomes a message once, or never.
THEOREM InputsAppearOnce == Spec => []InputAppearsOnce
<1>1. Init => InputAppearsOnce
  BY DEF Init, InputAppearsOnce
<1>2. TypeOK /\ InputAppearsOnce /\ [Next]_vars => InputAppearsOnce'
  BY NextAppears
<1> QED
  BY <1>1, <1>2, TypesHold, PTL DEF Spec

-----------------------------------------------------------------------------
(* Overtaken runs *)

\* What recovery leaves of a run that goes on executing: nothing it could write
\* through.
OvertakenIsOut ==
    \A r \in Run : fate[r] = "overtaken" =>
        /\ phase[r] \in Executing \ {"claimed"} /\ active # r
        /\ r \notin inSequence /\ Queue(r) = {}

\* Leaving the queue gives no run a longer one.
LEMMA LeaveQueueQueues ==
    ASSUME TypeOK, NEW S, NEW outcome \in {"consumed", "skipped", "deleted"},
           LeaveQueue(S, outcome)
    PROVE  \A r \in Run : Queue(r)' \subseteq Queue(r) \ S
BY DEF LeaveQueue, Queue, Queued, TypeOK

LEMMA OutUnchanged ==
    ASSUME TypeOK, OvertakenIsOut, UNCHANGED <<fate, phase, inSequence>>,
           active' \in {active, None}, \A r \in Run : Queue(r)' \subseteq Queue(r)
    PROVE  OvertakenIsOut'
BY DEF OvertakenIsOut, TypeOK

LEMMA TakeOut ==
    ASSUME TypeOK, OvertakenIsOut, NEW r \in Run, NEW k, Take(r, k),
           UNCHANGED <<fate, inputVars>>
    PROVE  OvertakenIsOut'
BY DEF OvertakenIsOut, TypeOK, Take, IsFresh, Executing, inputVars, Queue, Queued

LEMMA LeaveOut ==
    ASSUME TypeOK, OvertakenIsOut, NEW r \in Run, Leave(r), active' \in {active, None},
           inSequence' \subseteq inSequence,
           \A q \in Run : Queue(q)' \subseteq Queue(q)
    PROVE  OvertakenIsOut'
BY DEF OvertakenIsOut, TypeOK, Leave, GoTo

\* A step within the turn: only a run that is still in sequence may write.
LEMMA LoopOut ==
    ASSUME TypeOK, OvertakenIsOut, NEW r \in Run, NEW p \in Executing \ {"claimed"},
           GoTo(r, p), UNCHANGED <<active, fate>>,
           inSequence' = inSequence \/ Write(r),
           \A q \in Run : Queue(q)' \subseteq Queue(q)
    PROVE  OvertakenIsOut'
BY DEF OvertakenIsOut, TypeOK, GoTo, Write

LEMMA BeginOut ==
    ASSUME TypeOK, OvertakenIsOut, NEW r \in Run, Begin(r)
    PROVE  OvertakenIsOut'
<1>1. fate[r] # "overtaken" /\ UNCHANGED <<active, fate, status>>
  BY DEF Begin, OvertakenIsOut
<1>2. \A q \in Run \ {r} : Queue(q)' \subseteq Queue(q)
  <2> DEFINE leftovers == {i \in Queued : owner[i] # r}
  <2>1. owner' = [i \in Input |-> IF i \in leftovers THEN r ELSE owner[i]]
    BY DEF Begin, AdoptLeftovers
  <2> HIDE DEF leftovers
  <2> QED
    BY <1>1, <2>1 DEF Queue, Queued
<1>3. \A q \in Run \ {r} : phase'[q] = phase[q] /\ (q \in inSequence' => q \in inSequence)
  BY DEF Begin, GoTo, TypeOK
<1> QED
  BY <1>1, <1>2, <1>3 DEF OvertakenIsOut, TypeOK

LEMMA RecoverOut ==
    ASSUME TypeOK, OvertakenIsOut, NEW r \in Run, Recover(r)
    PROVE  OvertakenIsOut'
<1>1. LeaveQueue(Queue(r), "skipped") /\ inSequence' = {} /\ active' = None /\ phase' = phase
  BY DEF Recover, Terminalize, WriteNotice
<1>2. \A q \in Run : Queue(q)' \subseteq Queue(q) \ Queue(r)
  BY <1>1, LeaveQueueQueues
<1>3. \A q \in Run \ {r} : fate'[q] = fate[q]
  BY DEF Recover, TypeOK
<1>4. fate'[r] = "overtaken" => phase[r] \in Executing \ {"claimed"}
  BY DEF Recover, TypeOK, OvertakenIsOut
<1> QED
  BY <1>1, <1>2, <1>3, <1>4 DEF OvertakenIsOut, TypeOK

LEMMA NextOut ==
    ASSUME TypeOK, OvertakenIsOut, [Next]_vars
    PROVE  OvertakenIsOut'
<1>1. UNCHANGED inputVars => \A q \in Run : Queue(q)' \subseteq Queue(q)
  BY DEF inputVars, Queue, Queued
<1>2. CASE Enqueue
  <2>1. PICK i \in Input : status[i] = "unused" /\ status' = [status EXCEPT ![i] = "queued"]
                          /\ owner' = [owner EXCEPT ![i] = active]
    BY <1>2 DEF Enqueue
  <2>2. \A q \in Run : q # active => Queue(q)' \subseteq Queue(q)
    BY <2>1 DEF TypeOK, Queue, Queued
  <2>3. UNCHANGED <<fate, phase, inSequence, active>>
    BY <1>2 DEF Enqueue, chatVars, turnVars
  <2> QED
    BY <2>2, <2>3 DEF OvertakenIsOut, TypeOK
<1>3. CASE WriteQueue
  <2>1. \A q \in Run : Queue(q)' \subseteq Queue(q)
    <3>1. CASE LeaveQueue(request.reads, "deleted")
      BY <3>1, LeaveQueueQueues
    <3>2. CASE UNCHANGED <<status, owner>>
      BY <3>2 DEF Queue, Queued
    <3> QED
      BY <1>3, <3>1, <3>2 DEF WriteQueue
  <2> QED
    BY <1>3, <2>1, OutUnchanged DEF WriteQueue, chatVars, turnVars
<1>4. CASE ReadQueue \/ CancelRun \/ SetGoal \/ EndGoal
  BY <1>1, <1>4, OutUnchanged DEF ReadQueue, CancelRun, SetGoal, EndGoal, chatVars, turnVars
<1>5. ASSUME NEW r \in Run, SendMessage(r) \/ LaunchScheduled(r) PROVE OvertakenIsOut'
  BY <1>5, TakeOut DEF SendMessage, LaunchScheduled
<1>6. ASSUME NEW r \in Run, Crash(r) PROVE OvertakenIsOut'
  BY <1>1, <1>6, LeaveOut DEF Crash, chatVars, Forget
<1>7. ASSUME NEW r \in Run, LoopEnds(r) \/ FindQueueEmpty(r) PROVE OvertakenIsOut'
  <2>1. UNCHANGED <<active, fate, inSequence>> /\ UNCHANGED inputVars
    BY <1>7 DEF LoopEnds, FindQueueEmpty, chatVars
  <2>2. \E p \in Executing \ {"claimed"} : GoTo(r, p)
    BY <1>7 DEF LoopEnds, FindQueueEmpty, Executing
  <2> QED
    BY <1>1, <2>1, <2>2, LoopOut
<1>8. ASSUME NEW r \in Run, Consume(r) PROVE OvertakenIsOut'
  <2>1. \A q \in Run : Queue(q)' \subseteq Queue(q)
    BY <1>8, LeaveQueueQueues DEF Consume
  <2>2. "looping" \in Executing \ {"claimed"}
    BY DEF Executing
  <2> QED
    BY <1>8, <2>1, <2>2, LoopOut DEF Consume, chatVars
<1>9. ASSUME NEW r \in Run, Settle(r) PROVE OvertakenIsOut'
  <2>1. "settled" \in Executing \ {"claimed"}
    BY DEF Executing
  <2> QED
    BY <1>1, <1>9, <2>1, LoopOut DEF Settle
<1>10. ASSUME NEW r \in Run, Terminate(r) \/ Fail(r) \/ ReturnUndecided(r) \/ Release(r)
       PROVE  OvertakenIsOut'
  <2>1. Leave(r)
    BY <1>10 DEF Terminate, Fail, ReturnUndecided, Release
  <2>2. active' \in {active, None} /\ inSequence' \subseteq inSequence
    BY <1>10 DEF Terminate, Fail, ReturnUndecided, Release, Terminalize, WriteNotice, Forget,
                 chatVars
  <2>3. \A q \in Run : Queue(q)' \subseteq Queue(q)
    <3>1. CASE LeaveQueue(Queue(r), "skipped")
      BY <3>1, LeaveQueueQueues
    <3>2. CASE UNCHANGED inputVars
      BY <1>1, <3>2
    <3> QED
      BY <1>10, <3>1, <3>2 DEF Terminate, Fail, ReturnUndecided, Release, Terminalize
  <2> QED
    BY <2>1, <2>2, <2>3, LeaveOut
<1>11. ASSUME NEW c \in Run,
              \/ DeclineContinuation(c) \/ LockContinuation(c)
              \/ StartContinuation(c) \/ LoseContinuation(c)
       PROVE  OvertakenIsOut'
  <2>1. CASE StartContinuation(c)
    BY <2>1, TakeOut DEF StartContinuation
  <2>2. CASE ~StartContinuation(c)
    BY <1>1, <1>11, <2>2, OutUnchanged DEF DeclineContinuation, LockContinuation,
             LoseContinuation, chatVars, turnVars
  <2> QED
    BY <2>1, <2>2
<1>12. CASE UNCHANGED vars
  BY <1>1, <1>12, OutUnchanged DEF vars, chatVars, turnVars
<1>13. ASSUME NEW r \in Run, ToolStep(r) PROVE OvertakenIsOut'
  <2>1. UNCHANGED <<active, fate, phase, inSequence, inputVars>>
    BY <1>13, ToolStepLeaves DEF turnVars
  <2> QED
    BY <1>1, <2>1, OutUnchanged
<1> QED
  BY <1>2, <1>3, <1>4, <1>5, <1>6, <1>7, <1>8, <1>9, <1>10, <1>11, <1>12, <1>13, NextParts,
     BeginOut, RecoverOut

LEMMA OvertakenStaysOut == Spec => []OvertakenIsOut
<1>1. Init => OvertakenIsOut
  BY DEF Init, OvertakenIsOut
<1>2. TypeOK /\ OvertakenIsOut /\ [Next]_vars => OvertakenIsOut'
  BY NextOut
<1> QED
  BY <1>1, <1>2, TypesHold, PTL DEF Spec

\* The turn of an overtaken run commits nothing more to its session, whatever it
\* still does; its tools write the plan and complete the goal of whoever has it.
THEOREM OvertakenRunsAreFenced == Spec => OvertakenRunIsFenced
<1> DEFINE Kept == UNCHANGED <<active, cancel, pending, inputVars,
                               continuing, lock, readRuns, autoStarted>>
           Fenced(r) == fate[r] = "overtaken" /\ (TurnStep(r) \/ ToolStep(r))
                          => /\ Kept
                             /\ phase'[r] # "settled"
                             /\ phase'[r] # "looping" => UNCHANGED <<plan, goal>>
<1>1. ASSUME TypeOK, OvertakenIsOut, NEW r \in Run, fate[r] = "overtaken", TurnStep(r)
      PROVE  UNCHANGED <<chatVars, inputVars, goalVars>> /\ phase'[r] # "settled"
  <2>1. phase[r] # "claimed" /\ active # r /\ r \notin inSequence /\ Queue(r) = {}
    BY <1>1 DEF OvertakenIsOut
  <2>2. ~Begin(r) /\ ~Consume(r) /\ ~Settle(r) /\ ~Terminate(r) /\ ~Terminalize(r)
    BY <2>1 DEF Begin, Consume, Settle, Write, Terminate, Terminalize
  <2>3. CASE LoopEnds(r) \/ FindQueueEmpty(r)
    BY <1>1, <2>3 DEF LoopEnds, FindQueueEmpty, GoTo, TypeOK
  <2>4. CASE Fail(r)
    <3>1. LeaveQueue({}, "skipped") /\ UNCHANGED <<chatVars, appears, goalVars>> /\ Leave(r)
      BY <2>1, <2>2, <2>4 DEF Fail
    <3>2. UNCHANGED inputVars
      BY <1>1, <3>1 DEF LeaveQueue, TypeOK, inputVars
    <3> QED
      BY <1>1, <3>1, <3>2 DEF Leave, GoTo, TypeOK
  <2>5. CASE ReturnUndecided(r) \/ Release(r)
    BY <1>1, <2>1, <2>2, <2>5 DEF ReturnUndecided, Release, Leave, GoTo, TypeOK, chatVars
  <2> QED
    BY <1>1, <2>2, <2>3, <2>4, <2>5 DEF TurnStep
<1>2. ASSUME TypeOK, NEW r \in Run, ToolStep(r)
      PROVE  Kept /\ phase'[r] = "looping"
  BY <1>2, ToolStepLeaves DEF turnVars
<1>3. TypeOK /\ OvertakenIsOut /\ [Next]_vars => \A r \in Run : Fenced(r)
  <2> SUFFICES ASSUME TypeOK, OvertakenIsOut, NEW r \in Run,
                      fate[r] = "overtaken", TurnStep(r) \/ ToolStep(r)
               PROVE  /\ Kept
                      /\ phase'[r] # "settled"
                      /\ phase'[r] # "looping" => UNCHANGED <<plan, goal>>
    OBVIOUS
  <2>1. CASE TurnStep(r)
    BY <1>1, <2>1 DEF chatVars, goalVars
  <2>2. CASE ToolStep(r)
    BY <1>2, <2>2
  <2> QED
    BY <2>1, <2>2
<1>4. TypeOK /\ OvertakenIsOut /\ [Next]_vars => [\A r \in Run : Fenced(r)]_vars
  BY <1>3
<1> QED
  BY <1>4, TypesHold, OvertakenStaysOut, PTL DEF Spec, OvertakenRunIsFenced

-----------------------------------------------------------------------------
(* The goal *)

\* A continuation that holds the session has read a counter below the limit, and
\* none was started since: what may change the goal meanwhile sets it back to 0.
LockedWithinLimit ==
    lock # None => readRuns < MaxAutoRuns /\ autoStarted <= readRuns

LEMMA NextGoal ==
    ASSUME TypeOK, AutoRunsBounded, LockedWithinLimit, [Next]_vars
    PROVE  AutoRunsBounded' /\ LockedWithinLimit'
<1> USE DEF TypeOK, AutoRunsBounded, LockedWithinLimit
<1>1. CASE UNCHANGED goalVars
  BY <1>1 DEF goalVars
<1>2. CASE RecordUsage /\ UNCHANGED <<lock, readRuns, autoStarted>>
  BY <1>2 DEF RecordUsage
<1>3. CASE Enqueue \/ ReadQueue \/ WriteQueue \/ CancelRun
  BY <1>1, <1>3 DEF Enqueue, ReadQueue, WriteQueue, CancelRun
<1>4. ASSUME NEW r \in Run,
             \/ SendMessage(r) \/ LaunchScheduled(r) \/ Crash(r) \/ Recover(r)
             \/ Begin(r) \/ LoopEnds(r) \/ Consume(r) \/ FindQueueEmpty(r) \/ Fail(r)
             \/ ReturnUndecided(r) \/ Release(r)
      PROVE  AutoRunsBounded' /\ LockedWithinLimit'
  BY <1>1, <1>4 DEF SendMessage, LaunchScheduled, Crash, Recover, Begin, LoopEnds, Consume,
                    FindQueueEmpty, Fail, ReturnUndecided, Release
<1>5. ASSUME NEW r \in Run, Settle(r)
      PROVE  AutoRunsBounded' /\ LockedWithinLimit'
  BY <1>2, <1>5 DEF Settle
<1>6. ASSUME NEW r \in Run, Terminate(r)
      PROVE  AutoRunsBounded' /\ LockedWithinLimit'
  <2>1. CASE RecordUsage
    BY <1>2, <1>6, <2>1 DEF Terminate
  <2>2. CASE goal' = goal
    BY <1>6, <2>2 DEF Terminate
  <2> QED
    BY <1>6, <2>1, <2>2 DEF Terminate
<1>7. CASE SetGoal
  BY <1>7 DEF SetGoal
<1>8. CASE EndGoal
  BY <1>8 DEF EndGoal
<1>9. ASSUME NEW c \in Run, DeclineContinuation(c)
      PROVE  AutoRunsBounded' /\ LockedWithinLimit'
  BY <1>9 DEF DeclineContinuation
<1>10. ASSUME NEW c \in Run, LockContinuation(c)
       PROVE  AutoRunsBounded' /\ LockedWithinLimit'
  BY <1>10 DEF LockContinuation, MayContinue, WithinRuns
<1>11. ASSUME NEW c \in Run, StartContinuation(c)
       PROVE  AutoRunsBounded' /\ LockedWithinLimit'
  BY <1>11 DEF StartContinuation
<1>12. ASSUME NEW c \in Run, LoseContinuation(c)
       PROVE  AutoRunsBounded' /\ LockedWithinLimit'
  BY <1>12 DEF LoseContinuation
<1>13. CASE UNCHANGED vars
  BY <1>1, <1>13 DEF vars, goalVars
<1>14. ASSUME NEW r \in Run, ToolStep(r)
       PROVE  AutoRunsBounded' /\ LockedWithinLimit'
  <2>1. UNCHANGED <<lock, readRuns, autoStarted>> /\ goal'.autoRuns = goal.autoRuns
    BY <1>14, ToolStepLeaves
  <2> QED
    BY <2>1
<1> QED
  BY <1>3, <1>4, <1>5, <1>6, <1>7, <1>8, <1>9, <1>10, <1>11, <1>12, <1>13, <1>14, NextParts

\* No goal is continued more often than its limit.
THEOREM GoalRunsAreBounded == Spec => []AutoRunsBounded
<1>1. Init => AutoRunsBounded /\ LockedWithinLimit
  BY DEF Init, AutoRunsBounded, LockedWithinLimit
<1>2. TypeOK /\ AutoRunsBounded /\ LockedWithinLimit /\ [Next]_vars
        => AutoRunsBounded' /\ LockedWithinLimit'
  BY NextGoal
<1> QED
  BY <1>1, <1>2, TypesHold, PTL DEF Spec

-----------------------------------------------------------------------------
(* The contract of a session *)

\* A fate is that of a run which still executes, without the session.
FateIsCurrent ==
    \A r \in Run : fate[r] # "kept" => phase[r] \in Executing /\ active # r

LEMMA NextFate ==
    ASSUME TypeOK, FateIsCurrent, [Next]_vars
    PROVE  FateIsCurrent'
<1> USE DEF TypeOK, FateIsCurrent
<1>1. CASE UNCHANGED <<phase, active, fate>>
  BY <1>1
<1>2. ASSUME NEW r \in Run, NEW k, Take(r, k), fate' = fate
      PROVE  FateIsCurrent'
  BY <1>2 DEF Take, IsFresh, Executing
<1>3. ASSUME NEW r \in Run, Leave(r), active' \in {active, None}
      PROVE  FateIsCurrent'
  BY <1>3 DEF Leave, GoTo
<1>4. ASSUME NEW r \in Run, Recover(r)
      PROVE  FateIsCurrent'
  BY <1>4 DEF Recover, Terminalize, Executing
<1>5. ASSUME NEW r \in Run, NEW p \in Executing, GoTo(r, p), UNCHANGED <<active, fate>>
      PROVE  FateIsCurrent'
  BY <1>5 DEF GoTo
<1>6. CASE Enqueue \/ ReadQueue \/ WriteQueue \/ CancelRun \/ SetGoal \/ EndGoal
  BY <1>1, <1>6 DEF Enqueue, ReadQueue, WriteQueue, CancelRun, SetGoal, EndGoal, chatVars,
                    turnVars
<1>7. CASE \E r \in Run : SendMessage(r) \/ LaunchScheduled(r)
  BY <1>2, <1>7 DEF SendMessage, LaunchScheduled
<1>8. ASSUME NEW r \in Run,
             Terminate(r) \/ Fail(r) \/ ReturnUndecided(r) \/ Release(r) \/ Crash(r)
      PROVE  FateIsCurrent'
  <2>1. Leave(r)
    BY <1>8 DEF Terminate, Fail, ReturnUndecided, Release, Crash
  <2>2. active' \in {active, None}
    BY <1>8 DEF Terminate, Fail, ReturnUndecided, Release, Crash, Terminalize, chatVars
  <2> QED
    BY <1>3, <2>1, <2>2
<1>9. ASSUME NEW r \in Run,
             Begin(r) \/ LoopEnds(r) \/ Consume(r) \/ FindQueueEmpty(r) \/ Settle(r)
      PROVE  FateIsCurrent'
  <2>1. UNCHANGED <<active, fate>>
    BY <1>9 DEF Begin, LoopEnds, Consume, FindQueueEmpty, Settle, chatVars
  <2>2. \E p \in Executing : GoTo(r, p)
    BY <1>9 DEF Begin, LoopEnds, Consume, FindQueueEmpty, Settle, Executing
  <2> QED
    BY <1>5, <2>1, <2>2
<1>10. ASSUME NEW c \in Run,
              \/ DeclineContinuation(c) \/ LockContinuation(c)
              \/ StartContinuation(c) \/ LoseContinuation(c)
       PROVE  FateIsCurrent'
  <2>1. CASE StartContinuation(c)
    BY <1>2, <2>1 DEF StartContinuation
  <2>2. CASE ~StartContinuation(c)
    BY <1>1, <1>10, <2>2 DEF DeclineContinuation, LockContinuation, LoseContinuation,
                             chatVars, turnVars
  <2> QED
    BY <2>1, <2>2
<1>11. CASE UNCHANGED vars
  BY <1>1, <1>11 DEF vars, chatVars, turnVars
<1>12. ASSUME NEW r \in Run, ToolStep(r) PROVE FateIsCurrent'
  BY <1>1, <1>12, ToolStepLeaves DEF turnVars
<1> QED
  BY <1>4, <1>6, <1>7, <1>8, <1>9, <1>10, <1>11, <1>12, NextParts

\* A request writes rows of inputs that were sent; a deletion writes one.
RequestIsOfSent ==
    /\ \A i \in request.reads : status[i] # "unused"
    /\ request.deletes => \E i \in Input : request.reads = {i}

LEMMA NextRequest ==
    ASSUME TypeOK, RequestIsOfSent, [Next]_vars
    PROVE  RequestIsOfSent'
<1> USE DEF TypeOK, RequestIsOfSent
<1>1. ASSUME request' = request, \A i \in Input : status[i] # "unused" => status'[i] # "unused"
      PROVE  RequestIsOfSent'
  BY <1>1
<1>2. ASSUME NEW S, NEW outcome \in {"consumed", "skipped"}, LeaveQueue(S, outcome),
             request' = request
      PROVE  RequestIsOfSent'
  BY <1>1, <1>2 DEF LeaveQueue
<1>3. CASE Enqueue
  BY <1>1, <1>3 DEF Enqueue
<1>4. CASE ReadQueue
  <2>1. status' = status
    BY <1>4 DEF ReadQueue, inputVars
  <2>2. ASSUME NEW i \in Queued, request' = [NoRequest EXCEPT !.reads = {i}, !.deletes = TRUE]
        PROVE  RequestIsOfSent'
    <3>1. i \in Input /\ request'.reads = {i} /\ status[i] = "queued"
      BY <2>2 DEF NoRequest, Queued
    <3> QED
      BY <2>1, <3>1
  <2>3. ASSUME NEW at, request' = [reads |-> {i \in Queued : at[i] # position[i]},
                                   deletes |-> FALSE, at |-> at]
        PROVE  RequestIsOfSent'
    <3>1. request'.reads \subseteq Queued /\ request'.deletes = FALSE
      BY <2>3
    <3> QED
      BY <2>1, <3>1 DEF Queued
  <2> HIDE DEF TypeOK, RequestIsOfSent
  <2> QED
    BY <1>4, <2>2, <2>3, Zenon DEF ReadQueue
<1>5. CASE WriteQueue
  <2>1. request' = NoRequest
    BY <1>5 DEF WriteQueue
  <2> QED
    BY <2>1 DEF NoRequest
<1>6. CASE CancelRun \/ SetGoal \/ EndGoal \/ UNCHANGED vars
  BY <1>1, <1>6 DEF CancelRun, SetGoal, EndGoal, inputVars, vars
<1>7. ASSUME NEW r \in Run, Begin(r) \/ LoopEnds(r) \/ FindQueueEmpty(r) \/ Settle(r)
                           \/ SendMessage(r) \/ LaunchScheduled(r) \/ Crash(r) \/ Release(r)
      PROVE  RequestIsOfSent'
  BY <1>1, <1>7 DEF Begin, LoopEnds, FindQueueEmpty, Settle, SendMessage, LaunchScheduled,
                    Crash, Release, inputVars
<1>8. ASSUME NEW r \in Run, Consume(r) PROVE RequestIsOfSent'
  BY <1>2, <1>8 DEF Consume
<1>9. ASSUME NEW r \in Run, Terminate(r) \/ Fail(r) \/ ReturnUndecided(r) \/ Recover(r)
      PROVE  RequestIsOfSent'
  <2>1. request' = request /\ (UNCHANGED inputVars \/ LeaveQueue(Queue(r), "skipped"))
    BY <1>9 DEF Terminate, Fail, ReturnUndecided, Recover, Terminalize
  <2> QED
    BY <1>1, <1>2, <2>1 DEF inputVars
<1>10. ASSUME NEW c \in Run,
              \/ DeclineContinuation(c) \/ LockContinuation(c)
              \/ StartContinuation(c) \/ LoseContinuation(c)
       PROVE  RequestIsOfSent'
  BY <1>1, <1>10 DEF DeclineContinuation, LockContinuation, StartContinuation,
                     LoseContinuation, inputVars
<1>11. ASSUME NEW r \in Run, ToolStep(r) PROVE RequestIsOfSent'
  BY <1>1, <1>11, ToolStepLeaves DEF inputVars
<1> QED
  BY <1>3, <1>4, <1>5, <1>6, <1>7, <1>8, <1>9, <1>10, <1>11, NextParts

\* What the contract needs to know of the state.
SessionInv ==
    /\ TypeOK /\ ExecutingRunHoldsSession /\ OvertakenIsOut
    /\ FateIsCurrent /\ RequestIsOfSent

LEMMA SessionInvHolds == Spec => []SessionInv
<1>1. Init => FateIsCurrent /\ RequestIsOfSent
  BY DEF Init, FateIsCurrent, RequestIsOfSent, NoRequest
<1>2. TypeOK /\ FateIsCurrent /\ RequestIsOfSent /\ [Next]_vars
        => FateIsCurrent' /\ RequestIsOfSent'
  BY NextFate, NextRequest
<1> QED
  BY <1>1, <1>2, TypesHold, RunsHoldTheSession, OvertakenStaysOut, PTL DEF Spec, SessionInv

\* What the user of the session does not see.
LEMMA UnseenStep ==
    ASSUME UNCHANGED <<active, pending, status, appears, fate>>
    PROVE  UNCHANGED Session!cvars
BY DEF Session!cvars, Place, Late

LEMMA QueuedIsWaiting == Session!Waiting = Queued
BY DEF Session!Waiting, Place, Queued

LEMMA LeaveQueueDrops ==
    ASSUME TypeOK, NEW S \in SUBSET Queued, NEW outcome \in {"skipped", "deleted"},
           LeaveQueue(S, outcome), appears' = appears
    PROVE  Session!Drop(S)
<1>1. \A i \in Input : Place'[i] = IF i \in S THEN "gone" ELSE Place[i]
  BY DEF LeaveQueue, Place
<1>2. Place' = [i \in Input |-> IF i \in S THEN "gone" ELSE Place[i]]
  BY <1>1 DEF Place
<1> QED
  BY <1>2, QueuedIsWaiting DEF Session!Drop

LEMMA NothingDropped ==
    ASSUME UNCHANGED <<status, appears>>
    PROVE  Session!Drop({})
<1>1. \A i \in Input : Place'[i] = IF i \in {} THEN "gone" ELSE Place[i]
  BY DEF Place
<1>2. Place' = [i \in Input |-> IF i \in {} THEN "gone" ELSE Place[i]]
  BY <1>1 DEF Place
<1> QED
  BY <1>2 DEF Session!Drop

\* A run that may write to the session has it, or does not know that it lost it.
LEMMA WhoSpeaks ==
    ASSUME SessionInv, NEW r \in Run, phase[r] \in Executing, fate[r] # "overtaken"
    PROVE  r \in Session!Speakers
BY DEF SessionInv, TypeOK, ExecutingRunHoldsSession, Session!Speakers, Late

LEMMA LeaveEndsLateness ==
    ASSUME TypeOK, NEW r \in Run, Leave(r)
    PROVE  Late' = Late \ {r}
BY DEF TypeOK, Leave, Late

LEMMA TakeOpens ==
    ASSUME NEW r \in Run, NEW k, Take(r, k), UNCHANGED <<inputVars, fate>>
    PROVE  Session!Open(r)
BY DEF Take, Session!Open, inputVars, Place, Late

LEMMA WriteIsDelete ==
    ASSUME SessionInv, WriteQueue
    PROVE  UNCHANGED Session!cvars \/ \E i \in Input : Session!Delete(i)
<1>1. UNCHANGED <<active, pending, fate, appears>>
  BY DEF WriteQueue, chatVars
<1>2. CASE UNCHANGED status
  BY <1>1, <1>2, UnseenStep
<1>3. CASE request.deletes /\ LeaveQueue(request.reads, "deleted")
  <2>1. PICK i \in Input : request.reads = {i} /\ status[i] # "unused"
    BY <1>3 DEF SessionInv, RequestIsOfSent
  <2>2. CASE status[i] = "queued"
    <3>1. Session!Drop({i})
      BY <1>1, <1>3, <2>1, <2>2, LeaveQueueDrops DEF SessionInv, Queued
    <3> QED
      BY <1>1, <3>1 DEF Session!Delete, Late
  <2>3. CASE status[i] # "queued"
    <3>1. \A j \in Input : Place'[j] = Place[j]
      BY <1>3, <2>1, <2>3 DEF LeaveQueue, Place
    <3>2. Place' = Place
      BY <3>1 DEF Place
    <3> QED
      BY <1>1, <3>2 DEF Session!cvars, Late
  <2> QED
    BY <2>2, <2>3
<1> QED
  BY <1>2, <1>3 DEF WriteQueue

LEMMA EnqueueSubmits ==
    ASSUME SessionInv, Enqueue
    PROVE  \E i \in Input : Session!Submit(i)
<1>1. PICK i \in Input : status[i] = "unused" /\ status' = [status EXCEPT ![i] = "queued"]
  BY DEF Enqueue
<1>2. \A j \in Input \ {i} : status'[j] = status[j]
  BY <1>1 DEF SessionInv, TypeOK
<1>3. status'[i] = "queued"
  BY <1>1 DEF SessionInv, TypeOK
<1>4. \A j \in Input : Place'[j] = [Place EXCEPT ![i] = "waiting"][j]
  BY <1>2, <1>3 DEF Place
<1>5. Place' = [Place EXCEPT ![i] = "waiting"]
  BY <1>4 DEF Place
<1>6. Place[i] = "new"
  BY <1>1 DEF Place
<1>7. active # None /\ UNCHANGED <<active, pending, appears, fate>>
  BY DEF Enqueue, chatVars
<1> QED
  BY <1>5, <1>6, <1>7 DEF Session!Submit, Late

LEMMA ConsumeSays ==
    ASSUME SessionInv, NEW r \in Run, Consume(r)
    PROVE  \E i \in Input : Session!Say(r, i)
<1>1. PICK i \in Input : /\ IsHead(i, r) /\ LeaveQueue({i}, "consumed")
                         /\ appears' = [appears EXCEPT ![i] = @ + 1]
  BY DEF Consume
<1>2. i \in Session!Waiting
  BY <1>1, QueuedIsWaiting DEF IsHead, Queue
<1>3. \A j \in Input : Place'[j] = [Place EXCEPT ![i] = "gone"][j]
  BY <1>1 DEF LeaveQueue, Place
<1>4. Place' = [Place EXCEPT ![i] = "gone"]
  BY <1>3 DEF Place
<1>5. r \in Session!Speakers
  <2>1. phase[r] \in Executing /\ r \in inSequence
    BY DEF Consume, Write, Executing
  <2>2. fate[r] # "overtaken"
    BY <2>1 DEF SessionInv, OvertakenIsOut
  <2> QED
    BY <2>1, <2>2, WhoSpeaks
<1> QED
  BY <1>1, <1>2, <1>4, <1>5 DEF Consume, chatVars, Session!Say, Late

LEMMA TurnAsks ==
    ASSUME SessionInv, SessionInv', NEW r \in Run, Begin(r) \/ Settle(r)
    PROVE  Session!Ask(r)
<1>1. phase[r] \in Executing /\ fate[r] # "overtaken"
  BY DEF Begin, Settle, Write, Executing, SessionInv, OvertakenIsOut
<1>2. UNCHANGED <<active, status, appears, fate>>
  BY DEF Begin, Settle, inputVars
<1>3. pending' \in Session!Waits
  BY DEF SessionInv, TypeOK, Session!Waits
<1> QED
  BY <1>1, <1>2, <1>3, WhoSpeaks DEF Session!Ask, Place, Late

LEMMA TerminalizeTerminates ==
    ASSUME SessionInv, NEW r \in Run, Terminalize(r), Late' \in {Late, Late \cup {r}}
    PROVE  Session!Terminate(r)
<1>1. Queue(r) \in SUBSET Queued /\ LeaveQueue(Queue(r), "skipped") /\ appears' = appears
  BY DEF Terminalize, Queue
<1>2. Session!Drop(Queue(r))
  BY <1>1, LeaveQueueDrops DEF SessionInv
<1>3. Queue(r) \in SUBSET Session!Waiting
  BY <1>1, QueuedIsWaiting
<1> QED
  BY <1>2, <1>3 DEF Terminalize, Session!Terminate

\* The holder is not late.
LEMMA HolderTerminates ==
    ASSUME SessionInv, NEW r \in Run, Terminalize(r), Leave(r)
    PROVE  Session!Terminate(r)
<1>1. r \notin Late
  BY DEF Terminalize, SessionInv, FateIsCurrent, Late
<1>2. Late' = Late
  BY <1>1, LeaveEndsLateness DEF SessionInv
<1> QED
  BY <1>2, TerminalizeTerminates

\* A run that has lost the session ends: nobody sees it, or it was late.
LEMMA LoserEnds ==
    ASSUME SessionInv, NEW r \in Run, Leave(r), UNCHANGED <<active, pending>>,
           \/ UNCHANGED inputVars
           \/ active # r /\ phase[r] \in Executing
              /\ LeaveQueue(Queue(r), "skipped") /\ appears' = appears
    PROVE  UNCHANGED Session!cvars \/ Session!LateEnds(r)
<1>1. Late' = Late \ {r}
  BY LeaveEndsLateness DEF SessionInv
<1>2. CASE UNCHANGED inputVars
  <2>1. Session!Drop({}) /\ {} \in SUBSET Session!Waiting
    BY <1>2, NothingDropped DEF inputVars
  <2>2. CASE r \in Late
    BY <1>1, <2>1, <2>2 DEF Session!LateEnds
  <2>3. CASE r \notin Late
    BY <1>1, <1>2, <2>3 DEF inputVars, Session!cvars, Place
  <2> QED
    BY <2>2, <2>3
<1>3. CASE /\ active # r /\ phase[r] \in Executing
           /\ LeaveQueue(Queue(r), "skipped") /\ appears' = appears
  <2>1. Queue(r) \in SUBSET Queued
    BY DEF Queue
  <2>2. Session!Drop(Queue(r)) /\ Queue(r) \in SUBSET Session!Waiting
    BY <1>3, <2>1, LeaveQueueDrops, QueuedIsWaiting DEF SessionInv
  <2>3. CASE r \in Late
    BY <1>1, <2>2, <2>3 DEF Session!LateEnds
  <2>4. CASE r \notin Late
    <3>1. Queue(r) = {}
      BY <1>3, <2>4 DEF SessionInv, TypeOK, ExecutingRunHoldsSession, OvertakenIsOut, Late
    <3>2. UNCHANGED <<status, appears>>
      BY <1>3, <3>1 DEF LeaveQueue, SessionInv, TypeOK
    <3> QED
      BY <1>1, <2>4, <3>2 DEF Session!cvars, Place
  <2> QED
    BY <2>3, <2>4
<1> QED
  BY <1>2, <1>3

\* The steps that end a turn.
LEMMA EndIsSeen ==
    ASSUME SessionInv, NEW r \in Run,
           Terminate(r) \/ Fail(r) \/ ReturnUndecided(r) \/ Release(r) \/ Crash(r)
    PROVE  \/ UNCHANGED Session!cvars
           \/ Session!Terminate(r) \/ Session!Release(r) \/ Session!LateEnds(r)
<1>1. Leave(r)
  BY DEF Terminate, Fail, ReturnUndecided, Release, Crash
<1>2. CASE Terminalize(r)
  BY <1>1, <1>2, HolderTerminates
<1>3. CASE Crash(r)
  BY <1>1, <1>3, LoserEnds DEF Crash, chatVars
<1>4. CASE Release(r)
  <2>1. CASE active = r
    <3>1. r \notin Late
      BY <2>1 DEF SessionInv, FateIsCurrent, Late
    <3>2. Late' = Late
      BY <1>1, <3>1, LeaveEndsLateness DEF SessionInv
    <3> QED
      BY <1>4, <2>1, <3>2 DEF Release, inputVars, Session!Release, Place
  <2>2. CASE active # r
    BY <1>1, <1>4, <2>2, LoserEnds DEF Release
  <2> QED
    BY <2>1, <2>2
<1>5. CASE (Terminate(r) \/ ReturnUndecided(r)) /\ ~Terminalize(r)
  <2>1. UNCHANGED <<chatVars, inputVars>>
    BY <1>5 DEF Terminate, ReturnUndecided
  <2> QED
    BY <1>1, <2>1, LoserEnds DEF chatVars
<1>6. CASE Fail(r) /\ ~Terminalize(r)
  <2>1. active # r /\ phase[r] \in Executing
    BY <1>6 DEF Fail, Executing
  <2>2. LeaveQueue(Queue(r), "skipped") /\ UNCHANGED <<chatVars, appears>>
    BY <1>6 DEF Fail
  <2> QED
    BY <1>1, <2>1, <2>2, LoserEnds DEF chatVars
<1> QED
  BY <1>2, <1>3, <1>4, <1>5, <1>6

LEMMA RecoverTerminates ==
    ASSUME SessionInv, NEW r \in Run, Recover(r)
    PROVE  Session!Terminate(r)
<1>1. Terminalize(r) /\ fate[r] = "kept"
  BY DEF Recover, Terminalize, SessionInv, FateIsCurrent
<1>2. \A q \in Run \ {r} : fate'[q] = fate[q]
  BY DEF Recover, SessionInv, TypeOK
<1>3. Late' \in {Late, Late \cup {r}}
  BY <1>1, <1>2 DEF Late
<1> QED
  BY <1>1, <1>3, TerminalizeTerminates

LEMMA StepKeepsSession ==
    ASSUME SessionInv, SessionInv', [Next]_vars
    PROVE  [Session!CNext]_(Session!cvars)
<1> USE DEF Session!CNext
<1>1. CASE Enqueue
  BY <1>1, EnqueueSubmits
<1>2. CASE WriteQueue
  BY <1>2, WriteIsDelete
<1>3. CASE ReadQueue \/ CancelRun \/ SetGoal \/ EndGoal \/ UNCHANGED vars
  BY <1>3, UnseenStep DEF ReadQueue, CancelRun, SetGoal, EndGoal, vars, chatVars, inputVars
<1>4. ASSUME NEW r \in Run, SendMessage(r) \/ LaunchScheduled(r)
      PROVE  Session!CNext
  BY <1>4, TakeOpens DEF SendMessage, LaunchScheduled
<1>5. ASSUME NEW r \in Run, LoopEnds(r) \/ FindQueueEmpty(r)
      PROVE  UNCHANGED Session!cvars
  BY <1>5, UnseenStep DEF LoopEnds, FindQueueEmpty, chatVars, inputVars
<1>6. ASSUME NEW r \in Run, Consume(r) PROVE Session!CNext
  BY <1>6, ConsumeSays
<1>7. ASSUME NEW r \in Run, Begin(r) \/ Settle(r) PROVE Session!CNext
  BY <1>7, TurnAsks
<1>8. ASSUME NEW r \in Run,
             Terminate(r) \/ Fail(r) \/ ReturnUndecided(r) \/ Release(r) \/ Crash(r)
      PROVE  [Session!CNext]_(Session!cvars)
  BY <1>8, EndIsSeen
<1>9. ASSUME NEW r \in Run, Recover(r) PROVE Session!CNext
  BY <1>9, RecoverTerminates
<1>10. ASSUME NEW c \in Run,
              \/ DeclineContinuation(c) \/ LockContinuation(c)
              \/ StartContinuation(c) \/ LoseContinuation(c)
       PROVE  [Session!CNext]_(Session!cvars)
  <2>1. CASE StartContinuation(c)
    BY <2>1, TakeOpens DEF StartContinuation
  <2>2. CASE ~StartContinuation(c)
    BY <1>10, <2>2, UnseenStep DEF DeclineContinuation, LockContinuation, LoseContinuation,
                                   chatVars, inputVars
  <2> QED
    BY <2>1, <2>2
<1>11. ASSUME NEW r \in Run, ToolStep(r) PROVE UNCHANGED Session!cvars
  BY <1>11, ToolStepLeaves, UnseenStep DEF SessionInv, inputVars
<1> HIDE DEF Session!CNext
<1> QED
  BY <1>1, <1>2, <1>3, <1>4, <1>5, <1>6, <1>7, <1>8, <1>9, <1>10, <1>11, NextParts

\* AgentRuns implements the contract of a session, for any runs and inputs and
\* with recovery that overtakes them.
THEOREM SessionsKeepTheirContract == Spec => KeepsSession
<1>1. Init => Session!CInit
  <2> SUFFICES ASSUME Init PROVE Session!CInit
    OBVIOUS
  <2>1. Place = [i \in Input |-> "new"]
    BY DEF Init, Place
  <2>2. Late = {}
    BY DEF Init, Late
  <2> QED
    BY <2>1, <2>2 DEF Init, Session!CInit
<1>2. SessionInv /\ SessionInv' /\ [Next]_vars => [Session!CNext]_(Session!cvars)
  BY StepKeepsSession
<1> QED
  BY <1>1, <1>2, SessionInvHolds, PTL DEF Spec, KeepsSession, Session!CSpec
=============================================================================
