---------------------------- MODULE OutboxProofs ----------------------------
(***************************************************************************)
(* Theorems about the outbox, for any number of events, consumers and      *)
(* claim tokens and any settings.                                          *)
(***************************************************************************)
EXTENDS OutboxRefinement, FiniteSetTheorems, TLAPS

USE CardinalAssumption, NoneAssumption, KindAssumption, SettingsAssumption

(***************************************************************************)
(* A claimed batch is not larger than what the round may still claim.      *)
(***************************************************************************)
LEMMA BatchWithinRemaining ==
    ASSUME NEW S \in SUBSET Event, NEW T \in SUBSET Event, NEW r \in Nat,
           Cardinality(S) = AtMost(AtMost(r, Concurrency), Cardinality(T))
    PROVE  Cardinality(S) \in 0..r
<1>1. Cardinality(S) \in Nat /\ Cardinality(T) \in Nat
  BY FS_Subset, FS_CardinalityType
<1> QED
  BY <1>1 DEF AtMost

(***************************************************************************)
(* What a task steps on when it settles: its job is an event.              *)
(***************************************************************************)
TasksHaveJobs == \A t \in Task : pc[t] # "idle" => job[t] \in Event

\* An event that may still be claimed has an attempt left.
AttemptLeft ==
    \A e \in Event : status[e] \in {"absent", "pending"}
                        => attempts[e] < MaxAttempts

\* A request in flight is one of the retries that were asked for.
AskedIsCounted == \A e \in Event : asked[e] <= userRetries[e]

TypeInv == TypeOK /\ TasksHaveJobs /\ AttemptLeft /\ AskedIsCounted

LEMMA InitTypeInv == Init => TypeInv
BY DEF Init, TypeInv, TypeOK, TasksHaveJobs, AttemptLeft, AskedIsCounted, Statuses, OpStatuses, Lifecycles,
       TaskStates, Rounds

LEMMA ReleaseFailedType ==
    ASSUME TypeInv, NEW S \in SUBSET Event, NEW wait \in [Event -> 0..RetryMax],
           NEW dead \in SUBSET S,
           \A e \in S : e \notin dead => ~Exhausted(e),
           ReleaseFailed(S, dead, wait)
    PROVE  /\ kind' \in [Event -> Kinds]
           /\ status' \in [Event -> Statuses]
           /\ attempts' \in [Event -> 0..MaxAttempts]
           /\ claim' \in [Event -> Task \cup {None}]
           /\ lease' \in [Event -> 0..LeaseTicks]
           /\ delay' \in [Event -> 0..RetryMax]
           /\ op' \in [Event -> OpStatuses]
           /\ lifecycle' \in [Event -> Lifecycles]
           /\ effects' \in [Event -> Nat]
           /\ partial' \in [Event -> BOOLEAN]
           /\ userRetries' \in [Event -> 0..MaxUserRetries]
           /\ asked' \in [Event -> 0..MaxUserRetries]
           /\ AttemptLeft' /\ AskedIsCounted'
<1>1. /\ kind' \in [Event -> Kinds] /\ attempts' \in [Event -> 0..MaxAttempts]
      /\ effects' \in [Event -> Nat] /\ partial' \in [Event -> BOOLEAN]
      /\ userRetries' \in [Event -> 0..MaxUserRetries]
      /\ asked' \in [Event -> 0..MaxUserRetries] /\ AskedIsCounted'
  BY DEF TypeInv, TypeOK, AskedIsCounted, ReleaseFailed, historyVars
<1>2. status' \in [Event -> Statuses] /\ claim' \in [Event -> Task \cup {None}]
  BY DEF TypeInv, TypeOK, ReleaseFailed, Statuses
<1>3. lease' \in [Event -> 0..LeaseTicks] /\ delay' \in [Event -> 0..RetryMax]
  BY DEF TypeInv, TypeOK, ReleaseFailed
<1>4. op' \in [Event -> OpStatuses] /\ lifecycle' \in [Event -> Lifecycles]
  BY DEF TypeInv, TypeOK, ReleaseFailed, SyncOperationFailure, OpStatuses, Lifecycles
<1>5. AttemptLeft'
  BY DEF TypeInv, TypeOK, AttemptLeft, ReleaseFailed, Exhausted, historyVars
<1> QED
  BY <1>1, <1>2, <1>3, <1>4, <1>5

-----------------------------------------------------------------------------
(***************************************************************************)
(* Type correctness, one lemma per group of actions.                       *)
(***************************************************************************)
LEMMA EventStepType ==
    ASSUME TypeInv, NEW e \in Event, EventStep(e)
    PROVE  TypeInv'
<1>1. CASE Emit(e)
  <2>1. /\ status' \in [Event -> Statuses] /\ op' \in [Event -> OpStatuses]
        /\ AttemptLeft'
    BY <1>1 DEF Emit, TypeInv, TypeOK, AttemptLeft, Statuses, OpStatuses
  <2>2. RequestedLifecycle(e) \in Lifecycles
    BY DEF RequestedLifecycle, Lifecycles
  <2>3. lifecycle' \in [Event -> Lifecycles]
    BY <1>1, <2>2 DEF Emit, TypeInv, TypeOK
  <2> QED
    BY <1>1, <2>1, <2>3 DEF Emit, TypeInv, TypeOK, TasksHaveJobs, AskedIsCounted,
         consumerVars, taskVars, historyVars
<1>2. CASE RetryKbPurge(e)
  BY <1>2 DEF RetryKbPurge, Redispatch, TypeInv, TypeOK, TasksHaveJobs, AttemptLeft,
       AskedIsCounted, Statuses, OpStatuses, Lifecycles, consumerVars, taskVars
<1>3. CASE RetryReingestion(e)
  BY <1>3 DEF RetryReingestion, Redispatch, TypeInv, TypeOK, TasksHaveJobs,
       AttemptLeft, AskedIsCounted, Statuses, OpStatuses, Lifecycles, consumerVars, taskVars
<1>4. CASE RetryPurge(e)
  <2>1. /\ status' \in [Event -> Statuses] /\ attempts' \in [Event -> 0..MaxAttempts]
        /\ AttemptLeft'
    BY <1>4 DEF RetryPurge, Redispatch, TypeInv, TypeOK, AttemptLeft, Statuses
  <2>2. /\ claim' \in [Event -> Task \cup {None}] /\ lease' \in [Event -> 0..LeaseTicks]
        /\ delay' \in [Event -> 0..RetryMax] /\ effects' \in [Event -> Nat]
    BY <1>4 DEF RetryPurge, Redispatch, TypeInv, TypeOK
  <2>3. /\ op' \in [Event -> OpStatuses] /\ lifecycle' \in [Event -> Lifecycles]
        /\ userRetries' \in [Event -> 0..MaxUserRetries] /\ AskedIsCounted'
    BY <1>4 DEF RetryPurge, TypeInv, TypeOK, AskedIsCounted, OpStatuses, Lifecycles
  <2>4. UNCHANGED <<kind, partial, asked, round, remaining, awaited, pc, job>>
    BY <1>4 DEF RetryPurge, consumerVars, taskVars
  <2> QED
    BY <2>1, <2>2, <2>3, <2>4 DEF TypeInv, TypeOK, TasksHaveJobs
<1>5. CASE ReadWithdrawal(e)
  <2>1. /\ userRetries' \in [Event -> 0..MaxUserRetries]
        /\ asked' \in [Event -> 0..MaxUserRetries] /\ AskedIsCounted'
    BY <1>5 DEF ReadWithdrawal, TypeInv, TypeOK, AskedIsCounted
  <2> QED
    BY <1>5, <2>1 DEF ReadWithdrawal, TypeInv, TypeOK, TasksHaveJobs, AttemptLeft, rowVars,
         domainVars, consumerVars, taskVars
<1>6. CASE RetryWithdrawal(e)
  <2>1. /\ status' \in [Event -> Statuses] /\ attempts' \in [Event -> 0..MaxAttempts]
        /\ AttemptLeft'
    BY <1>6 DEF RetryWithdrawal, Redispatch, TypeInv, TypeOK, AttemptLeft, Statuses
  <2>2. /\ claim' \in [Event -> Task \cup {None}] /\ lease' \in [Event -> 0..LeaseTicks]
        /\ delay' \in [Event -> 0..RetryMax] /\ effects' \in [Event -> Nat]
    BY <1>6 DEF RetryWithdrawal, Redispatch, TypeInv, TypeOK
  <2>3. op' \in [Event -> OpStatuses]
    BY <1>6 DEF RetryWithdrawal, TypeInv, TypeOK, OpStatuses
  <2>4. asked' \in [Event -> 0..MaxUserRetries] /\ AskedIsCounted'
    BY <1>6 DEF RetryWithdrawal, TypeInv, TypeOK, AskedIsCounted
  <2>5. UNCHANGED <<kind, lifecycle, partial, userRetries, round, remaining, awaited, pc, job>>
    BY <1>6 DEF RetryWithdrawal, consumerVars, taskVars
  <2> QED
    BY <2>1, <2>2, <2>3, <2>4, <2>5 DEF TypeInv, TypeOK, TasksHaveJobs
<1> QED
  BY <1>1, <1>2, <1>3, <1>4, <1>5, <1>6 DEF EventStep

LEMMA ClaimType ==
    ASSUME TypeInv, NEW c \in Consumer, Claim(c)
    PROVE  TypeInv'
<1> DEFINE claimable == {e \in Event : Claimable(e)}
           limit == AtMost(remaining[c], Concurrency)
<1>1. PICK S \in SUBSET claimable :
         /\ S # {}
         /\ Cardinality(S) = AtMost(limit, Cardinality(claimable))
         /\ \E token \in [S -> {t \in Task : FreshToken(t)}] :
              /\ \A d, e \in S : token[d] = token[e] => d = e
              /\ TakeClaims(S, token)
              /\ awaited' = [awaited EXCEPT ![c] = {token[e] : e \in S}]
         /\ remaining' = [remaining EXCEPT ![c] =
                            IF Cardinality(S) < limit THEN 0
                            ELSE @ - Cardinality(S)]
  BY DEF Claim
<1>2. PICK token \in [S -> {t \in Task : FreshToken(t)}] :
         /\ TakeClaims(S, token)
         /\ awaited' = [awaited EXCEPT ![c] = {token[e] : e \in S}]
  BY <1>1
<1>3. S \subseteq Event /\ claimable \subseteq Event
  BY <1>1
<1>4. \A e \in S : status[e] = "pending" /\ attempts[e] < MaxAttempts
  BY <1>1 DEF Claimable, TypeInv, AttemptLeft
<1>5. /\ status' \in [Event -> Statuses]
      /\ attempts' \in [Event -> 0..MaxAttempts]
      /\ claim' \in [Event -> Task \cup {None}]
      /\ lease' \in [Event -> 0..LeaseTicks]
  BY <1>2, <1>3, <1>4 DEF TakeClaims, TypeInv, TypeOK, Statuses
<1>6. pc' \in [Task -> TaskStates]
  BY <1>2 DEF TakeClaims, TypeInv, TypeOK, TaskStates
<1>7. job' \in [Task -> Event \cup {None}] /\ TasksHaveJobs'
  <2>1. ASSUME NEW t \in Task
        PROVE  /\ job'[t] \in Event \cup {None}
               /\ pc'[t] # "idle" => job'[t] \in Event
    <3>1. CASE \E e \in S : token[e] = t
      <4>1. (CHOOSE e \in S : token[e] = t) \in S
        BY <3>1
      <4> QED
        BY <1>2, <1>3, <3>1, <4>1 DEF TakeClaims
    <3>2. CASE ~\E e \in S : token[e] = t
      BY <1>2, <3>2 DEF TakeClaims, TypeInv, TypeOK, TasksHaveJobs
    <3> QED
      BY <3>1, <3>2
  <2> QED
    BY <1>2, <2>1 DEF TakeClaims, TasksHaveJobs
<1>8. remaining' \in [Consumer -> 0..BatchSize]
  <2>1. remaining[c] \in Nat /\ remaining[c] <= BatchSize
    BY DEF TypeInv, TypeOK
  <2>2. Cardinality(S) \in 0..remaining[c]
    BY <1>1, <1>3, <2>1, BatchWithinRemaining
  <2> QED
    BY <1>1, <2>1, <2>2 DEF TypeInv, TypeOK
<1>9. awaited' \in [Consumer -> SUBSET Task]
  <2>1. {token[e] : e \in S} \subseteq Task
    BY <1>2
  <2> QED
    BY <1>2, <2>1 DEF TypeInv, TypeOK
<1>10. round' \in [Consumer -> Rounds]
  BY DEF Claim, TypeInv, TypeOK, Rounds
<1>11. UNCHANGED <<kind, delay, op, lifecycle, effects, partial, userRetries, asked>>
  BY DEF Claim, domainVars, historyVars
<1>12. AttemptLeft' /\ AskedIsCounted'
  BY <1>2, <1>3, <1>11 DEF TakeClaims, TypeInv, TypeOK, AttemptLeft, AskedIsCounted
<1> QED
  BY <1>5, <1>6, <1>7, <1>8, <1>9, <1>10, <1>11, <1>12 DEF TypeInv, TypeOK

LEMMA ConsumerStepType ==
    ASSUME TypeInv, NEW c \in Consumer, ConsumerStep(c)
    PROVE  TypeInv'
<1>1. CASE Recover(c)
  <2>1. PICK S \in SUBSET {e \in Event : LeaseExpired(e) /\ Consumed(e)} :
          ReleaseFailed(S, {e \in S : Exhausted(e)}, [e \in Event |-> 0])
    BY <1>1 DEF Recover
  <2>2. [e \in Event |-> 0] \in [Event -> 0..RetryMax]
    OBVIOUS
  <2> DEFINE dead == {e \in S : Exhausted(e)}
  <2>3. dead \in SUBSET S /\ \A e \in S : e \notin dead => ~Exhausted(e)
    OBVIOUS
  <2> HIDE DEF dead
  <2>4. ReleaseFailed(S, dead, [e \in Event |-> 0])
    BY <2>1 DEF dead
  <2>5. UNCHANGED <<awaited, pc, job>>
    BY <1>1 DEF Recover, taskVars
  <2>6. round' \in [Consumer -> Rounds] /\ remaining' \in [Consumer -> 0..BatchSize]
    BY <1>1 DEF Recover, TypeInv, TypeOK, Rounds
  <2>7. /\ kind' \in [Event -> Kinds] /\ status' \in [Event -> Statuses]
        /\ attempts' \in [Event -> 0..MaxAttempts]
        /\ claim' \in [Event -> Task \cup {None}]
        /\ lease' \in [Event -> 0..LeaseTicks] /\ delay' \in [Event -> 0..RetryMax]
        /\ op' \in [Event -> OpStatuses] /\ lifecycle' \in [Event -> Lifecycles]
        /\ effects' \in [Event -> Nat] /\ partial' \in [Event -> BOOLEAN]
        /\ userRetries' \in [Event -> 0..MaxUserRetries] /\ AttemptLeft'
        /\ asked' \in [Event -> 0..MaxUserRetries] /\ AskedIsCounted'
    BY <2>2, <2>3, <2>4, ReleaseFailedType
  <2> QED
    BY <2>5, <2>6, <2>7 DEF TypeInv, TypeOK, TasksHaveJobs
<1>2. CASE Claim(c)
  BY <1>2, ClaimType
<1>3. CASE ClaimNothing(c)
  BY <1>3 DEF ClaimNothing, TypeInv, TypeOK, TasksHaveJobs, AttemptLeft, AskedIsCounted, Rounds,
       rowVars, domainVars, taskVars, historyVars
<1>4. CASE GatherDone(c)
  BY <1>4 DEF GatherDone, TypeInv, TypeOK, TasksHaveJobs, AttemptLeft, AskedIsCounted, Rounds,
       rowVars, domainVars, taskVars, historyVars
<1>5. CASE Restart(c)
  BY <1>5 DEF Restart, TypeInv, TypeOK, TasksHaveJobs, AttemptLeft, AskedIsCounted, Rounds, TaskStates,
       rowVars, domainVars, historyVars
<1> QED
  BY <1>1, <1>2, <1>3, <1>4, <1>5 DEF ConsumerStep

LEMMA TaskEndsType ==
    ASSUME TypeInv, NEW t \in Task, TaskEnds(t)
    PROVE  /\ pc' \in [Task -> TaskStates] /\ job' \in [Task -> Event \cup {None}]
           /\ awaited' \in [Consumer -> SUBSET Task] /\ TasksHaveJobs'
BY DEF TaskEnds, TypeInv, TypeOK, TasksHaveJobs, TaskStates

LEMMA TaskContinuesType ==
    ASSUME TypeInv, NEW t \in Task, NEW s \in TaskStates, pc[t] # "idle",
           TaskContinues(t, s)
    PROVE  /\ pc' \in [Task -> TaskStates] /\ job' \in [Task -> Event \cup {None}]
           /\ awaited' \in [Consumer -> SUBSET Task] /\ TasksHaveJobs'
BY DEF TaskContinues, TypeInv, TypeOK, TasksHaveJobs

LEMMA TaskStepType ==
    ASSUME TypeInv, NEW t \in Task, TaskStep(t)
    PROVE  TypeInv'
<1>1. CASE Load(t)
  <2>1. TaskContinues(t, "handling") /\ pc[t] # "idle" /\ "handling" \in TaskStates
    BY <1>1 DEF Load, TaskStates
  <2> QED
    BY <1>1, <2>1, TaskContinuesType DEF Load, TypeInv, TypeOK, AttemptLeft, AskedIsCounted, rowVars,
         domainVars, historyVars
<1>2. CASE DeadLetterUnknown(t)
  <2> DEFINE S == {job[t]}
  <2>1. S \in SUBSET Event
    BY <1>2 DEF DeadLetterUnknown, TypeInv, TasksHaveJobs
  <2>2. delay \in [Event -> 0..RetryMax]
    BY DEF TypeInv, TypeOK
  <2>3. ReleaseFailed(S, S, delay) /\ TaskEnds(t) /\ UNCHANGED <<round, remaining>>
    BY <1>2 DEF DeadLetterUnknown
  <2> HIDE DEF S
  <2>4. /\ kind' \in [Event -> Kinds] /\ status' \in [Event -> Statuses]
        /\ attempts' \in [Event -> 0..MaxAttempts]
        /\ claim' \in [Event -> Task \cup {None}]
        /\ lease' \in [Event -> 0..LeaseTicks] /\ delay' \in [Event -> 0..RetryMax]
        /\ op' \in [Event -> OpStatuses] /\ lifecycle' \in [Event -> Lifecycles]
        /\ effects' \in [Event -> Nat] /\ partial' \in [Event -> BOOLEAN]
        /\ userRetries' \in [Event -> 0..MaxUserRetries] /\ AttemptLeft'
        /\ asked' \in [Event -> 0..MaxUserRetries] /\ AskedIsCounted'
    BY <2>1, <2>2, <2>3, ReleaseFailedType
  <2> QED
    BY <2>3, <2>4, TaskEndsType DEF TypeInv, TypeOK
<1>3. CASE Publish(t)
  <2>1. job[t] \in Event /\ pc[t] # "idle" /\ "raised" \in TaskStates
    BY <1>3 DEF Publish, TypeInv, TasksHaveJobs, TaskStates
  <2>2. op' \in [Event -> OpStatuses] /\ lifecycle' \in [Event -> Lifecycles]
    BY <1>3, <2>1 DEF Publish, RunHandlers, TypeInv, TypeOK, domainVars
  <2>3. /\ pc' \in [Task -> TaskStates] /\ job' \in [Task -> Event \cup {None}]
        /\ awaited' \in [Consumer -> SUBSET Task] /\ TasksHaveJobs'
    BY <1>3, <2>1, TaskEndsType, TaskContinuesType DEF Publish
  <2>4. /\ status' \in [Event -> Statuses] /\ claim' \in [Event -> Task \cup {None}]
        /\ lease' \in [Event -> 0..LeaseTicks] /\ AttemptLeft'
    BY <1>3, <2>1 DEF Publish, TypeInv, TypeOK, AttemptLeft, Statuses
  <2>5. effects' \in [Event -> Nat]
    BY <1>3, <2>1 DEF Publish, TypeInv, TypeOK
  <2>6. UNCHANGED <<kind, attempts, delay, partial, userRetries, asked, round, remaining>>
    BY <1>3 DEF Publish
  <2> QED
    BY <2>2, <2>3, <2>4, <2>5, <2>6 DEF TypeInv, TypeOK, AskedIsCounted
<1>4. CASE FindStale(t)
  BY <1>4, TaskEndsType DEF FindStale, TypeInv, TypeOK, AttemptLeft, AskedIsCounted, rowVars,
       domainVars, historyVars
<1>5. CASE Raise(t)
  <2>1. TaskContinues(t, "raised") /\ pc[t] # "idle" /\ "raised" \in TaskStates
    BY <1>5 DEF Raise, TaskStates
  <2> QED
    BY <1>5, <2>1, TaskContinuesType DEF Raise, TypeInv, TypeOK, AttemptLeft, AskedIsCounted, rowVars,
         domainVars, historyVars
<1>6. CASE Checkpoint(t)
  <2>1. job[t] \in Event /\ pc[t] # "idle" /\ {"checkpointed", "raised"} \subseteq TaskStates
    BY <1>6 DEF Checkpoint, TypeInv, TasksHaveJobs, TaskStates
  <2>2. /\ pc' \in [Task -> TaskStates] /\ job' \in [Task -> Event \cup {None}]
        /\ awaited' \in [Consumer -> SUBSET Task] /\ TasksHaveJobs'
    BY <1>6, <2>1, TaskContinuesType DEF Checkpoint
  <2>3. op' \in [Event -> OpStatuses]
    BY <1>6, <2>1 DEF Checkpoint, TypeInv, TypeOK, OpStatuses
  <2>4. lease' \in [Event -> 0..LeaseTicks]
    BY <1>6, <2>1 DEF Checkpoint, TypeInv, TypeOK
  <2>5. partial' \in [Event -> BOOLEAN]
    <3>1. partial' = partial \/ partial' = [partial EXCEPT ![job[t]] = TRUE]
      BY <1>6 DEF Checkpoint
    <3> QED
      BY <3>1, <2>1 DEF TypeInv, TypeOK
  <2> QED
    BY <1>6, <2>2, <2>3, <2>4, <2>5 DEF Checkpoint, TypeInv, TypeOK, AttemptLeft, AskedIsCounted
<1>7. CASE MarkFailed(t)
  <2> DEFINE S == {job[t]}
             dead == IF Exhausted(job[t]) THEN {job[t]} ELSE {}
             wait == [d \in Event |-> Backoff(d)]
  <2>1. S \in SUBSET Event /\ dead \in SUBSET S
    BY <1>7 DEF MarkFailed, TypeInv, TasksHaveJobs
  <2>2. wait \in [Event -> 0..RetryMax]
    BY DEF Backoff
  <2>3. \A e \in S : e \notin dead => ~Exhausted(e)
    OBVIOUS
  <2>4. ReleaseFailed(S, dead, wait) /\ TaskEnds(t) /\ UNCHANGED <<round, remaining>>
    BY <1>7 DEF MarkFailed
  <2> HIDE DEF S, dead, wait
  <2>5. /\ kind' \in [Event -> Kinds] /\ status' \in [Event -> Statuses]
        /\ attempts' \in [Event -> 0..MaxAttempts]
        /\ claim' \in [Event -> Task \cup {None}]
        /\ lease' \in [Event -> 0..LeaseTicks] /\ delay' \in [Event -> 0..RetryMax]
        /\ op' \in [Event -> OpStatuses] /\ lifecycle' \in [Event -> Lifecycles]
        /\ effects' \in [Event -> Nat] /\ partial' \in [Event -> BOOLEAN]
        /\ userRetries' \in [Event -> 0..MaxUserRetries] /\ AttemptLeft'
        /\ asked' \in [Event -> 0..MaxUserRetries] /\ AskedIsCounted'
    BY <2>1, <2>2, <2>3, <2>4, ReleaseFailedType
  <2> QED
    BY <2>4, <2>5, TaskEndsType DEF TypeInv, TypeOK
<1>8. CASE TaskDies(t)
  BY <1>8 DEF TaskDies, TypeInv, TypeOK, TasksHaveJobs, AttemptLeft, AskedIsCounted, TaskStates, Rounds,
       rowVars, domainVars, historyVars
<1> QED
  BY <1>1, <1>2, <1>3, <1>4, <1>5, <1>6, <1>7, <1>8 DEF TaskStep

LEMMA NextTypeInv == TypeInv /\ [Next]_vars => TypeInv'
<1> SUFFICES ASSUME TypeInv, [Next]_vars
             PROVE  TypeInv'
  OBVIOUS
<1>1. CASE Tick
  BY <1>1 DEF Tick, TypeInv, TypeOK, TasksHaveJobs, AttemptLeft, AskedIsCounted, domainVars, consumerVars,
       taskVars, historyVars
<1>2. CASE UNCHANGED vars
  BY <1>2 DEF TypeInv, TypeOK, TasksHaveJobs, AttemptLeft, AskedIsCounted, vars, rowVars, domainVars,
       consumerVars, taskVars, historyVars
<1> QED
  BY <1>1, <1>2, EventStepType, ConsumerStepType, TaskStepType DEF Next

(***************************************************************************)
(* Every variable keeps its type; in particular no event is attempted more *)
(* than kb_outbox_max_attempts times (the bound of attempts in TypeOK).    *)
(***************************************************************************)
THEOREM TypeCorrect == Spec => []TypeOK
<1>1. Spec => []TypeInv
  BY InitTypeInv, NextTypeInv, PTL DEF Spec
<1>2. TypeInv => TypeOK
  BY DEF TypeInv
<1> QED
  BY <1>1, <1>2, PTL

-----------------------------------------------------------------------------
(***************************************************************************)
(* The safety properties of the outbox, from one inductive invariant.      *)
(* OperationMirrorsDispatch is not inductive alone: a retry trusts the     *)
(* operation and resets the event blindly, which is harmless only because  *)
(* an operation that failed has an event nobody works on.                  *)
(***************************************************************************)

\* The check constraint of the table: a claim exactly while processing.
ClaimsMatchStatus ==
    \A e \in Event : status[e] = "processing" <=> claim[e] # None

\* Only requested work has an operation.
OperationsRequested ==
    \A e \in Event : status[e] = "absent" \/ ~HasOperation(e)
                        => op[e] = "none"

\* A retry in flight is the retry of a withdrawal that was requested.
AskedOfWithdrawals ==
    \A e \in Event : asked[e] > 0 => kind[e] = "withdrawal" /\ status[e] # "absent"

RowInv ==
    /\ ClaimsMatchStatus
    /\ EffectsOncePerDispatch
    /\ OperationMirrorsDispatch
    /\ OperationsRequested
    /\ FailedWorkReleasesDocument

SafetyInv == TypeInv /\ RowInv /\ AskedOfWithdrawals

LEMMA InitSafetyInv == Init => SafetyInv
<1> SUFFICES ASSUME Init PROVE SafetyInv
  OBVIOUS
<1>1. TypeInv
  BY InitTypeInv
<1>2. RowInv
  BY DEF Init, RowInv, ClaimsMatchStatus, EffectsOncePerDispatch, OperationMirrorsDispatch,
       OperationsRequested, FailedWorkReleasesDocument, Retryable
<1>3. AskedOfWithdrawals
  BY DEF Init, AskedOfWithdrawals
<1> QED
  BY <1>1, <1>2, <1>3 DEF SafetyInv

-----------------------------------------------------------------------------
(***************************************************************************)
(* The rows: what each kind of write preserves.                            *)
(***************************************************************************)
LEMMA RowsUnchanged ==
    ASSUME RowInv, UNCHANGED <<kind, status, claim, op, lifecycle, effects>>
    PROVE  RowInv'
BY DEF RowInv, ClaimsMatchStatus, EffectsOncePerDispatch, OperationMirrorsDispatch,
     OperationsRequested, FailedWorkReleasesDocument, Retryable, HasOperation

LEMMA ReleaseFailedRows ==
    ASSUME SafetyInv, NEW S \in SUBSET Event, NEW dead \in SUBSET S, NEW wait,
           \A e \in S : status[e] = "processing",
           ReleaseFailed(S, dead, wait)
    PROVE  RowInv'
<1> USE DEF ReleaseFailed, SafetyInv, TypeInv, TypeOK, RowInv
<1>1. kind' = kind /\ effects' = effects
  BY DEF historyVars
<1>2. ClaimsMatchStatus'
  BY DEF ClaimsMatchStatus
<1>3. EffectsOncePerDispatch'
  BY <1>1 DEF EffectsOncePerDispatch
<1>4. OperationMirrorsDispatch'
  BY <1>1 DEF OperationMirrorsDispatch, SyncOperationFailure, HasOperation
<1>5. OperationsRequested'
  BY <1>1 DEF OperationsRequested, SyncOperationFailure, HasOperation
<1>6. FailedWorkReleasesDocument'
  <2> SUFFICES ASSUME NEW e \in Event, kind'[e] \in {"reingestion", "purge"},
                      op'[e] \in {"failed", "dead_letter"}
               PROVE  lifecycle'[e] = "withdrawn"
    BY DEF FailedWorkReleasesDocument, Retryable
  <2>1. kind[e] \in {"reingestion", "purge"} /\ HasOperation(e)
    BY <1>1 DEF HasOperation
  <2>2. CASE e \in S /\ op[e] # "completed"
    BY <1>1, <2>1, <2>2 DEF SyncOperationFailure
  <2>3. CASE ~(e \in S /\ op[e] # "completed")
    <3>1. op'[e] = op[e] /\ lifecycle'[e] = lifecycle[e]
      BY <2>3 DEF SyncOperationFailure
    <3> QED
      BY <2>1, <3>1 DEF FailedWorkReleasesDocument, Retryable
  <2> QED
    BY <2>2, <2>3
<1> QED
  BY <1>2, <1>3, <1>4, <1>5, <1>6

\* A retry finds an event that nobody holds: its operation is over.
LEMMA RetryableIsSettled ==
    ASSUME SafetyInv, NEW e \in Event, Retryable(e)
    PROVE  HasOperation(e) /\ status[e] \in {"published", "dead_letter"}
<1>1. op[e] \in {"failed", "dead_letter"}
  BY DEF Retryable
<1>2. HasOperation(e) /\ status[e] # "absent"
  BY <1>1 DEF SafetyInv, RowInv, OperationsRequested
<1> QED
  BY <1>1, <1>2 DEF SafetyInv, RowInv, OperationMirrorsDispatch, TypeInv, TypeOK, Statuses

LEMMA RedispatchRows ==
    ASSUME SafetyInv, NEW e \in Event, HasOperation(e), Redispatch(e),
           op' = [op EXCEPT ![e] = "pending"], kind' = kind,
           \A d \in Event \ {e} : lifecycle'[d] = lifecycle[d]
    PROVE  RowInv'
<1> USE DEF Redispatch, SafetyInv, TypeInv, TypeOK, RowInv
<1>1. ClaimsMatchStatus'
  BY DEF ClaimsMatchStatus
<1>2. EffectsOncePerDispatch'
  BY DEF EffectsOncePerDispatch
<1>3. OperationMirrorsDispatch'
  BY DEF OperationMirrorsDispatch, HasOperation
<1>4. OperationsRequested'
  BY DEF OperationsRequested, HasOperation
<1>5. FailedWorkReleasesDocument'
  BY DEF FailedWorkReleasesDocument, Retryable
<1> QED
  BY <1>1, <1>2, <1>3, <1>4, <1>5

LEMMA EventStepRows ==
    ASSUME SafetyInv, NEW e \in Event, EventStep(e)
    PROVE  RowInv'
<1> USE DEF SafetyInv, TypeInv, TypeOK
<1>1. CASE Emit(e)
  <2> USE <1>1 DEF Emit, RowInv
  <2>1. UNCHANGED <<kind, claim, effects>>
    BY DEF historyVars
  <2>2. ClaimsMatchStatus'
    BY <2>1 DEF ClaimsMatchStatus
  <2>3. EffectsOncePerDispatch'
    BY <2>1 DEF EffectsOncePerDispatch
  <2>4. OperationMirrorsDispatch'
    BY <2>1 DEF OperationMirrorsDispatch, HasOperation
  <2>5. OperationsRequested'
    BY <2>1 DEF OperationsRequested, HasOperation
  <2>6. FailedWorkReleasesDocument'
    BY <2>1 DEF FailedWorkReleasesDocument, Retryable
  <2> QED
    BY <2>2, <2>3, <2>4, <2>5, <2>6
<1>2. CASE RetryKbPurge(e)
  BY <1>2, RetryableIsSettled, RedispatchRows DEF RetryKbPurge
<1>3. CASE RetryReingestion(e)
  <2>1. \A d \in Event \ {e} : lifecycle'[d] = lifecycle[d]
    BY <1>3 DEF RetryReingestion
  <2> QED
    BY <1>3, <2>1, RetryableIsSettled, RedispatchRows DEF RetryReingestion
<1>4. CASE RetryPurge(e)
  <2>1. \A d \in Event \ {e} : lifecycle'[d] = lifecycle[d]
    BY <1>4 DEF RetryPurge
  <2>2. HasOperation(e) /\ Redispatch(e)
    BY <1>4, RetryableIsSettled DEF RetryPurge
  <2> QED
    BY <1>4, <2>1, <2>2, RedispatchRows DEF RetryPurge
<1>5. CASE ReadWithdrawal(e)
  BY <1>5, RowsUnchanged DEF ReadWithdrawal, rowVars, domainVars
<1>6. CASE RetryWithdrawal(e)
  <2>1. HasOperation(e)
    BY <1>6 DEF RetryWithdrawal, AskedOfWithdrawals, HasOperation
  <2>2. CASE op[e] # "completed"
    BY <1>6, <2>1, <2>2, RedispatchRows DEF RetryWithdrawal
  <2>3. CASE op[e] = "completed"
    BY <1>6, <2>3, RowsUnchanged DEF RetryWithdrawal
  <2> QED
    BY <2>2, <2>3
<1> QED
  BY <1>1, <1>2, <1>3, <1>4, <1>5, <1>6 DEF EventStep

LEMMA ClaimRows ==
    ASSUME SafetyInv, NEW S \in SUBSET Event, \A e \in S : Claimable(e),
           NEW token \in [S -> Task], TakeClaims(S, token),
           UNCHANGED <<kind, op, lifecycle, effects>>
    PROVE  RowInv'
<1> USE DEF SafetyInv, TypeInv, TypeOK, RowInv, TakeClaims, Claimable
<1>1. ClaimsMatchStatus'
  BY DEF ClaimsMatchStatus
<1>2. EffectsOncePerDispatch'
  BY DEF EffectsOncePerDispatch
<1>3. OperationMirrorsDispatch'
  BY DEF OperationMirrorsDispatch, HasOperation
<1>4. OperationsRequested'
  BY DEF OperationsRequested, HasOperation
<1>5. FailedWorkReleasesDocument'
  BY DEF FailedWorkReleasesDocument, Retryable
<1> QED
  BY <1>1, <1>2, <1>3, <1>4, <1>5

LEMMA PublishRows ==
    ASSUME SafetyInv, NEW t \in Task, Publish(t)
    PROVE  RowInv'
<1> DEFINE e == job[t]
<1> USE DEF SafetyInv, TypeInv, TypeOK, RowInv
<1>1. /\ e \in Event /\ status[e] = "processing" /\ kind' = kind
      /\ status' = [status EXCEPT ![e] = "published"]
      /\ claim' = [claim EXCEPT ![e] = None]
      /\ effects' = [effects EXCEPT ![e] = @ + 1]
      /\ RunHandlers(e)
  BY DEF Publish, OwnsClaim, TasksHaveJobs
<1> HIDE DEF e
<1>2. \/ ~HasOperation(e) /\ op' = op /\ lifecycle' = lifecycle
      \/ /\ HasOperation(e)
         /\ \E o \in OpStatuses, l \in Lifecycles :
              /\ HandlerOutcome(kind[e], o, l)
              /\ op' = [op EXCEPT ![e] = o]
              /\ lifecycle' = [lifecycle EXCEPT ![e] = l]
  BY <1>1 DEF RunHandlers, domainVars, OperationMirrorsDispatch
<1>3. ClaimsMatchStatus'
  BY <1>1 DEF ClaimsMatchStatus
<1>4. EffectsOncePerDispatch'
  BY <1>1 DEF EffectsOncePerDispatch
<1>5. OperationMirrorsDispatch'
  BY <1>1, <1>2 DEF OperationMirrorsDispatch, HasOperation, HandlerOutcome
<1>6. OperationsRequested'
  BY <1>1, <1>2 DEF OperationsRequested, HasOperation
<1>7. FailedWorkReleasesDocument'
  BY <1>1, <1>2 DEF FailedWorkReleasesDocument, Retryable, HasOperation, HandlerOutcome
<1> QED
  BY <1>3, <1>4, <1>5, <1>6, <1>7

LEMMA CheckpointRows ==
    ASSUME SafetyInv, NEW t \in Task, Checkpoint(t)
    PROVE  RowInv'
<1> DEFINE e == job[t]
<1> USE DEF SafetyInv, TypeInv, TypeOK, RowInv
<1>1. /\ e \in Event /\ kind[e] = "kb_purge"
      /\ UNCHANGED <<kind, status, claim, lifecycle, effects>>
      /\ \/ op' = op
         \/ status[e] = "processing" /\ op' = [op EXCEPT ![e] = "processing"]
  BY DEF Checkpoint, TasksHaveJobs
<1> HIDE DEF e
<1>2. ClaimsMatchStatus' /\ EffectsOncePerDispatch'
  BY <1>1 DEF ClaimsMatchStatus, EffectsOncePerDispatch
<1>3. OperationMirrorsDispatch'
  BY <1>1 DEF OperationMirrorsDispatch, HasOperation
<1>4. OperationsRequested'
  BY <1>1 DEF OperationsRequested, HasOperation
<1>5. FailedWorkReleasesDocument'
  BY <1>1 DEF FailedWorkReleasesDocument, Retryable
<1> QED
  BY <1>2, <1>3, <1>4, <1>5

LEMMA ConsumerStepRows ==
    ASSUME SafetyInv, NEW c \in Consumer, ConsumerStep(c)
    PROVE  RowInv'
<1>1. CASE Recover(c)
  <2>1. PICK S \in SUBSET {e \in Event : LeaseExpired(e) /\ Consumed(e)} :
            ReleaseFailed(S, {e \in S : Exhausted(e)}, [e \in Event |-> 0])
    BY <1>1 DEF Recover
  <2>2. \A e \in S : status[e] = "processing"
    BY DEF LeaseExpired
  <2> QED
    BY <2>1, <2>2, ReleaseFailedRows
<1>2. CASE Claim(c)
  <2>0. PICK S \in SUBSET {e \in Event : Claimable(e)} :
          \E token \in [S -> {t \in Task : FreshToken(t)}] : TakeClaims(S, token)
    BY <1>2 DEF Claim
  <2>1. PICK token \in [S -> {t \in Task : FreshToken(t)}] : TakeClaims(S, token)
    BY <2>0
  <2>2. token \in [S -> Task] /\ \A e \in S : Claimable(e)
    OBVIOUS
  <2>3. UNCHANGED <<kind, op, lifecycle, effects>>
    BY <1>2 DEF Claim, domainVars, historyVars
  <2> QED
    BY <2>1, <2>2, <2>3, ClaimRows
<1>3. CASE ClaimNothing(c) \/ GatherDone(c) \/ Restart(c)
  <2>1. UNCHANGED <<kind, status, claim, op, lifecycle, effects>>
    BY <1>3 DEF ClaimNothing, GatherDone, Restart, rowVars, domainVars, historyVars
  <2> QED
    BY <2>1, RowsUnchanged DEF SafetyInv
<1> QED
  BY <1>1, <1>2, <1>3 DEF ConsumerStep

\* A coroutine that settles its claim finds its event being processed.
LEMMA OwnedJob ==
    ASSUME SafetyInv, NEW t \in Task, pc[t] # "idle", OwnsClaim(t)
    PROVE  job[t] \in Event /\ status[job[t]] = "processing" /\ claim[job[t]] = t
BY DEF OwnsClaim, SafetyInv, TypeInv, TasksHaveJobs

LEMMA TaskStepRows ==
    ASSUME SafetyInv, NEW t \in Task, TaskStep(t)
    PROVE  RowInv'
<1>1. CASE Publish(t)
  BY <1>1, PublishRows
<1>2. CASE Checkpoint(t)
  BY <1>2, CheckpointRows
<1>3. CASE DeadLetterUnknown(t)
  <2>1. job[t] \in Event /\ status[job[t]] = "processing"
    BY <1>3, OwnedJob DEF DeadLetterUnknown
  <2>2. ReleaseFailed({job[t]}, {job[t]}, delay)
    BY <1>3 DEF DeadLetterUnknown
  <2> QED
    BY <2>1, <2>2, ReleaseFailedRows
<1>4. CASE MarkFailed(t)
  <2>1. job[t] \in Event /\ status[job[t]] = "processing"
    BY <1>4, OwnedJob DEF MarkFailed
  <2>2. PICK dead \in SUBSET {job[t]} :
            ReleaseFailed({job[t]}, dead, [d \in Event |-> Backoff(d)])
    BY <1>4 DEF MarkFailed
  <2> QED
    BY <2>1, <2>2, ReleaseFailedRows
<1>5. CASE Load(t) \/ FindStale(t) \/ Raise(t) \/ TaskDies(t)
  <2>1. UNCHANGED <<kind, status, claim, op, lifecycle, effects>>
    BY <1>5 DEF Load, FindStale, Raise, TaskDies, rowVars, domainVars, historyVars
  <2> QED
    BY <2>1, RowsUnchanged DEF SafetyInv
<1> QED
  BY <1>1, <1>2, <1>3, <1>4, <1>5 DEF TaskStep

\* No step takes back a request, or another kind of retry.
LEMMA NextAsked == SafetyInv /\ [Next]_vars => AskedOfWithdrawals'
<1> SUFFICES ASSUME SafetyInv, [Next]_vars PROVE AskedOfWithdrawals'
  OBVIOUS
<1> USE DEF SafetyInv, TypeInv, TypeOK, AskedOfWithdrawals
<1>1. CASE \E e \in Event : EventStep(e)
  <2> SUFFICES ASSUME NEW e \in Event, EventStep(e) PROVE AskedOfWithdrawals'
    BY <1>1
  <2>1. CASE Emit(e)
    BY <2>1 DEF Emit, historyVars
  <2>2. CASE ReadWithdrawal(e)
    <3>1. HasOperation(e) /\ status[e] \in {"published", "dead_letter"}
      BY <2>2, RetryableIsSettled DEF ReadWithdrawal
    <3> QED
      BY <2>2, <3>1 DEF ReadWithdrawal, rowVars
  <2>3. CASE RetryWithdrawal(e)
    BY <2>3 DEF RetryWithdrawal, Redispatch
  <2>4. CASE RetryKbPurge(e)
    BY <2>4 DEF RetryKbPurge, Redispatch
  <2>5. CASE RetryReingestion(e)
    BY <2>5 DEF RetryReingestion, Redispatch
  <2>6. CASE RetryPurge(e)
    BY <2>6 DEF RetryPurge, Redispatch
  <2> QED
    BY <2>1, <2>2, <2>3, <2>4, <2>5, <2>6 DEF EventStep
<1>2. CASE \E c \in Consumer : ConsumerStep(c)
  <2>1. kind' = kind /\ asked' = asked
    BY <1>2 DEF ConsumerStep, Recover, Claim, ClaimNothing, GatherDone, Restart,
         ReleaseFailed, rowVars, historyVars
  <2>2. \A e \in Event : status[e] # "absent" => status'[e] # "absent"
    <3> PICK c \in Consumer : ConsumerStep(c)
      BY <1>2
    <3>1. CASE Recover(c)
      BY <3>1 DEF Recover, ReleaseFailed
    <3>2. CASE Claim(c)
      BY <3>2 DEF Claim, TakeClaims
    <3>3. CASE ClaimNothing(c) \/ GatherDone(c) \/ Restart(c)
      BY <3>3 DEF ClaimNothing, GatherDone, Restart, rowVars
    <3> QED
      BY <3>1, <3>2, <3>3 DEF ConsumerStep
  <2> QED
    BY <2>1, <2>2
<1>3. CASE \E t \in Task : TaskStep(t)
  <2>1. kind' = kind /\ asked' = asked
    BY <1>3 DEF TaskStep, Load, DeadLetterUnknown, Publish, FindStale, Raise, Checkpoint,
         MarkFailed, TaskDies, ReleaseFailed, rowVars, historyVars
  <2>2. \A e \in Event : status[e] # "absent" => status'[e] # "absent"
    BY <1>3 DEF TaskStep, Load, DeadLetterUnknown, Publish, FindStale, Raise, Checkpoint,
         MarkFailed, TaskDies, ReleaseFailed, rowVars
  <2> QED
    BY <2>1, <2>2
<1>4. CASE Tick \/ UNCHANGED vars
  BY <1>4 DEF Tick, vars, rowVars, historyVars
<1> QED
  BY <1>1, <1>2, <1>3, <1>4 DEF Next

LEMMA NextSafetyInv == SafetyInv /\ [Next]_vars => SafetyInv'
<1> SUFFICES ASSUME SafetyInv, [Next]_vars PROVE SafetyInv'
  OBVIOUS
<1>1. TypeInv' /\ AskedOfWithdrawals'
  BY NextTypeInv, NextAsked DEF SafetyInv
<1>2. CASE \E e \in Event : EventStep(e)
  BY <1>1, <1>2, EventStepRows DEF SafetyInv
<1>3. CASE \E c \in Consumer : ConsumerStep(c)
  BY <1>1, <1>3, ConsumerStepRows DEF SafetyInv
<1>4. CASE \E t \in Task : TaskStep(t)
  BY <1>1, <1>4, TaskStepRows DEF SafetyInv
<1>5. CASE Tick \/ UNCHANGED vars
  <2>1. UNCHANGED <<kind, status, claim, op, lifecycle, effects>>
    BY <1>5 DEF Tick, vars, rowVars, domainVars, historyVars
  <2> QED
    BY <1>1, <2>1, RowsUnchanged DEF SafetyInv
<1> QED
  BY <1>2, <1>3, <1>4, <1>5 DEF Next

LEMMA SafetyInvariant == Spec => []SafetyInv
BY InitSafetyInv, NextSafetyInv, PTL DEF Spec

(***************************************************************************)
(* The effects of a dispatch are committed once, with its publication,     *)
(* however many consumers run and in whatever way they overtake and crash. *)
(***************************************************************************)
THEOREM EffectsOnce == Spec => []EffectsOncePerDispatch
<1>1. SafetyInv => EffectsOncePerDispatch
  BY DEF SafetyInv, RowInv
<1> QED
  BY <1>1, SafetyInvariant, PTL

(***************************************************************************)
(* The status of an operation never disagrees with its event.              *)
(***************************************************************************)
THEOREM OperationsMirror == Spec => []OperationMirrorsDispatch
<1>1. SafetyInv => OperationMirrorsDispatch
  BY DEF SafetyInv, RowInv
<1> QED
  BY <1>1, SafetyInvariant, PTL

(***************************************************************************)
(* A failed reingestion or purge leaves its document WITHDRAWN.            *)
(***************************************************************************)
THEOREM FailedWorkReleases == Spec => []FailedWorkReleasesDocument
<1>1. SafetyInv => FailedWorkReleasesDocument
  BY DEF SafetyInv, RowInv
<1> QED
  BY <1>1, SafetyInvariant, PTL

-----------------------------------------------------------------------------
(***************************************************************************)
(* While a lease runs, the holder of the claim settles it, or the retry of *)
(* a withdrawal that was asked for while the operation had failed.         *)
(***************************************************************************)
LEMMA LiveClaimByEvent ==
    ASSUME SafetyInv, NEW d \in Event, EventStep(d) PROVE LiveClaimStep
<1>1. CASE RetryWithdrawal(d)
  <2>1. kind[d] = "withdrawal" /\ asked'[d] < asked[d]
    BY <1>1 DEF RetryWithdrawal, AskedOfWithdrawals, SafetyInv, TypeInv, TypeOK
  <2>2. \A e \in Event \ {d} : claim'[e] = claim[e]
    BY <1>1 DEF RetryWithdrawal, Redispatch, SafetyInv, TypeInv, TypeOK
  <2> QED
    BY <2>1, <2>2 DEF LiveClaimStep
<1>2. CASE ~RetryWithdrawal(d)
  <2>1. Retryable(d) => status[d] # "processing"
    BY RetryableIsSettled
  <2>2. \A e \in Event : claim'[e] = claim[e] \/ (e = d /\ Retryable(d))
    BY <1>2 DEF EventStep, Emit, ReadWithdrawal, RetryKbPurge, RetryReingestion, RetryPurge,
         Redispatch, SafetyInv, TypeInv, TypeOK, rowVars
  <2> QED
    BY <2>1, <2>2 DEF LiveClaimStep
<1> QED
  BY <1>1, <1>2

LEMMA LiveClaimByConsumer ==
    ASSUME SafetyInv, NEW c \in Consumer, ConsumerStep(c) PROVE LiveClaimStep
<1> SUFFICES ASSUME NEW e \in Event, status[e] = "processing", lease[e] > 0
             PROVE  claim'[e] = claim[e]
  BY DEF LiveClaimStep
<1>1. CASE Recover(c)
  BY <1>1 DEF Recover, ReleaseFailed, LeaseExpired
<1>2. CASE Claim(c)
  BY <1>2 DEF Claim, TakeClaims, Claimable
<1>3. CASE ClaimNothing(c) \/ GatherDone(c) \/ Restart(c)
  BY <1>3 DEF ClaimNothing, GatherDone, Restart, rowVars
<1> QED
  BY <1>1, <1>2, <1>3 DEF ConsumerStep

LEMMA LiveClaimByTask ==
    ASSUME SafetyInv, NEW t \in Task, TaskStep(t) PROVE LiveClaimStep
<1>1. CASE DeadLetterUnknown(t) \/ MarkFailed(t) \/ Publish(t)
  <2>1. /\ job[t] \in Event /\ claim[job[t]] = t /\ pc[t] # "idle"
        /\ \A e \in Event \ {job[t]} : claim'[e] = claim[e]
    BY <1>1, OwnedJob DEF DeadLetterUnknown, MarkFailed, Publish, ReleaseFailed,
         SafetyInv, TypeInv, TypeOK
  <2>2. pc'[t] # pc[t]
    BY <1>1 DEF DeadLetterUnknown, MarkFailed, Publish, TaskEnds, TaskContinues,
         SafetyInv, TypeInv, TypeOK
  <2>3. pc[t] \in TaskStates \ {"idle"}
    BY <2>1 DEF SafetyInv, TypeInv, TypeOK
  <2> QED
    BY <2>1, <2>2, <2>3 DEF LiveClaimStep
<1>2. CASE Load(t) \/ FindStale(t) \/ Raise(t) \/ Checkpoint(t) \/ TaskDies(t)
  BY <1>2 DEF Load, FindStale, Raise, Checkpoint, TaskDies, rowVars, LiveClaimStep
<1> QED
  BY <1>1, <1>2 DEF TaskStep

THEOREM LiveClaims == Spec => LiveClaimSettledByHolder
<1>1. SafetyInv /\ [Next]_vars => [LiveClaimStep]_vars
  <2> SUFFICES ASSUME SafetyInv, Next PROVE LiveClaimStep
    OBVIOUS
  <2>1. CASE Tick
    BY <2>1 DEF Tick, LiveClaimStep
  <2> QED
    BY <2>1, LiveClaimByEvent, LiveClaimByConsumer, LiveClaimByTask DEF Next
<1> QED
  BY <1>1, SafetyInvariant, PTL DEF Spec, LiveClaimSettledByHolder

-----------------------------------------------------------------------------
(***************************************************************************)
(* The outbox implements its contract: every step of a producer, a user, a *)
(* consumer or a crash is a step of the contract or invisible to it.       *)
(***************************************************************************)

LEMMA InitContract == Init => Contract!CInit
BY DEF Init, Contract!CInit, Dispatch, Outcome

LEMMA InvisibleStep ==
    ASSUME UNCHANGED <<status, op, effects>>
    PROVE  UNCHANGED Contract!cvars
BY DEF Contract!cvars, Dispatch, Outcome

LEMMA AbandonStep ==
    ASSUME SafetyInv, NEW S \in SUBSET Event, NEW dead \in SUBSET S, NEW wait,
           \A e \in S : status[e] = "processing",
           ReleaseFailed(S, dead, wait)
    PROVE  Contract!Abandon(dead)
<1> USE DEF SafetyInv, TypeInv, TypeOK
<1>1. effects' = effects
  BY DEF ReleaseFailed, historyVars
<1>2. \A e \in dead : Dispatch[e] = "open"
  BY DEF Dispatch
<1>3. Dispatch' = [e \in Event |-> IF e \in dead THEN "dead" ELSE Dispatch[e]]
  BY DEF Dispatch, ReleaseFailed
<1>4. Outcome' = [e \in Event |-> IF e \in dead /\ Outcome[e] # "none" THEN "failed"
                                  ELSE Outcome[e]]
  <2>1. \A e \in S : /\ HasOperation(e) => op[e] \in {"pending", "processing"}
                     /\ ~HasOperation(e) => op[e] = "none"
    BY DEF RowInv, OperationMirrorsDispatch, OperationsRequested
  <2>2. \A e \in Event :
          op'[e] = IF e \in S /\ HasOperation(e)
                   THEN IF e \notin dead THEN "pending"
                        ELSE IF kind[e] = "purge" THEN "failed" ELSE "dead_letter"
                   ELSE op[e]
    BY <2>1 DEF ReleaseFailed, SyncOperationFailure
  <2>3. \A e \in Event :
          Outcome'[e] = IF e \in dead /\ Outcome[e] # "none" THEN "failed" ELSE Outcome[e]
    BY <2>1, <2>2 DEF Outcome
  <2> QED
    BY <2>3 DEF Outcome
<1> QED
  BY <1>1, <1>2, <1>3, <1>4 DEF Contract!Abandon

LEMMA ReopenStep ==
    ASSUME SafetyInv, NEW e \in Event, Retryable(e), Redispatch(e),
           op' = [op EXCEPT ![e] = "pending"]
    PROVE  Contract!Reopen(e)
<1> USE DEF SafetyInv, TypeInv, TypeOK
<1>1. status[e] \in {"published", "dead_letter"}
  BY RetryableIsSettled
<1>2. Dispatch[e] \in {"done", "dead"} /\ Outcome[e] = "failed"
  BY <1>1 DEF Dispatch, Outcome, Retryable
<1>3. Dispatch' = [Dispatch EXCEPT ![e] = "open"]
  BY DEF Dispatch, Redispatch
<1>4. Outcome' = [Outcome EXCEPT ![e] = "open"]
  BY DEF Outcome
<1>5. effects' = [effects EXCEPT ![e] = 0]
  BY DEF Redispatch
<1> QED
  BY <1>2, <1>3, <1>4, <1>5 DEF Contract!Reopen

LEMMA EventStepContract ==
    ASSUME SafetyInv, NEW e \in Event, EventStep(e)
    PROVE  Contract!CNext \/ UNCHANGED Contract!cvars
<1> USE DEF SafetyInv, TypeInv, TypeOK
<1>1. CASE Emit(e)
  <2>1. Dispatch[e] = "absent" /\ Dispatch' = [Dispatch EXCEPT ![e] = "open"]
    BY <1>1 DEF Emit, Dispatch
  <2>2. \E o \in {"none", "open"} : Outcome' = [Outcome EXCEPT ![e] = o]
    BY <1>1 DEF Emit, Outcome
  <2>3. effects' = effects
    BY <1>1 DEF Emit, historyVars
  <2> QED
    BY <2>1, <2>2, <2>3 DEF Contract!CNext, Contract!Request
<1>2. CASE RetryKbPurge(e) \/ RetryReingestion(e) \/ RetryPurge(e)
  <2>1. Retryable(e) /\ Redispatch(e) /\ op' = [op EXCEPT ![e] = "pending"]
    BY <1>2, RetryableIsSettled DEF RetryKbPurge, RetryReingestion, RetryPurge
  <2> QED
    BY <2>1, ReopenStep DEF Contract!CNext
<1>3. CASE ReadWithdrawal(e)
  BY <1>3, InvisibleStep DEF ReadWithdrawal, rowVars, domainVars
<1>4. CASE RetryWithdrawal(e)
  <2>1. HasOperation(e) /\ status[e] # "absent"
    BY <1>4 DEF RetryWithdrawal, AskedOfWithdrawals, HasOperation
  <2>2. CASE op[e] = "completed"
    BY <1>4, <2>2, InvisibleStep DEF RetryWithdrawal
  <2>3. CASE Retryable(e)
    BY <1>4, <2>3, ReopenStep DEF RetryWithdrawal, Retryable, Contract!CNext
  <2>4. CASE op[e] # "completed" /\ ~Retryable(e)
    <3>1. Redispatch(e) /\ op' = [op EXCEPT ![e] = "pending"]
      BY <1>4, <2>4 DEF RetryWithdrawal
    <3>2. status[e] \in {"pending", "processing"} /\ op[e] \in {"pending", "processing"}
      BY <2>1, <2>4 DEF RowInv, OperationMirrorsDispatch, Retryable, Statuses
    <3>3. effects' = effects
      BY <3>1, <3>2 DEF Redispatch, RowInv, EffectsOncePerDispatch
    <3>4. Dispatch' = Dispatch /\ Outcome' = Outcome
      BY <3>1, <3>2 DEF Redispatch, Dispatch, Outcome
    <3> QED
      BY <3>3, <3>4 DEF Contract!cvars
  <2> QED
    BY <2>2, <2>3, <2>4
<1> QED
  BY <1>1, <1>2, <1>3, <1>4 DEF EventStep

LEMMA CompleteStep ==
    ASSUME SafetyInv, NEW t \in Task, Publish(t)
    PROVE  Contract!Complete(job[t])
<1> DEFINE e == job[t]
<1> USE DEF SafetyInv, TypeInv, TypeOK
<1>1. /\ e \in Event /\ status[e] = "processing"
      /\ status' = [status EXCEPT ![e] = "published"]
      /\ effects' = [effects EXCEPT ![e] = @ + 1]
      /\ RunHandlers(e)
  BY OwnedJob DEF Publish
<1> HIDE DEF e
<1>2. effects[e] = 0 /\ effects' = [effects EXCEPT ![e] = 1]
  <2>1. effects[e] = 0
    BY <1>1 DEF RowInv, EffectsOncePerDispatch
  <2>2. effects[e] + 1 = 1
    BY <2>1
  <2> QED
    BY <1>1, <2>1, <2>2, Zenon
<1>3. Dispatch[e] = "open" /\ Dispatch' = [Dispatch EXCEPT ![e] = "done"]
  BY <1>1 DEF Dispatch
<1>4. IF Outcome[e] = "none" THEN UNCHANGED Outcome
      ELSE \E o \in {"completed", "failed"} : Outcome' = [Outcome EXCEPT ![e] = o]
  <2>1. CASE ~HasOperation(e)
    BY <1>1, <2>1 DEF RunHandlers, domainVars, RowInv, OperationsRequested, Outcome
  <2>2. CASE HasOperation(e)
    <3>1. op[e] \in {"pending", "processing"}
      BY <1>1, <2>2 DEF RowInv, OperationMirrorsDispatch
    <3>2. PICK o \in {"completed", "failed"} : op' = [op EXCEPT ![e] = o]
      BY <1>1, <2>2, <3>1 DEF RunHandlers, HandlerOutcome
    <3> QED
      BY <1>1, <3>1, <3>2 DEF Outcome
  <2> QED
    BY <2>1, <2>2
<1> QED
  BY <1>2, <1>3, <1>4 DEF Contract!Complete, e

LEMMA ConsumerStepContract ==
    ASSUME SafetyInv, NEW c \in Consumer, ConsumerStep(c)
    PROVE  Contract!CNext \/ UNCHANGED Contract!cvars
<1> USE DEF SafetyInv, TypeInv, TypeOK
<1>1. CASE Recover(c)
  <2>1. PICK S \in SUBSET {e \in Event : LeaseExpired(e) /\ Consumed(e)} :
          ReleaseFailed(S, {e \in S : Exhausted(e)}, [e \in Event |-> 0])
    BY <1>1 DEF Recover
  <2>2. \A e \in S : status[e] = "processing"
    BY DEF LeaseExpired
  <2>3. Contract!Abandon({e \in S : Exhausted(e)})
    BY <2>1, <2>2, AbandonStep
  <2> QED
    BY <2>3 DEF Contract!CNext
<1>2. CASE Claim(c)
  <2>1. PICK S \in SUBSET Event :
          /\ \A e \in S : status[e] = "pending"
          /\ status' = [e \in Event |-> IF e \in S THEN "processing" ELSE status[e]]
          /\ UNCHANGED <<op, effects>>
    BY <1>2 DEF Claim, Claimable, TakeClaims, domainVars, historyVars
  <2>2. Dispatch' = Dispatch /\ Outcome' = Outcome
    BY <2>1 DEF Dispatch, Outcome
  <2> QED
    BY <2>1, <2>2 DEF Contract!cvars
<1>3. CASE ClaimNothing(c) \/ GatherDone(c) \/ Restart(c)
  <2>1. UNCHANGED <<status, op, effects>>
    BY <1>3 DEF ClaimNothing, GatherDone, Restart, rowVars, domainVars, historyVars
  <2> QED
    BY <2>1, InvisibleStep
<1> QED
  BY <1>1, <1>2, <1>3 DEF ConsumerStep

LEMMA TaskStepContract ==
    ASSUME SafetyInv, NEW t \in Task, TaskStep(t)
    PROVE  Contract!CNext \/ UNCHANGED Contract!cvars
<1> USE DEF SafetyInv, TypeInv, TypeOK
<1>1. CASE Publish(t)
  <2>1. job[t] \in Event
    BY <1>1, OwnedJob DEF Publish
  <2> QED
    BY <1>1, <2>1, CompleteStep DEF Contract!CNext
<1>2. CASE DeadLetterUnknown(t) \/ MarkFailed(t)
  <2>1. job[t] \in Event /\ status[job[t]] = "processing"
    BY <1>2, OwnedJob DEF DeadLetterUnknown, MarkFailed
  <2>2. PICK dead \in SUBSET {job[t]}, wait \in [Event -> 0..RetryMax] :
          ReleaseFailed({job[t]}, dead, wait)
    <3>1. \A d \in Event : Backoff(d) \in 0..RetryMax
      BY DEF Backoff
    <3> QED
      BY <1>2, <3>1 DEF DeadLetterUnknown, MarkFailed
  <2>3. Contract!Abandon(dead)
    BY <2>1, <2>2, AbandonStep
  <2> QED
    BY <2>1, <2>3 DEF Contract!CNext
<1>3. CASE Checkpoint(t)
  <2>1. /\ job[t] \in Event /\ UNCHANGED <<status, effects>>
        /\ \/ op' = op
           \/ /\ kind[job[t]] = "kb_purge" /\ status[job[t]] = "processing"
              /\ op' = [op EXCEPT ![job[t]] = "processing"]
    BY <1>3 DEF Checkpoint, TasksHaveJobs
  <2>2. Dispatch' = Dispatch
    BY <2>1 DEF Dispatch
  <2>3. Outcome' = Outcome
    BY <2>1 DEF Outcome, RowInv, OperationMirrorsDispatch, HasOperation
  <2> QED
    BY <2>1, <2>2, <2>3 DEF Contract!cvars
<1>4. CASE Load(t) \/ FindStale(t) \/ Raise(t) \/ TaskDies(t)
  <2>1. UNCHANGED <<status, op, effects>>
    BY <1>4 DEF Load, FindStale, Raise, TaskDies, rowVars, domainVars, historyVars
  <2> QED
    BY <2>1, InvisibleStep
<1> QED
  BY <1>1, <1>2, <1>3, <1>4 DEF TaskStep

(***************************************************************************)
(* For any number of consumers, crashes and lost claims: a dispatch is     *)
(* open until it is done once or given up, and only a failed one reopens.  *)
(***************************************************************************)
THEOREM OutboxImplementsContract == Spec => ImplementsContract
<1>1. SafetyInv /\ [Next]_vars => [Contract!CNext]_(Contract!cvars)
  <2> SUFFICES ASSUME SafetyInv, [Next]_vars
               PROVE  Contract!CNext \/ UNCHANGED Contract!cvars
    OBVIOUS
  <2>1. CASE Tick \/ UNCHANGED vars
    <3>1. UNCHANGED <<status, op, effects>>
      BY <2>1 DEF Tick, vars, rowVars, domainVars, historyVars
    <3> QED
      BY <3>1, InvisibleStep
  <2> QED
    BY <2>1, EventStepContract, ConsumerStepContract, TaskStepContract DEF Next
<1> QED
  BY <1>1, InitContract, SafetyInvariant, PTL DEF Spec, ImplementsContract, Contract!CSpec
=============================================================================
