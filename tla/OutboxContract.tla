--------------------------- MODULE OutboxContract ---------------------------
(***************************************************************************)
(* What the outbox promises to the code that writes an event: the dispatch *)
(* stays open until it is either done, its effects committed once, or      *)
(* given up; the operation behind it ends with it; and only work whose     *)
(* operation failed is ever opened again.  Claims, leases, attempts,       *)
(* consumers and crashes are not visible here.                             *)
(***************************************************************************)
EXTENDS Naturals

CONSTANT Event

VARIABLES
    dispatch,  \* "absent", "open", "done" or "dead"
    outcome,   \* of the operation: "none", "open", "completed" or "failed"
    effects    \* times the effects of this dispatch were committed

cvars == <<dispatch, outcome, effects>>

CInit ==
    /\ dispatch = [e \in Event |-> "absent"]
    /\ outcome = [e \in Event |-> "none"]
    /\ effects = [e \in Event |-> 0]

Request(e) ==
    /\ dispatch[e] = "absent"
    /\ dispatch' = [dispatch EXCEPT ![e] = "open"]
    /\ \E o \in {"none", "open"} : outcome' = [outcome EXCEPT ![e] = o]
    /\ UNCHANGED effects

\* The effects and the end of the operation become visible together.
Complete(e) ==
    /\ dispatch[e] = "open"
    /\ dispatch' = [dispatch EXCEPT ![e] = "done"]
    /\ effects[e] = 0
    /\ effects' = [effects EXCEPT ![e] = 1]
    /\ IF outcome[e] = "none" THEN UNCHANGED outcome
       ELSE \E o \in {"completed", "failed"} :
              outcome' = [outcome EXCEPT ![e] = o]

\* Several dispatches may be given up in one transaction.
Abandon(S) ==
    /\ \A e \in S : dispatch[e] = "open"
    /\ dispatch' = [e \in Event |-> IF e \in S THEN "dead" ELSE dispatch[e]]
    /\ outcome' = [e \in Event |->
                     IF e \in S /\ outcome[e] # "none" THEN "failed"
                     ELSE outcome[e]]
    /\ UNCHANGED effects

Reopen(e) ==
    /\ dispatch[e] \in {"done", "dead"}
    /\ outcome[e] = "failed"
    /\ dispatch' = [dispatch EXCEPT ![e] = "open"]
    /\ outcome' = [outcome EXCEPT ![e] = "open"]
    /\ effects' = [effects EXCEPT ![e] = 0]

CNext ==
    \/ \E e \in Event : Request(e) \/ Complete(e) \/ Reopen(e)
    \/ \E S \in SUBSET Event : Abandon(S)

CSpec == CInit /\ [][CNext]_cvars
=============================================================================
