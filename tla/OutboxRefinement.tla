-------------------------- MODULE OutboxRefinement --------------------------
(***************************************************************************)
(* The outbox implements its contract: a dispatch is open while its event  *)
(* is pending or processing, and an operation is open while it is pending  *)
(* or processing.                                                          *)
(***************************************************************************)
EXTENDS Outbox

Dispatch ==
    [e \in Event |->
       IF status[e] = "absent" THEN "absent"
       ELSE IF status[e] \in {"pending", "processing"} THEN "open"
       ELSE IF status[e] = "published" THEN "done" ELSE "dead"]

Outcome ==
    [e \in Event |->
       IF op[e] = "none" THEN "none"
       ELSE IF op[e] \in {"pending", "processing"} THEN "open"
       ELSE IF op[e] = "completed" THEN "completed" ELSE "failed"]

Contract == INSTANCE OutboxContract
              WITH dispatch <- Dispatch, outcome <- Outcome

\* Every behaviour of the consumers, crashes included, is one the contract of
\* the outbox allows.
ImplementsContract == Contract!CSpec
=============================================================================
