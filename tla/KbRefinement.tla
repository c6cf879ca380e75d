---------------------------- MODULE KbRefinement ----------------------------
(***************************************************************************)
(* The knowledge base keeps two contracts.                                 *)
(*                                                                         *)
(* Its own: its content is the pages, which are rows alone, and the        *)
(* objects in storage that a committed row has named, whether or not the   *)
(* row is still there.                                                     *)
(*                                                                         *)
(* That of the outbox, for the one event it dispatches: KbLifecycle has    *)
(* claim, lease, attempts and retry of the purge in it, abridged from the  *)
(* module Outbox, and what it shows rests on that being an outbox.  The    *)
(* effects of a dispatch are committed when its event is published.        *)
(***************************************************************************)
EXTENDS KbLifecycle

Content == (rows \ keys) \cup (known \cap stored)

Contract == INSTANCE KbContract WITH content <- Content

\* Whatever writers, workers and coroutines of a purge do at the same time, and
\* wherever they die, people see what the contract of a knowledge base allows.
KeepsContract == Contract!KSpec

Purge == {"purge"}

Dispatch ==
    [e \in Purge |->
       IF event.status = "none" THEN "absent"
       ELSE IF event.status \in {"pending", "processing"} THEN "open"
       ELSE IF event.status = "published" THEN "done" ELSE "dead"]

Outcome ==
    [e \in Purge |->
       IF op.status = "none" THEN "none"
       ELSE IF op.status \in {"pending", "processing"} THEN "open"
       ELSE IF op.status = "completed" THEN "completed" ELSE "failed"]

Effects == [e \in Purge |-> IF event.status = "published" THEN 1 ELSE 0]

Outbox == INSTANCE OutboxContract
            WITH Event <- Purge, dispatch <- Dispatch, outcome <- Outcome,
                 effects <- Effects

\* The purge is dispatched as the outbox promises: its operation ends when its
\* event does, in the same transaction, however many coroutines, slow ones
\* among them, have had the claim, and only a failed purge is opened again.
PurgeIsDispatched == Outbox!CSpec
=============================================================================
