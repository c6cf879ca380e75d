----------------------------- MODULE KbContract -----------------------------
(***************************************************************************)
(* What a knowledge base promises to the people whose content it keeps:    *)
(* content is added while it is active and never otherwise; an archive     *)
(* ends the shares and keeps the content whole for the restore; once a     *)
(* purge is ordered nothing but destruction happens, and the report that   *)
(* it is purged comes with the last of the content.  Boundaries, plans,    *)
(* runs, events, objects, attempts and crashes are not visible here.       *)
(***************************************************************************)
CONSTANT Item

VARIABLES
    status,   \* "active", "archived", "purge_pending", "purged", "deleted"
    content,  \* the items that exist
    shared    \* somebody else may read it

kvars == <<status, content, shared>>

KInit == status = "active" /\ content = {} /\ shared = FALSE

Add(i) ==
    /\ status = "active"
    /\ i \notin content
    /\ content' = content \cup {i}
    /\ UNCHANGED <<status, shared>>

Share ==
    /\ status = "active"
    /\ shared' = TRUE
    /\ UNCHANGED <<status, content>>

PutAway ==
    /\ status = "active"
    /\ status' = "archived"
    /\ shared' = FALSE
    /\ UNCHANGED content

BringBack ==
    /\ status = "archived"
    /\ status' = "active"
    /\ UNCHANGED <<content, shared>>

OrderPurge ==
    /\ status = "archived"
    /\ status' = "purge_pending"
    /\ UNCHANGED <<content, shared>>

Destroy(i) ==
    /\ status = "purge_pending"
    /\ content' = content \ {i}
    /\ UNCHANGED <<status, shared>>

FinishPurge ==
    /\ status = "purge_pending"
    /\ status' = "purged"
    /\ content' = {}
    /\ UNCHANGED shared

DropUnused ==
    /\ status = "active"
    /\ content = {}
    /\ ~shared
    /\ status' = "deleted"
    /\ UNCHANGED <<content, shared>>

KNext ==
    \/ \E i \in Item : Add(i) \/ Destroy(i)
    \/ Share \/ PutAway \/ BringBack \/ OrderPurge \/ FinishPurge \/ DropUnused

KSpec == KInit /\ [][KNext]_kvars
=============================================================================
