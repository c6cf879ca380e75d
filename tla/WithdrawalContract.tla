------------------------- MODULE WithdrawalContract -------------------------
(***************************************************************************)
(* What a withdrawal promises to whoever searches a knowledge base: from   *)
(* the request on a thing is shown by no search that is set up anew; when  *)
(* the withdrawal is reported as done it is out of search, and it is out   *)
(* for ever.  Epochs, snapshots, builds, handlers and what they have read  *)
(* are not visible here.                                                   *)
(***************************************************************************)
CONSTANT Thing    \* what can be withdrawn, once

VARIABLES
    life,         \* of each thing; one that nobody asked to withdraw is "live"
    visible       \* the things that search shows

wvars == <<life, visible>>

Live == {x \in Thing : life[x] = "live"}

WInit ==
    /\ life = [x \in Thing |-> "live"]
    /\ visible \in SUBSET Thing

Withdraw(x) ==
    /\ life[x] = "live"
    /\ life' = [life EXCEPT ![x] = "leaving"]
    /\ UNCHANGED visible

Show ==
    /\ visible' \in SUBSET Live
    /\ UNCHANGED life

Finish(x) ==
    /\ life[x] = "leaving"
    /\ life' = [life EXCEPT ![x] = "gone"]
    /\ visible' \in SUBSET Live

WNext == Show \/ \E x \in Thing : Withdraw(x) \/ Finish(x)

WSpec == WInit /\ [][WNext]_wvars
=============================================================================
