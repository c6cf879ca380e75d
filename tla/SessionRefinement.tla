------------------------- MODULE SessionRefinement -------------------------
(***************************************************************************)
(* The session of AgentRuns as its user sees it.  A run whose session was  *)
(* taken by recovery while it executed is not seen any more; one that was  *)
(* evicted before its turn had begun is late.                              *)
(***************************************************************************)
EXTENDS AgentRuns

Place ==
    [i \in Input |-> CASE status[i] = "unused" -> "new"
                       [] status[i] = "queued" -> "waiting"
                       [] OTHER -> "gone"]

Late == {r \in Run : fate[r] = "evicted"}

Session ==
    INSTANCE SessionContract
      WITH holder <- active, awaits <- pending, place <- Place,
           messages <- appears, late <- Late

\* However runs overlap with recovery, with crashes and with the requests that
\* reorder and delete what is queued, the session keeps its contract: it is taken
\* when it is free, only its holder and runs that were evicted before they began ask and
\* answer, and an input becomes a message in the one step that takes it from the
\* queue, to which nothing returns.
KeepsSession == Session!CSpec
=============================================================================
