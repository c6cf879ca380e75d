------------------------- MODULE SnapshotRefinement -------------------------
(***************************************************************************)
(* What is withdrawn in Snapshots is a document, and search shows the      *)
(* manifest of the active snapshot.                                        *)
(***************************************************************************)
EXTENDS Snapshots

Life ==
    [d \in Doc |-> CASE docs[d] = "active" -> "live"
                     [] docs[d] = "withdrawn" -> "gone"
                     [] OTHER -> "leaving"]

Visible == IF active = None THEN {} ELSE active.manifest

Withdrawals ==
    INSTANCE WithdrawalContract
      WITH Thing <- Doc, life <- Life,
           visible <- Visible

\* The switches of the pointer, forward and back, of operators and of handlers
\* with an old copy of the knowledge base, keep the contract of a withdrawal.
KeepsWithdrawals == Withdrawals!WSpec
=============================================================================
