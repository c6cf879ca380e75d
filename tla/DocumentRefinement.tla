------------------------- MODULE DocumentRefinement -------------------------
(***************************************************************************)
(* What is withdrawn in DocumentLifecycle is a revision, and search shows  *)
(* the revisions of the served snapshot.  A withdrawal that failed may be  *)
(* tried again and is not over.                                            *)
(***************************************************************************)
EXTENDS DocumentLifecycle

Revisions == Doc \X Rev

Life ==
    [x \in Revisions |->
       CASE withdrawal[x[1]][x[2]] = "none" -> "live"
         [] withdrawal[x[1]][x[2]] = "completed" -> "gone"
         [] OTHER -> "leaving"]

Visible == IF served = None THEN {} ELSE served.revs

Withdrawals ==
    INSTANCE WithdrawalContract
      WITH Thing <- Revisions, life <- Life,
           visible <- Visible

\* Whatever requests, workers and handlers read before they had their locks, the
\* documents are withdrawn as the contract says: a revision that was ever asked
\* to leave is in no snapshot that is activated afterwards, and is out of search
\* for ever once its withdrawal is reported as completed.
KeepsWithdrawals == Withdrawals!WSpec
=============================================================================
