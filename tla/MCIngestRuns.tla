----------------------------- MODULE MCIngestRuns -----------------------------
(* Instances of IngestRuns for TLC. *)
EXTENDS IngestRuns

\* Workers fail, or the knowledge base moves on.
FaultsOrEpochs == faults = 0 \/ epoch = 0
=============================================================================
