----------------------------- MODULE MCEmbedding -----------------------------
EXTENDS EmbeddingCampaign, TLC
Symmetry == Permutations(Worker) \cup Permutations(Kb)
=============================================================================
