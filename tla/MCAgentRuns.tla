---- MODULE MCAgentRuns ----
EXTENDS SessionRefinement, TLC
Symmetry == Permutations(Run)
====
