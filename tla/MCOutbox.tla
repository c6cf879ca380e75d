----------------------------- MODULE MCOutbox -----------------------------
EXTENDS OutboxRefinement, TLC
Symmetry == Permutations(Event) \cup Permutations(Consumer) \cup Permutations(Task)
=============================================================================
