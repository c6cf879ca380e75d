--------------------------- MODULE MCKbLifecycle ---------------------------
EXTENDS KbRefinement, TLC
Symmetry == Permutations(Item) \cup Permutations(Handler)
=============================================================================
