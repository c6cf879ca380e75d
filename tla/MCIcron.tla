---- MODULE MCIcron ----
EXTENDS Icron, TLC
Symmetry == Permutations(Task) \cup Permutations(Ticker)
====
