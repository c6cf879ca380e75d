---- MODULE MCDocuments ----
EXTENDS DocumentRefinement, TLC
Symmetry == Permutations(Doc)

\* A request that works on an old copy meets no worker that lost its run.
OneAtATime ==
    \A d \in Doc, n \in Rev : request[d] = None \/ worker[d][n].late = "idle"
====
