SPECIFICATION Spec
CONSTANTS
    Run = {r1, r2}
    None = None
    MaxInput = 2
    HasGoal = FALSE
    MaxAutoRuns = 1
    Plans = {}
    Overtaking = TRUE
SYMMETRY Symmetry
INVARIANTS
    ExecutingRunHoldsSession
PROPERTIES
    KeepsSession
