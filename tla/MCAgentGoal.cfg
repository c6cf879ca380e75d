SPECIFICATION FairSpec
CONSTANTS
    Run = {r1, r2}
    None = None
    MaxInput = 0
    HasGoal = TRUE
    MaxAutoRuns = 1
    Plans = {"moving"}
    Overtaking = TRUE
INVARIANTS
    AutoRunsBounded
PROPERTIES
    OvertakenRunIsFenced
    SessionIsReleased
