SPECIFICATION Spec
CONSTANTS
    Doc = {d1, d2}
    Managed = {d1, d2}
    Purgeable = {}
    MaxRevision = 2
    MaxEpoch = 2
    Disturbance = {"image failure", "throttling"}
    None = None
SYMMETRY Symmetry
PROPERTIES
    KeepsWithdrawals
    HandlersKeepTheOthers
CHECK_DEADLOCK FALSE
