SPECIFICATION Spec
CONSTANTS
    Doc = {d1}
    Managed = {d1}
    Purgeable = {d1}
    MaxRevision = 2
    MaxEpoch = 2
    Disturbance = {"stale request", "late worker", "image failure", "throttling"}
    None = None
CONSTRAINT OneAtATime
INVARIANTS
    TransientLifecycleHasWork
PROPERTY ActivationIsFenced
CHECK_DEADLOCK FALSE
