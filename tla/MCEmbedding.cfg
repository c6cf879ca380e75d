SPECIFICATION Spec
CONSTANTS
    Kb = {k1, k2}
    Model = {m1, m2}
    First = m1
    Worker = {w1, w2}
    None = None
    MaxCampaigns = 2
    MaxContent = 2
    MaxFaults = 2
SYMMETRY Symmetry
INVARIANTS
    VersionsAreTrue
PROPERTIES
    CutoverIsCovered
    LostWorkIsDropped
CHECK_DEADLOCK FALSE
