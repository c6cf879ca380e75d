SPECIFICATION FairSpec
CONSTANTS
    Task = {t1}
    Org = {o1}
    Ticker = {k1, k2}
    Client = {c1}
    None = None
    Period = 2
    BatchSize = 1
    MaxTime = 3
PROPERTIES
    ClaimTakesTheTimeRead
    DueTaskIsClaimed
