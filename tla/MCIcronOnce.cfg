SPECIFICATION Spec
CONSTANTS
    Task = {t1}
    Org = {o1}
    Ticker = {k1}
    Client = {}
    None = None
    Period = 1
    BatchSize = 1
    MaxTime = 3
INVARIANTS
    OnceTaskIsLaunched
