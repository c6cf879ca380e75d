SPECIFICATION Spec
CONSTANTS
    Item = {i1, i2}
    Writer = {w1}
    Kinds = {"upload", "share", "ingest", "page"}
    Reader = {r1}
    Handler = {h1, h2}
    None = None
    MaxEpoch = 3
    MaxAttempts = 2
    MaxRetries = 1
SYMMETRY Symmetry
CHECK_DEADLOCK FALSE
INVARIANTS
    PurgedIsEmpty
    CompletedIsPurged
    LedgerIsTrue
PROPERTIES
    WritesStayInTheirEpoch
    AnswersAreCurrent
    KeepsContract
    PurgeIsDispatched
