SPECIFICATION Spec
CONSTANTS
    Doc = {d1, d2}
    LegacyDoc = {d1}
    Operation = {o1}
    Fresh = Fresh
    None = None
    MaxEpoch = 3
    Request = {{d2}}
    MaxDrafts = 1
    MaxChanges = 4
INVARIANTS
    ServedSnapshotIsUsable
    RollbackWindowIsKept
    LegacyChunksAreKept
    GarbageIsCollected
    WithdrawalsSettle
PROPERTIES
    KeepsWithdrawals
CHECK_DEADLOCK FALSE
