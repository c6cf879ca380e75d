SPECIFICATION FairSpec
CONSTANTS
    Worker = {w1, w2}
    None = None
    MaxFaults = 2
    MaxEpoch = 1
CONSTRAINT FaultsOrEpochs
INVARIANTS
    CompletedIsStaged
    CompletedIsFinished
    CancelIsHonoured
PROPERTIES
    StagedWorkIsKept
    IntentIsServed
    ParsingEnds
CHECK_DEADLOCK FALSE
