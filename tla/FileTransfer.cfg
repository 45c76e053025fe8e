SPECIFICATION FairSpec
CONSTANTS
    Transfer <- Two
    Setting <- Settings
    MaxMishaps = 1
    NoFile = NoFile
    NoJob = NoJob
INVARIANTS
    CompletedIsWhole
    SenderKnows
    StopAndWait
    NoPartialFile
    NobodyStranded
PROPERTIES
    EveryTransferEnds
CHECK_DEADLOCK FALSE
