SPECIFICATION FairSpec
CONSTANTS
    Weight <- Weights
    QueueCapacity = 2
    InboxCapacity = 1
    Setting <- Settings
INVARIANTS
    NoStarvation
PROPERTIES
    Stops
CHECK_DEADLOCK FALSE
