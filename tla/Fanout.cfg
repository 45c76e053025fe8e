SPECIFICATION FairFanoutSpec
CONSTANTS
    Peer = {1, 2, 3}
    Nil = Nil
    QueueLimit = 1
    Network <- Settings
INVARIANTS
    PlanCovers
    ReadyIsInForce
PROPERTIES
    EveryoneHears
CHECK_DEADLOCK FALSE
