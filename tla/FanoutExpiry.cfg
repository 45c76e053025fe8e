SPECIFICATION FanoutSpec
CONSTANTS
    Peer = {1, 2}
    Nil = Nil
    QueueLimit = 1
    Network <- ExpirySettings
INVARIANTS
    PlanFollowsTopology
CHECK_DEADLOCK FALSE
