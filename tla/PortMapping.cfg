SPECIFICATION FairSpec
CONSTANTS
    Providers <- AllProviders
    Port = {1, 2}
    InternalPort = 1
    FallbackAttempts = 1
    Lease = 3
    LongestLease = 2
    Forever = Forever
    Nil = Nil
    StatesCapacity = 2
    Setting <- Settings
INVARIANTS
    LeavesNothing
    ShownIsHeld
PROPERTIES
    NoTrespass
    Settles
CHECK_DEADLOCK FALSE
