SPECIFICATION FairTransportSpec
CONSTANTS
    a = a
    b = b
    state = state
    files = files
    Peer = {a, b}
    Channel = {state, files}
    OrderedChannel = {state}
    MSS = 1
    MaxFragments = 2
    InitialCwnd = 4
    MinimumCwnd = 2
    MaximumCwnd = 6
    MaxQueuedBytes = 3
    MaxReassemblyBytes = 4
    MaxAssemblies = 2
    MaxParts = 4
    SequenceModulus = 64
    WindowBits = 2
    Workload <- Settings
INVARIANTS
    CountersAreExact
    RetransmissionHelps
PROPERTIES
    DeliversAsPromised
    FollowsWindowRule
    Settles
CHECK_DEADLOCK FALSE
