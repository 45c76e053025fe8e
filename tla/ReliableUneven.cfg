SPECIFICATION TransportSpec
CONSTANTS
    a = a
    b = b
    state = state
    files = files
    Peer = {a, b}
    Channel = {state}
    OrderedChannel = {state}
    MSS = 2
    MaxFragments = 1
    InitialCwnd = 8
    MinimumCwnd = 4
    MaximumCwnd = 12
    MaxQueuedBytes = 16
    MaxReassemblyBytes = 16
    MaxAssemblies = 8
    MaxParts = 8
    SequenceModulus = 64
    WindowBits = 4
    Workload <- UnevenSettings
INVARIANTS
    NoFragmentOutrun
CHECK_DEADLOCK FALSE
