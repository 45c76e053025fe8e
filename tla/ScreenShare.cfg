SPECIFICATION FairScreenSpec
CONSTANTS
    WindowBits = 3
    v1 = v1
    v2 = v2
    Viewers = {v1, v2}
    Forwarder = v1
    Sharer = s
    MaxStreams = 3
    MaxRetained = 2
    MaxCompleted = 2
    Setting <- Settings
INVARIANTS
    ReceiverKnowsStream
    RetainedIsExact
    HeardOnce
PROPERTIES
    NeverBackwards
    StatesAgree
CHECK_DEADLOCK FALSE
