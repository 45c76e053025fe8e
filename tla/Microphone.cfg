SPECIFICATION Spec
CONSTANTS
    CaptureQueueFrames = 1
    MaxVoiceBatches = 1
    Datagrams = 2
    MaxOperations = 4
    MaxRuns = 2
    Nil = Nil
INVARIANTS
    GatesAgree
    SpeakingIsLive
    NobodyStuck
PROPERTIES
    NothingAfterMute
CHECK_DEADLOCK FALSE
