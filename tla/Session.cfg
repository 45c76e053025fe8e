SPECIFICATION FairSpec
CONSTANTS
    NoPath = NoPath
    NoSession = NoSession
    Path = {"direct", "bridge"}
    DirectPath = {"direct"}
    MaxFresh = 12
    MaxBacklog = 0
    Setting <- Settings
INVARIANTS
    SessionIDsDiffer
    KeyConfirmed
PROPERTIES
    NeverBackToOldSession
    Converges
    LeaverIsForgotten
CHECK_DEADLOCK FALSE
