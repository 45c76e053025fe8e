SPECIFICATION FairSpec
CONSTANTS
    Snapshots <- Discovered
    Mapping <- Mappings
    Service = {local}
    MaxAnnounceCandidates = 4
    EventCapacity = 1
    StateCapacity = 1
    Setting <- Settings
PROPERTIES
    Current
    LeavesCleanly
CHECK_DEADLOCK FALSE
