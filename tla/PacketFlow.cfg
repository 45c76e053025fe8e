SPECIFICATION Spec
CONSTANTS
    WindowBits = 3
    MaxSequence = 7
INVARIANTS
    AtMostOnce
    NeverAheadOfSender
    FreshIsAcceptable
    AckIsValid
CHECK_DEADLOCK FALSE
