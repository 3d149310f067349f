SPECIFICATION Spec
CONSTANTS
    Keys = 3
    Unsigned = 2
    Text <- MCText
INVARIANTS
    HonestIsAccepted
    ChangedIsRefused
CHECK_DEADLOCK FALSE
