SPECIFICATION FairSpec
CONSTANTS
    LaneCap = 1
    Setups <- MCSetups
INVARIANTS Custody GapsTrue PresenceOfResidency
PROPERTIES Progress
CHECK_DEADLOCK FALSE
