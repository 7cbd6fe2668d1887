SPECIFICATION FairSpec
CONSTANTS
    Edit = {"e1", "e2"}
    Remote = {"r1"}
    Setups <- MCSetups
INVARIANTS NothingLost RejectionsTrue
PROPERTIES Converges CloseCompletes
CHECK_DEADLOCK FALSE
