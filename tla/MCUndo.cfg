SPECIFICATION Spec
CONSTANT Setups <- MCSetups
INVARIANTS StacksSound
PROPERTIES Inverts OnlyOwn
CHECK_DEADLOCK FALSE
