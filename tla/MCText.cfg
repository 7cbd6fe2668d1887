SPECIFICATION Spec
CONSTANTS
  Keys <- MCKeys
  Val = {"1"}
  Nil = "nil"
  Setups <- MCSetups
INVARIANTS EditsExact HiddenStateHonest ObserversTold
CHECK_DEADLOCK FALSE
