SPECIFICATION Spec
CONSTANTS
  MaxLen = 2
  MaxMine = 3
  MaxTheirs = 1
  MaxMarkers = 2
INVARIANTS MarkersSound MovesSound
CHECK_DEADLOCK FALSE
