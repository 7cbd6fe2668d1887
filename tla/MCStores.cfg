SPECIFICATION Spec
CONSTANTS
  Edit = {a, b, c}
  MaxVersion = 3
  None = None
  Saver = {p, q}
  Auto = {auto, hourly}
  Named = {draft}
  Keep = 2
  MaxFails = 1
  Setups <- MCSetups
SYMMETRY Symmetry
INVARIANTS HistoryExact
PROPERTIES RefinesVersionLog PrunesHold RetentionSound
CHECK_DEADLOCK FALSE
