SPECIFICATION Spec
CONSTANTS
  Id = {me, p1, p2, p3}
  Local = me
  x = x
  y = y
  x1 = x1
  x2 = x2
  y2 = y2
  State = {x, y}
  Text = {x1, x2, y2}
  Parse <- Parsed
  Size <- Sizes
  None = None
  MaxWire = 1
  MaxClock = 2
  Slack = 1
  Setups <- MCSetups
SYMMETRY Symmetry
INVARIANTS AccountsExact
PROPERTIES NoGoingBack ChangesAnnounced
