SPECIFICATION Spec
CONSTANTS
  c1 = c1
  c2 = c2
  c3 = c3
  auto = auto
  none = none
  Clicks = {c1, c2, c3}
  OnMount = auto
  None = none
  Ops = {"start", "stop", "restart", "dial", "bulk", "file", "todo", "relay", "check"}
SYMMETRY Symmetry
INVARIANTS
  TypeOK
  KeptNodeIsAlive
  BulkKeepsItsController
  BusyIsTrue
  AloneNothingIsLost
CHECK_DEADLOCK FALSE
