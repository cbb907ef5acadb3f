CONSTANTS
  Base = 2
  HeaderBytes = 2
  Clients = {"cli"}
  Sizes <- MCGoodSizes
  Quota = 2
  MaxPayload = 2
  MaxRounds = 1
SPECIFICATION Spec_AnyRelay
PROPERTIES HardDeadlineEnds
CHECK_DEADLOCK FALSE
