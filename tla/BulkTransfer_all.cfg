CONSTANTS
  Base = 2
  HeaderBytes = 2
  Clients = {"cli", "page"}
  Sizes <- MCSizes
  Quota = 2
  MaxPayload = 2
  MaxRounds = 2
SPECIFICATION Spec_LiveRelay
INVARIANTS TypeOK RoundsEndAtFrames OkMeansIntact
PROPERTIES TransferEnds
CHECK_DEADLOCK FALSE
