CONSTANTS
  q1 = q1  q2 = q2  sigint = sigint  sigterm = sigterm
  Gets = {q1, q2}
  Signals = {sigint, sigterm}
  Sizes <- MCSizes
SPECIFICATION ServerSpec
INVARIANTS TypeOK BodyIsWholeOrBroken
INVARIANTS RuntimeOutlivesRequests
PROPERTIES CatEndsOrWaitsForClient SignalEndsProcess
CHECK_DEADLOCK FALSE
