CONSTANTS
  q1 = q1  q2 = q2
  Gets = {q1}
  Sizes <- MCSizes
SPECIFICATION FairSpec
PROPERTIES CatEndsInTime
CHECK_DEADLOCK FALSE
