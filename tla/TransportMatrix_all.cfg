SPECIFICATION FairSpec
CONSTANTS
  Statuses <- MCStatuses
  Ip4 = {"public", "private"}
  Ip6 = {"public6"}
  Dns = {"name"}
  DialHosts = {"public", "public6", "name"}
  Ladder <- MCLadder
  Tag <- MCTag
  Message <- MCMessage
  LF = "LF"
INVARIANTS
  TypeOK
  ReportIsWhole
PROPERTIES
  RunEnds
CHECK_DEADLOCK FALSE
