CONSTANTS
  c1 = c1  c2 = c2  d1 = d1  None = None
  Calls = {c1, c2}
  Dbs = {d1}
  Relays <- MCRelays
  Place <- MCPlace
  RelayAddrs <- MCRelayAddrs
  Bases <- MCBases
SPECIFICATION FairSpec
INVARIANTS
  TypeOK
  PickReachesRelay
  CallersCanDial
  NothingMeansNothing
PROPERTIES
  CallsEnd
CHECK_DEADLOCK FALSE
