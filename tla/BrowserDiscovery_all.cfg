SPECIFICATION FairSpec
CONSTANTS
  p1 = p1
  p2 = p2
  Peers = {p1, p2}
  Addrs <- MCAddrs
  Adverts <- MCAdverts
  MaxEvents <- MCMaxEvents
INVARIANTS
  TypeOK
  OneAttemptPerPeer
  PendingIsDialing
  StaleTableIsRefreshed
  StoppedIsEmpty
PROPERTIES
  NoRepeatedDial
  PendingSettles
CHECK_DEADLOCK FALSE
