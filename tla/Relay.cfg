CONSTANTS
  Conn = {c1, c2, c3}
  Route = {r1}
  None = None
  MaxConnections = {2, 3}
  Reuse = TRUE
SPECIFICATION FairSpec
CHECK_DEADLOCK FALSE
INVARIANTS
  ActiveIsExact
  NoGhostPeer
  NoSolePeerStranded
PROPERTIES
  PartnerFollows
