SPECIFICATION MCSpec
CHECK_DEADLOCK FALSE
CONSTANTS
  o1 = o1
  i1 = i1
  p1 = p1
  Outgoing = {o1}
  Incoming = {i1}
  Hosts = {p1}
  HostOf <- Host
  NoConn = NoConn
  MaxPeers = 1
  MaxCasts = 1
  c1 = c1
  c2 = c2
  w1 = w1
  Callers = {c1, c2, w1}
  WarmUps = {w1}
  Peers = {p1}
  PeerOf <- Asked
  NoSock = NoSock
  MaxConnections = 1
  MaxChecks = 1
  a1 = a1
  a2 = a2
  t1 = t1
  Askers = {a1, a2}
  Trackers = {t1}
  TrackerOf <- Tracker
  NoAsker = NoAsker
  MaxTries = 2
  TidSpace = 7
INVARIANTS ConnectionsAreSound PoolIsSound TrackerIsSound
PROPERTIES TableStableWhileHeld AnnouncedInOrder ConnectionsProceed ImplementsCalls CallsEnd
