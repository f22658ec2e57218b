SPECIFICATION MCSpec
CHECK_DEADLOCK FALSE
CONSTANTS
  k1 = k1
  k2 = k2
  k3 = k3
  t1 = t1
  Clients = {k1, k2}
  Torrents = {t1}
  NoSession = NoSession
  u1 = u1
  u2 = u2
  h1 = h1
  h2 = h2
  Users = {u1, u2}
  Hashes = {h1, h2}
  NoHash = NoHash
  MaxDown = 1
  MaxSeed = 1
  MaxActive = 1
  MaxCalls = 3
  MaxChanges = 1
PROPERTY MonitorEnforces
