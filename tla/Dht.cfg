\* The callers end after one call each, the client is stopped for good.
SPECIFICATION DhtSpec
CHECK_DEADLOCK FALSE
CONSTANTS
  u1 = u1
  u2 = u2
  Bits = 3
  NodeIds <- Nodes
  OwnId <- Own
  InfoHashes <- AllHashes
  Drawn <- AllHashes
  NoId = NoId
  Seekers = {u1, u2}
  Starter = start
  Refresher = refresh
  HashOf <- Hash
  NoSeeker = NoSeeker
  K = 1
  Width = 2
  Enough = 1
  BadAfter = 1
  Hosts = 1
  Rounds = 1
  IdSpace = 9
  Says <- Talk
  MaxTasks = 2
  MaxClashes = 1
INVARIANTS RoutesAreSound QueriesAreSound
PROPERTIES GoodKeepsItsPlace DhtCallsEnd
