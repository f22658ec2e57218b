\* One peer that comes, chokes and goes twice around two strategies, pieces it
\* never has, and a restore over the live manager: the run may end.
SPECIFICATION FairSpec
CONSTANTS
  Pieces = {0, 1, 2}
  Peers = {a}
  Needed = {0, 1, 2}
  Priority <- FlatPriority
  FileOrder <- TwoFiles
  Bitfields <- SeedOrHalf
  Strategies = {"rarest_first", "sequential"}
  TopK = 2
  Window = 2
  Removes = FALSE
  MaxSessions = 2
  MaxRestarts = 0
  MaxRestores = 1
CHECK_DEADLOCK FALSE
PROPERTIES PassesOverOnlyInWindow AvailableIsAsked
