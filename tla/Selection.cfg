\* Two peers that connect, announce and leave around rarest-first, a restart
\* and restores.  They stop after MaxSessions connections: the run may end.
SPECIFICATION Spec
CONSTANTS
  Pieces = {0, 1}
  Peers = {a, b}
  Needed = {0, 1}
  Priority <- FirstPreferred
  FileOrder <- FlatPriority
  Bitfields <- SeedOrHalf
  Strategies = {"rarest_first"}
  TopK = 1
  Window = 2
  Removes = TRUE
  MaxSessions = 2
  MaxRestarts = 1
  MaxRestores = 2
SYMMETRY Symmetry
CHECK_DEADLOCK FALSE
INVARIANTS CountersAreSound
PROPERTIES RarestComesFirst
