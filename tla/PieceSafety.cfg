\* A piece of two blocks, a peer that lies, sends unasked, chokes and vanishes, two
\* checkpoints, a restart, and restores over the blank or the living process.
SPECIFICATION Spec
CONSTANTS
  Pieces = {p1}
  Blocks = {0, 1}
  Peers = {a}
  Tasks = {t1, t2}
  Bitfields <- OnlySeeds
  Needed = {p1}
  MaxSelect = 1
  MaxCreated = 2
  MaxSaves = 2
  MaxRestarts = 1
  MaxRestores = 2
  EndgameDuplicates = 2
  EndgamePercent = 95
  Faults = {"corrupt", "unsolicited", "choke", "send"}
SYMMETRY Symmetry
INVARIANTS PiecesAreSound VerifiedIsAuthentic OneRequester
PROPERTIES CompleteNeverRequested
