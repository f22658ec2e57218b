\* Two pieces, a checkpoint at any point, a restart at any point, and a restore of
\* the checkpoint over whichever process lives.
SPECIFICATION Spec
CONSTANTS
  Pieces = {p1, p2}
  Blocks = {0}
  Peers = {a, b}
  Tasks = {t1, t2}
  Bitfields <- OnlySeeds
  Needed = {p1, p2}
  MaxSelect = 2
  MaxCreated = 1
  MaxSaves = 1
  MaxRestarts = 1
  MaxRestores = 1
  EndgameDuplicates = 2
  EndgamePercent = 95
  Faults = {"corrupt"}
SYMMETRY Symmetry
INVARIANTS PiecesAreSound
PROPERTIES ImplementsStore BlocksAreKept
