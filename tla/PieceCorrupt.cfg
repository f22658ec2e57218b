\* One block of bad data.
SPECIFICATION FairSpec
CONSTANTS
  Pieces = {p1}
  Blocks = {0}
  Peers = {a}
  Tasks = {t1}
  Bitfields <- OnlySeeds
  Needed = {p1}
  MaxSelect = 1
  MaxCreated = 2
  MaxSaves = 0
  MaxRestarts = 0
  MaxRestores = 0
  EndgameDuplicates = 2
  EndgamePercent = 95
  Faults = {"corrupt"}
PROPERTIES CorruptIsRefetched
