SPECIFICATION MCSpec
CHECK_DEADLOCK FALSE
CONSTANTS
  w1 = w1
  w2 = w2
  w3 = w3
  f1 = f1
  f2 = f2
  Hole = Hole
  Writes = {w1, w2, w3}
  Files = {f1, f2}
  FileOf <- FileOfWrite
  PlaceOf <- PlaceOfWrite
  PriorityOf <- PriorityOfWrite
  Places = {0, 1}
  BatchLimit = 2
  MergeGap = 0
  MayFail = TRUE
  NumPieces = 2
  MaxLeaves = 2
  NoFile = NoFile
  Torn = Torn
INVARIANTS WritesAreSound AnsweredIsOnDisk CheckpointsAreSound
PROPERTIES ImplementsDurableWrites WritesProceed LeavingEnds
