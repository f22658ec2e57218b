\* Two coroutines, three blocks, a depth that shrinks from two to one; two
\* peers that claim up to one piece more than the metadata has.
\* The system stops when the connection or the fetch has ended.
CHECK_DEADLOCK FALSE
SPECIFICATION MCSpec
CONSTANTS
  Tasks = {t1, t2}
  Blocks = {b1, b2, b3}
  NoBlock = NoBlock
  InitialDepth = 2
  AdaptedDepth = 1
  MaxChokes = 1
  Servers = {m1, m2}
  TruePieces = 2
  MaxPieces = 3
INVARIANTS PipelineIsSound MetadataIsSound
PROPERTIES ImplementsWindow EveryAnswerFreesItsSlot FetchReturns
