CONSTANTS
  NThreads = 3
  Chunks <- MCChunks
  SkipsLast = TRUE
  MayAbort = TRUE
SPECIFICATION Spec
INVARIANTS ScratchIsWhole ChunksComputedOnce
PROPERTIES ImplementsGraph CallEnds
CHECK_DEADLOCK FALSE
