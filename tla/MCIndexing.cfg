SPECIFICATION MCSpec
CONSTANTS
  MaxLen = 5
  LongLen = 11
  Texts <- MCTexts
  Sizes = {1, 2, 4, 7}
  Overlaps = {0, 1, 3, 7}
  Docs = 3
  MaxSplit = 2
  Lengths = {0, 1, 5}
  BatchSize = 2
  NCtx = 4
  NBatch = 2
INVARIANTS
  NothingLost
  ChunkFits
  OverlapHonoured
  RowsAligned
PROPERTIES
  ChunkingEnds
CHECK_DEADLOCK FALSE
