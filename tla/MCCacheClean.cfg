SPECIFICATION MCSpec
CONSTANTS
  NFiles = 4
  Protected = {4}
  Sizes = {1, 2}
  Today = 2
  Cleaner = {r1, r2}
  MaxAge = 1
  Limit = 2
  Lrus = {TRUE, FALSE}
  MaxWrites = 1
SYMMETRY Symmetry
INVARIANTS
  UnderLimitAfterClean
  EvictsOnlyExcess
CHECK_DEADLOCK FALSE
