SPECIFICATION MCSpec
CONSTANTS
  Texts = 2
  Schema <- MCSchema
  MaxString = 3
  Pieces = {"a", "b", "c", "d", "e"}
  Categories <- MCCategories
  Windows <- MCWindows
  MaxExchanges = 10
INVARIANTS
  FilledRowIsWhole
  BalancedIsFound
  AnswerIsCategoryOrCutOff
  KeepsMostRecent
  HistoryBounded
  BeginsWithQuestion
CHECK_DEADLOCK FALSE
