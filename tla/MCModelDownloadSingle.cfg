SPECIFICATION Spec
CONSTANTS
  Session = {s1}
  Model = {m1, m2}
  Name = {n1, n2}
  NameOf <- OwnNames
  Pieces = 3
  MinPieces = 2
  Methods <- AllTools
  MaxTries = 2
  Modes = {"skip", "known", "trust", "expected"}
  Forces = {TRUE, FALSE}
  ByUrls = {TRUE, FALSE}
  MaxCalls = 3
  MaxCrashes = 1
INVARIANTS
  NoMixture
  FailedLeavesNothing
  ReturnedMatchesHash
  ReturnedIsWhole
CHECK_DEADLOCK FALSE
