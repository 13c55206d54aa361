SPECIFICATION FairSpec
CONSTANTS
  Session = {s1, s2}
  Model = {m1, m2}
  Name = {n}
  NameOf <- SharedName
  Pieces = 3
  MinPieces = 2
  Methods <- WithTimeouts
  MaxTries = 2
  Modes = {"known"}
  Forces = {FALSE}
  ByUrls = {FALSE}
  MaxCalls = 2
  MaxCrashes = 1
PROPERTIES
  DownloadsEnd
CHECK_DEADLOCK FALSE
