CONSTANTS
  f = f
  g = g
  a = a
  na = na
  good = good
  bad = bad
  lib = lib
  wrong = wrong
  nofile = nofile
  nowhere = nowhere
  Slots <- MCSlots
  Libraries = {lib, wrong}
  Loadable = {lib}
  MaxAttempts = 2
  MaxNamings = 1
  Sources = {f, g}
  Labels = {a, na}
  NameOf <- MCNames
  NoFile = nofile
  NaName <- MCNaName
  Nowhere = nowhere
  Contents = {good, bad}
  Broken = {bad}
  Part = bad
  MaxScans = 2
  MaxOpens = 1
  MaxMishaps = 3
SPECIFICATION MCSpec
INVARIANTS
  OwnedByHandle
  EarlyActivationTakesEffect
  ReportLeadsToSource
PROPERTY
  NothingOverwritten
SYMMETRY MCSymmetry
CHECK_DEADLOCK FALSE
