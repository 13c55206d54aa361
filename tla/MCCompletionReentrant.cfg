SPECIFICATION FairSpec
CONSTANTS
  Handle = {h1}
  NCtx = 3
  NBatch = 1
  MaxCalls = 2
  Prompts = {2, 3}
  Texts = {4}
  Predicts = {2}
  Timeouts = {TRUE}
  PoliteCallbacks = FALSE
INVARIANTS
  TextFollowsContext
  CallbackProtocol
  DeadlineHolds
PROPERTIES
  EveryCallReturns
CHECK_DEADLOCK FALSE
