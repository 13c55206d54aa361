SPECIFICATION Spec
CONSTANTS
  Handle = {h1, h2}
  NCtx = 4
  NBatch = 1
  MaxCalls = 2
  Prompts = {2}
  Texts = {1}
  Predicts = {0, 2}
  Timeouts = {FALSE}
  PoliteCallbacks = TRUE
SYMMETRY Symmetry
INVARIANTS
  OwnContext
  PromptAlwaysFits
PROPERTIES
  ImplementsService
CHECK_DEADLOCK FALSE
