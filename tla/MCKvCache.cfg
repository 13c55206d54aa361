CONSTANTS
    Size = 4
    NBatch = 3
    NUbatch = 2
    Pad = 3
    Margin = 1
    Tokens = {a, b}
    Batches <- MCBatches
SPECIFICATION Spec
INVARIANT ContentIsOwnPast
INVARIANT LogitsAreOfTheLastToken
INVARIANT TrialLeavesNoTrace
PROPERTY ImplementsContext
