SPECIFICATION SetupFairSpec
CONSTANTS
    None = None
    MaxRounds = 3
    MaxUpsets = 5
INVARIANTS SetupTypeOK AddonErrorIsFresh
PROPERTY RetryEnds
CHECK_DEADLOCK FALSE
