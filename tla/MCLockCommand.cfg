SPECIFICATION CommandFairSpec
CONSTANTS
    None = None
    Nodes = {n1, n2}
    Nonces = {a, b, c}
    Window = 1
    MaxSent = 4
    Calls = {s1}
    MaxChecks = 1
    LockStates = {"locked", "unlocked"}
    MaxWire = 1
    MaxMishaps = 1
INVARIANTS CommandTypeOK TrackerIsRecentHistory NoReuseInWindow RefusalNeedsTwoPassedBy
PROPERTIES CallsAreAnswered
