SPECIFICATION PollerFairSpec
CONSTANTS
    None = None
    NodeIds = {n1}
    TheNode = n1
    Issuers = {}
    ReportValues = {v1}
    Topics = {}
    MaxLog = 0
    Logbook = {"takes", "raises"}
    Clocks = {"wall"}
    MaxStamp = 1
    MaxSeq = 1
    Sources = {"device"}
    Ticks = {t1, t2}
    Commands = {c1}
    DIRECT_OFFLINE_AFTER_FAILURES = 3
    Modes = {"up", "down", "rehomed", "garbage"}
    MaxGlitches = 2
INVARIANTS PollerTypeOK MissedPollsAreShown
PROPERTIES GoneIsShown BackIsShown
