SPECIFICATION PollerFairSpec
CONSTANTS
    None = None
    NodeIds = {n1}
    TheNode = n1
    Issuers = {}
    ReportValues = {v1}
    Topics = {}
    MaxLog = 0
    Logbook = {"takes"}
    Clocks = {"wall"}
    MaxStamp = 0
    MaxSeq = 0
    Sources = {"device"}
    Ticks = {t1}
    Commands = {}
    DIRECT_OFFLINE_AFTER_FAILURES = 3
    Modes = {"up", "garbage"}
    MaxGlitches = 1
PROPERTIES GarbageIsShown
