SPECIFICATION CoordSpec
CONSTANTS
    None = None
    NodeIds = {n1}
    Issuers = {ann}
    ReportValues = {v1}
    MaxStamp = 1
    MaxSeq = 0
    Clocks = {"wall"}
    Topics = {"status", "legacy_status", "state", "health", "security", "lock/last", "last_auth"}
    MaxLog = 1
    Logbook = {"takes", "raises"}
CHECK_DEADLOCK FALSE
INVARIANTS CoordTypeOK PoolIsCurrent MarkedIsAttributed LogClaimsOnlyDeviceChanges
