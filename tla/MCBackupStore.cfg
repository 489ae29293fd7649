SPECIFICATION BackupSpec
CONSTANTS
    None = None
    Entries = {e1, e2}
    Direct = {e1}
    NodeOf <- EntryItself
    HouseholdOf <- EntryItself
    Households = {e1, e2}
    HomeOf <- EntryItself
    Jobs = {j1, j2}
    BACKUP_KEEP = 1
    MaxMade = 2
    MaxCrashes = 1
    MaxMoves = 1
    MaxRestoring = 1
SYMMETRY JobSymmetry
INVARIANTS BackupTypeOK RetentionHolds NamedIsDurable NodesStayHome
PROPERTIES StoreIsRolling
