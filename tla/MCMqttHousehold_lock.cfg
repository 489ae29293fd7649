SPECIFICATION MqttSpec
CONSTANTS
    None = None
    NodeIds = {n1}
    Issuers = {ann}
    ReportValues = {}
    Topics = {}
    MaxLog = 0
    Logbook = {"takes"}
    MaxStamp = 3
    MaxSeq = 3
    Clocks = {"wall", "uptime"}
    Sources = {"homekey", "mqtt"}
    Stamping = {"wall", "uptime"}
    MaxQueue = 2
    MaxDrops = 1
    MaxRestarts = 1
INVARIANTS MqttTypeOK SnapshotNeverHidesEvent LogFollowsTheDoor PersonIsTheTapper
PROPERTIES CauseIsOfTheNewestChange
