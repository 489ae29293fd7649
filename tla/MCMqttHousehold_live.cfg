SPECIFICATION MqttFairSpec
CONSTANTS
    None = None
    NodeIds = {n1}
    Issuers = {}
    ReportValues = {}
    Topics = {}
    MaxLog = 0
    Logbook = {"takes", "raises"}
    MaxStamp = 2
    MaxSeq = 2
    Clocks = {"uptime"}
    Sources = {"device", "mqtt"}
    Stamping = {"uptime"}
    MaxQueue = 2
    MaxDrops = 1
    MaxRestarts = 1
PROPERTY EventuallyShowsTheDoor
