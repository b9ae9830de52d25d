SPECIFICATION Spec
CONSTANTS
    None = None
    Files <- MCFiles
    Minute = 2
    Hour = 4
    Day = 12
    MinBuckets = 2
    MinBurst = 2
    MinLogs = 3
    MinBeaconHits = 3
    MinHosts = 2
    RareHits = 2
    MinHours = 2
    MinOffHours = 1
    QuietPercent = 70
    MaxUrls = 2
    MaxHostsShown = 1
    MinScore = 1
    MaxPerDetector = 2
    Score <- MCScore
    Digit = 2
    Separated = {5}
    Confidence = {1}
    MaxReply = 2
INVARIANT TypeOK
INVARIANT ShardingInvisible
INVARIANT FindingsCiteTheLog
CHECK_DEADLOCK FALSE
