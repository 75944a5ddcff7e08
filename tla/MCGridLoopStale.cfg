CONSTANTS
    Files <- MCFiles
    Events = {}
    Reports = {}
    defaultBaseRequest = 1
    defaultMaxRequest = 4
    StartBlock = 1
    Loads = {0, 4, 6}
    Outputs = {0, 2, 6}
    ReadingsPerSecond = 2
    MaxDisturbances = 2

SPECIFICATION GridSpec

PROPERTY UpdatedIfNeeded
