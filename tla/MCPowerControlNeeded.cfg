CONSTANTS
    Files <- MCFiles
    Events <- MCEvents
    Reports <- MCReports
    Histories <- MCHistories
    TestOnly = FALSE
    defaultBaseRequest = 2
    defaultMaxRequest = 4
    StartBlock = 1

SPECIFICATION PowerSpec

PROPERTY RaisedIfNeeded
