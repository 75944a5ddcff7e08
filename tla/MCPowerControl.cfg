CONSTANTS
    Files <- MCFiles
    Events <- MCEvents
    Reports <- MCReports
    Histories <- MCHistories
    TestOnly = FALSE
    defaultBaseRequest = 2
    defaultMaxRequest = 4
    StartBlock = 1

SPECIFICATION PowerSpec

INVARIANT PowerTypeOK
INVARIANT RaisesAreUnblocked
INVARIANT OneController
PROPERTY DynamicDecidesAlone
PROPERTY DynamicWithinLimits
PROPERTY KeepsDiscipline
