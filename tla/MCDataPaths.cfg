CONSTANTS
    Params <- MCParams
    ColumnName <- MCColumnName
    MaxInt64 = 1000
    Homes <- MCHomes
    Added <- MCAdded
    MaxDisturbances = 2

SPECIFICATION DataSpec

INVARIANT DataTypeOK
INVARIANT EventAsMapped
INVARIANT FreshColumnsFit
PROPERTY CompatibleKept
PROPERTY EvolvesTyped
PROPERTY FittingStaysUp
PROPERTY KeepsStoringData
