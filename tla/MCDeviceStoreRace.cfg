CONSTANTS
    d1 = d1
    d2 = d2
    Devices <- MCDevices
    Params <- MCParams
    Answers <- MCAnswers
    MaxDisturbances = 2

SPECIFICATION StoreSpec

INVARIANT CreatesAbsent
