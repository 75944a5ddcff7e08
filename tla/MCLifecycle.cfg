SPECIFICATION LifeSpec
CONSTANTS
    MaxTries = 0
    DefaultMaxTries = 2
    CloseIfStuck = FALSE
    MaxDisturbances = 3
INVARIANTS
    LifeTypeOK
    SignalInHand
PROPERTIES
    ShutdownCompletes
    ComesUp
