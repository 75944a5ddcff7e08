SPECIFICATION LifeSpec
CONSTANTS
    MaxTries = 0
    DefaultMaxTries = 2
    CloseIfStuck = FALSE
    MaxDisturbances = 1
INVARIANT EndHttpEndsStore
