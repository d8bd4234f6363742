SPECIFICATION LiveSpec
CONSTANTS
    N = 3
    Clashes <- MCClashes
    Unreadable = {1}
    MaxIngestAttempts = 2
    MaxFaults = 2
INVARIANTS
    TypeOK
    CapturesHaveRows
    TimeOrder
    AskedAgain
PROPERTIES
    EveryPartIsTried
CHECK_DEADLOCK FALSE
