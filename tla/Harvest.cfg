SPECIFICATION FairSpec
CONSTANTS
    LastEvent = 2
    Personal = {2}
    MaxAttempts = 2
    MaxWrites = 1
INVARIANTS
    PositionIsBacked
    NoSuccessOfFailed
PROPERTIES
    AbandonedNeverWritesAgain
    AttemptsEnd
CHECK_DEADLOCK FALSE
