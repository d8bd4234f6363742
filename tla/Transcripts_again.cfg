SPECIFICATION Spec
CONSTANTS
    N = 2
    Clashes = {}
    Unreadable = {}
    MaxIngestAttempts = 2
    MaxFaults = 2
INVARIANTS
    TriedAgain
CHECK_DEADLOCK FALSE
