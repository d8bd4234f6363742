SPECIFICATION Spec
CONSTANTS
    Jobs = {j1, j2}
    NoJob = NoJob
    MaxTimeouts = 2
    MaxMoves = 2
INVARIANTS
    WaitingRowIsOffered
CHECK_DEADLOCK FALSE
