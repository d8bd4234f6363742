SPECIFICATION Spec
CONSTANTS
    Jobs = {j1, j2}
    NoJob = NoJob
    MaxTimeouts = 2
    MaxMoves = 2
PROPERTIES
    NoAnswerHandedOnLate
CHECK_DEADLOCK FALSE
