SPECIFICATION FairSpec
CONSTANTS
    Jobs = {j1, j2}
    NoJob = NoJob
    MaxTimeouts = 2
    MaxMoves = 2
INVARIANTS
    TypeOK
    SummarizedIsWhole
PROPERTIES
    RevokedNeverWrites
    ClaudeIsNotReplacedUnasked
    MeetingIsFreed
CHECK_DEADLOCK FALSE
