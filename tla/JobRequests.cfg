SPECIFICATION FairSpec
CONSTANTS
    Jobs = {j1, j2}
    Keys = {"doctor", "transcript summarize"}
    Deduplicated = {"doctor"}
    Summaries = {"transcript summarize"}
    StateAttempts = 2
    MaxLives = 2
    NoKey = "no key"
INVARIANTS
    OneRunPerKey
    NoOtherRowIsStranded
    CleanStopSettles
PROPERTIES
    StartedJobsSettle
    StopEnds
CHECK_DEADLOCK FALSE
