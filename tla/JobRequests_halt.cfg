SPECIFICATION FairSpec
CONSTANTS
    Jobs = {j1, j2}
    Keys = {"doctor", "transcript summarize"}
    Deduplicated = {"doctor"}
    Summaries = {"transcript summarize"}
    StateAttempts = 2
    MaxLives = 2
    NoKey = "no key"
PROPERTIES
    HaltStopsTheDaemon
CHECK_DEADLOCK FALSE
