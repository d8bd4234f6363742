SPECIFICATION FairSpec
CONSTANTS
    Steps = {s1, s2}
    Kinds = {"ordinary", "credential save", "shutdown"}
    Modes = {"call", "call within", "async within"}
    NoStep = NoStep
PROPERTIES
    KeepsItsPromise
    NeverWritesMovedStore
    EveryCallerIsTold
    CloseReturns
CHECK_DEADLOCK FALSE
