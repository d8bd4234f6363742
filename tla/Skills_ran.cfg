SPECIFICATION Spec
CONSTANTS
    t1 = t1
    t2 = t2
    k1 = k1
    k2 = k2
    k3 = k3
    e1 = e1
    e2 = e2
    Transcripts = {t1, t2}
    Keys = {k1, k2, k3}
    Entities = {e1, e2}
    Enrolled = {k1, k2}
    LockOf <- MCLockOf
    Commands <- MCCommands
INVARIANTS
    RanIsNotStaged
CHECK_DEADLOCK FALSE
