SPECIFICATION Spec
CONSTANTS
    w1 = w1
    w2 = w2
    w3 = w3
    c1 = c1
    c2 = c2
    p1 = p1
    p2 = p2
    config = config
    capture = capture
    plain = plain
    linked = linked
    Writers = {w1, w2, w3, c1, c2}
    Processes = {p1, p2}
    ProcessOf <- MCProcessOf
    Files = {config, capture}
    FileOf <- MCFileOf
    Created = {capture}
    Spellings = {plain, linked}
    MaxTries = 1
    MaxLosses = 1
SYMMETRY Symmetry
INVARIANTS
    TypeOK
    NothingLost
    NeverTorn
CHECK_DEADLOCK FALSE
