CONSTANTS
    Roots = {r1}
    a = a
    Whats = {a, b}
    Dues = {u1, u2}
    WhatOf <- MCWhatOf
    Desks = {d1, d2}
    MaxEdits = 2
    MaxVersion = 2
SPECIFICATION Spec
SYMMETRY Symmetry
INVARIANTS
    TypeOK
    EditsKeepRewrites
    OneLiveReplacement
PROPERTIES
    PastIsFrozen
    ShownIsApproved
CHECK_DEADLOCK FALSE
