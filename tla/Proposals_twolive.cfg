CONSTANTS
    Roots = {r1}
    a = a
    Whats = {a, b}
    Dues = {u1, u2}
    WhatOf <- MCWhatOf
    Desks = {d1}
    MaxEdits = 3
    MaxVersion = 2
SPECIFICATION Spec
SYMMETRY Symmetry
INVARIANT
    OneLiveInChain
CHECK_DEADLOCK FALSE
