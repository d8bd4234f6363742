SPECIFICATION Spec
CONSTANTS
    Asked = {"fulfilled", "undo", "altered and due"}
    Desks = {d1, d2}
    Attempts = 2
    Window = 1
    MaxEdits = 1
    MaxClock = 3
    MaxLines = 3
    MaxFaults = 1
SYMMETRY Symmetry
INVARIANTS
    TypeOK
    EachLineOnce
PROPERTIES
    ToldIsInForce
    ActsOnShown
CHECK_DEADLOCK FALSE
