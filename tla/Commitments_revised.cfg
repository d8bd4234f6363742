SPECIFICATION Spec
CONSTANTS
    Asked = {"fulfilled", "undo"}
    Desks = {d1, d2}
    Attempts = 2
    Window = 4
    MaxEdits = 1
    MaxClock = 5
    MaxLines = 4
    MaxFaults = 0
PROPERTIES RevisedKeepsState
CHECK_DEADLOCK FALSE
