SPECIFICATION LiveSpec
CONSTANTS
    Asked = {"fulfilled", "due"}
    Desks = {d1}
    Attempts = 2
    Window = 1
    MaxEdits = 1
    MaxClock = 3
    MaxLines = 4
    MaxFaults = 1
PROPERTIES ApprovedIsRecorded
CHECK_DEADLOCK FALSE
