SPECIFICATION HSpec
CONSTANTS
    LastEvent = 2
    Personal = {2}
    MaxAttempts = 2
    MaxWrites = 1
PROPERTIES
    AbandonedIsRefused
CHECK_DEADLOCK FALSE
