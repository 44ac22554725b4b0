SPECIFICATION Spec
CONSTANTS
    N = 3
    Cards <- MCCards
    Stored <- MCStored
    MaxWrites = 3
    MaxVersion = 1
    MaxFailures = 0
CHECK_DEADLOCK FALSE
PROPERTIES
    TornIsRefused
