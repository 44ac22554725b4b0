SPECIFICATION Spec
CONSTANTS
    MaxCards = 3
    MaxVersion = 3
    MaxRuns = 2
    MaxFailures = 1
CHECK_DEADLOCK FALSE
PROPERTIES
    NeverOverwrites
