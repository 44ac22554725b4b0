SPECIFICATION Spec
CONSTANTS
    MaxSaves = 3
    MaxVersion = 4
    MaxOthers = 0
    MaxCuts = 1
    MaxFailures = 0
PROPERTIES
    ResetLosesNothing
