SPECIFICATION Spec
CONSTANTS
    N = 3
    Cards <- MCCards
    Stored <- MCStored
    MaxWrites = 2
    MaxVersion = 3
    MaxFailures = 1
CHECK_DEADLOCK FALSE
INVARIANTS
    TypeOK
    SavesArePushed
    HandoffIsOwed
PROPERTIES
    OverwritesNothing
    EverySaveArrives
