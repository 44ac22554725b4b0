SPECIFICATION Spec
CONSTANTS
    N = 3
    Cards <- MCCards
    Stored <- MCNothing
    MaxWrites = 2
    MaxVersion = 0
    MaxFailures = 2
CHECK_DEADLOCK FALSE
INVARIANTS
    NoneIsSwallowed
