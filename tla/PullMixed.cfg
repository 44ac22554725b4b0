SPECIFICATION Spec
CONSTANTS
    g1 = g1
    before = before
    after = after
    Games = {g1}
    Images <- MCImages
    Stored <- MCStored
    OutCap = 3
    PullWindow = 2
    Span = 2
    MaxRounds = 2
    MaxVersion = 2
    MaxCalls = 1
    MaxMishaps = 1
CHECK_DEADLOCK FALSE
INVARIANT PulledIsAVersion
