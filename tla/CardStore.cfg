SPECIFICATION FairSpec
CONSTANTS
    p1 = p1
    p2 = p2
    c1 = c1
    blank = blank
    played = played
    torn = torn
    Callers <- MCCallers
    Cards <- MCCards
    Images <- MCImages
    ValidImages <- MCValidImages
    Blank = blank
    Claims <- MCClaims
    None = None
    NoOne = NoOne
    MaxVersion = 2
INVARIANTS
    TypeOK
    FastForwardOnly
    EveryVersionReadable
    RetriesAreFree
    AnswersHold
PROPERTIES
    AppendOnly
    EveryCallReturns
    ImplementsHistory
