SPECIFICATION Spec
CONSTANTS
    MaxSaves = 3
    MaxVersion = 6
    MaxOthers = 2
    MaxCuts = 1
    MaxFailures = 1
INVARIANTS
    TypeOK
    NoConflictAlone
    SyncedIsAgreed
    DeltaIsAgainstParent
PROPERTIES
    KeepsSaves
    CommitsDescend
