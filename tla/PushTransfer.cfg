SPECIFICATION TransferSpec
CONSTANTS
    k1 = k1
    k2 = k2
    zeros = zeros
    ones = ones
    twos = twos
    t1 = t1
    t2 = t2
    Keys = {k1, k2}
    Contents = {zeros, ones, twos}
    Zero = zeros
    ValidImages <- MCValidImages
    Attempts <- MCAttempts
    OtherImages <- MCOtherImages
    Tasks = {t1, t2}
    MaxStaging = 2
    MaxChunks = 2
    WindowSize = 1
    MaxVersion = 1
    Saves <- MCSaves
    MaxRounds = 2
    MaxPushes = 1
    MaxMishaps = 1
CHECK_DEADLOCK FALSE
INVARIANTS
    TransferTypeOK
    ResultHolds
    LossIsRecovered
PROPERTIES
    PushReturns
    ActsAsListener
