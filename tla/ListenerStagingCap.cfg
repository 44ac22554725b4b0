SPECIFICATION Spec
CONSTANTS
    k1 = k1
    k2 = k2
    zeros = zeros
    ones = ones
    twos = twos
    t1 = t1
    t2 = t2
    Keys = {k1, k2}
    Contents = {zeros, ones, twos}
    Zero = zeros
    ValidImages <- MCValidImages
    Attempts <- TwoDeltas
    OtherImages <- MCOtherImages
    Tasks = {t1, t2}
    MaxStaging = 1
    MaxChunks = 2
    WindowSize = 1
    MaxVersion = 2
INVARIANT StagingCapped
