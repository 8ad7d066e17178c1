SPECIFICATION FairSpec
CONSTANTS
    Contents <- MCContents
    Sizes <- MCSizes
    MaxVarint = 3
    IntMax = 6
    DefaultTotal = 5
    MaxFlat = 4
    MaxChunk = 3
    MaxLimits = 2
    MayFail = TRUE
INVARIANTS
    TypeOK
    InputInStep
    WithinLimits
    BackUpAllowed
    FlatNeedsNoInput
PROPERTIES
    ReadsAsPromised
    CallsEnd
CHECK_DEADLOCK FALSE
