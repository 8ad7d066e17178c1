SPECIFICATION FairSpec
CONSTANTS
    Clients = {c1, c2}
    Creator = c1
    Char <- Mixed
    Encodable <- MixedEncodable
    Decode <- MixedDecode
    InOrder = FALSE
    Inputs <- MixedInputs
    MaxSelect = 2
    MaxEdits = 2
    MaxFailures = 0
    MaxLives = 1
    MayEnd = TRUE
PROPERTY EventualAgreement
CHECK_DEADLOCK FALSE
