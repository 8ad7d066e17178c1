SPECIFICATION Spec
CONSTANTS
    Clients = {c1, c2}
    Creator = c1
    Char <- Plain
    Encodable <- Plain
    Decode <- PlainDecode
    InOrder = FALSE
    Inputs <- Pastes
    MaxSelect = 1
    MaxEdits = 3
    MaxFailures = 1
    MaxLives = 0
    MayEnd = FALSE
INVARIANTS
    TypeOK
    QuiescentAgreement
    TextSizeWhileCounting
PROPERTY NoChangeWhileOwnUnderWay
CHECK_DEADLOCK FALSE
