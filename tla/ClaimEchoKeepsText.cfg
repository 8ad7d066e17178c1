SPECIFICATION Spec
CONSTANTS
    Clients = {c1}
    Creator = c1
    Char <- Plain
    Encodable <- Plain
    Decode <- PlainDecode
    InOrder = TRUE
    Inputs <- Keys
    MaxSelect = 1
    MaxEdits = 4
    MaxFailures = 0
    MaxLives = 0
    MayEnd = FALSE
PROPERTY EchoKeepsText
CHECK_DEADLOCK FALSE
