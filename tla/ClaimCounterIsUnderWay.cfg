SPECIFICATION Spec
CONSTANTS
    Clients = {c1, c2}
    Creator = c1
    Char <- Plain
    Encodable <- Plain
    Decode <- PlainDecode
    InOrder = TRUE
    Inputs <- Keys
    MaxSelect = 1
    MaxEdits = 3
    MaxFailures = 1
    MaxLives = 0
    MayEnd = FALSE
INVARIANT CounterIsUnderWay
CHECK_DEADLOCK FALSE
