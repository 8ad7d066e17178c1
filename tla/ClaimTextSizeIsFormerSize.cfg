SPECIFICATION Spec
CONSTANTS
    Clients = {c1, c2}
    Creator = c1
    Char <- Plain
    Encodable <- Plain
    Decode <- PlainDecode
    InOrder = TRUE
    Inputs <- Keys
    MaxSelect = 1
    MaxEdits = 3
    MaxFailures = 0
    MaxLives = 0
    MayEnd = FALSE
INVARIANT TextSizeIsFormerSize
CHECK_DEADLOCK FALSE
