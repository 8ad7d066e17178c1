SPECIFICATION Spec
CONSTANTS
    Clients = {c1, c2}
    Creator = c1
    Char <- Plain
    Encodable <- Plain
    Decode <- PlainDecode
    InOrder = FALSE
    Inputs <- Keys
    MaxSelect = 1
    MaxEdits = 3
    MaxFailures = 1
    MaxLives = 1
    MayEnd = TRUE
INVARIANTS
    CounterAccounting
    Convergence
    CrashIsCommon
PROPERTY SharedSpec
CHECK_DEADLOCK FALSE
