SPECIFICATION Spec
CONSTANTS
    Ints = {zero, one}
    Strings = {empty, text}
    Zero = zero
    Empty = empty
    Partial = partial
    Wires <- MCWires
    MaxFields = 2
INVARIANTS
    TypeOK
    DefaultUnlessPresent
    MeansWhatWasRead
PROPERTIES
    AcceptedIsWhole
    RoundTrip
    ParseEnds
CHECK_DEADLOCK FALSE
