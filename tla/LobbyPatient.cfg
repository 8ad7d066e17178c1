SPECIFICATION Spec
CONSTANTS
    Devices = {d1, d2}
    Hasty = {d1}
    Names = {n1, n2}
    NoName = NoName
    Slots = {s1, s2}
    MaxSessions = 1
    MaxUnderWay = 2
SYMMETRY Symmetric
CONSTRAINT FewCalls
INVARIANTS
    TypeOK
    EditorHasSession
    LobbyLeftSession
    OneThingAtATime
PROPERTIES
    JoinsWhatIsAsked
    NoWayBack
CHECK_DEADLOCK FALSE
