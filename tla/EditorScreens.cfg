SPECIFICATION Spec
CONSTANTS
    Heights <- MCHeights
    Bar = 1
    MaxInset = 9
    MaxUndo = 2
    MaxPops = 2
INVARIANTS
    TypeOK
    InsetBalance
    OneTimer
    ButtonsReach
PROPERTY KeptOnlyByEditing
CHECK_DEADLOCK FALSE
