SPECIFICATION MCSpec
CONSTANTS
    MaxTurns = 2
    Lines = {"say", "new", "switch", "reset", "think", "attach", "edit", "other", "exit"}
    Chars <- Typed
    MaxLine = 2
    MaxHistory = 2
INVARIANTS
    OneContext
PROPERTIES
    DraftKept
    SignalEnds
    EditsText
CHECK_DEADLOCK FALSE
