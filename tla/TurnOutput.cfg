SPECIFICATION FairSpec
CONSTANTS
    MaxRetries = 2
    Streams <- Answers
    MaxCalls = 2
    MaxTurns = 2
    MaxToolCalls = 1
    Loop = Loop
    Nobody = Nobody
INVARIANTS
    CancelStops
    ResponseIsOneStream
PROPERTIES
    TurnReturns
    SpinnersEnd
CHECK_DEADLOCK FALSE
