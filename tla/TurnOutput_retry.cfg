SPECIFICATION Spec
CONSTANTS
    MaxRetries = 3
    Streams <- Answers
    MaxCalls = 2
    MaxTurns = 2
    MaxToolCalls = 1
    Loop = Loop
    Nobody = Nobody
INVARIANT RetryBudget
CHECK_DEADLOCK FALSE
