SPECIFICATION Spec
CONSTANTS
    HistoryWindow = 1
    MaxTurns = 3
    MaxToolLoop = 3
    MaxRuns = 5
INVARIANT
    WindowStartsOnUser
CHECK_DEADLOCK FALSE
