SPECIFICATION MCSpec
CONSTANTS
    Procs = {p1}
    Tasks = {t1}
    Exprs <- AnyKind
    Window = 4
    PollInterval = 1
    DbFaults = FALSE
    MaxTime = 3
    Horizon <- Hours
    At <- CalendarAt
    HourEnd <- HourEnds
    DayEnd <- DayEnds
    MonthEnd <- MonthEnds
    Lo <- Lowest
    Hi <- Highest
    SearchWindow <- TwoYears
    CronExprs <- Expressions
    Froms = {0, 3, 8, 30, 36}
INVARIANTS
    RecordedRunsHappened
    InFlightExplained
    FirstMatch
    NoneInWindow
    MatchIsFires
PROPERTIES
    MissedRunStaysDue
    ImplementsLedger
    DueTaskFires
    StopEnds
    SearchEnds
CHECK_DEADLOCK FALSE
