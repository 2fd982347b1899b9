SPECIFICATION Spec
CONSTANTS
    Procs = {p1}
    Tasks = {t1}
    Exprs <- EveryOther
    Window = 4
    PollInterval = 2
    DbFaults = FALSE
    MaxTime = 6
PROPERTY
    CancelIsFinal
