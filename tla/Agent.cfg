SPECIFICATION MCSpec
CONSTANTS
    HistoryWindow = 1
    MaxTurns = 2
    MaxToolLoop = 2
    MaxRuns = 3
    MaxCalls = 2
    Files <- MCFiles
    Asked <- MCAsked
    a1 = a1
    a2 = a2
    g1 = g1
    g2 = g2
    p1 = p1
    Procs = {p1}
    Agents = {a1, a2}
    Writers = {g1, g2}
    ProcOf <- OneProcess
    Facts = {f1, f2}
    Threshold = 1
    Faults = TRUE
    Free = Free
    Contents <- SoulContents
    Default <- SoulDefault
    i1 = i1
    i2 = i2
    i3 = i3
    t1 = t1
    s1 = s1
    r1 = r1
    None = None
    Ids = {i1, i2, i3}
    Terminals = {t1}
    Services = {s1}
    Runs = {r1}
    HostOf <- InTerminal
    MaxClock = 2
    Failures = TRUE
SYMMETRY Symmetry
INVARIANTS
    RequestEndsOnUser
    ExecutedCallsAnswered
    HistoryBounded
    RequestBudget
    OnlyOfferedRun
    KeptNotes
    FileWhole
    LiveHasDir
    CurrentIsLive
PROPERTIES
    FailedInputTakenBack
    CancelStopsWork
