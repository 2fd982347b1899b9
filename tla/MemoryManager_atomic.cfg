SPECIFICATION MemorySpec
CONSTANTS
    a1 = a1
    a2 = a2
    g1 = g1
    g2 = g2
    p1 = p1
    Procs = {p1}
    Agents = {a1, a2}
    Writers = {g1, g2}
    ProcOf <- OneProcess
    Facts = {f1, f2}
    Threshold = 1
    Faults = TRUE
    Free = Free
    Contents <- SoulContents
    Default <- SoulDefault
PROPERTY
    WrittenAtomically
