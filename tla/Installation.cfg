SPECIFICATION FairSpec
CONSTANTS
    Tasks = {t1}
    Handler = h
    Behind = {b1}
    Clis = {c1, c2}
    Keys = {k1, k2}
    Exclusive <- MCExclusive
    MaxCommands = 4
INVARIANTS
    RequestsCarryKey
PROPERTIES
    OwnerKept
    RegisteredLast
    ServiceSettles
CHECK_DEADLOCK FALSE
