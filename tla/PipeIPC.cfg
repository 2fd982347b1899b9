SPECIFICATION FairSpec
CONSTANTS
    c1 = c1
    c2 = c2
    None = None
    Clients = {c1, c2}
    Big = {c2}
    Cap = 1
    MaxChunks = 2
INVARIANTS
    OwnAnswerOnly
PROPERTIES
    ListensAgain
    RequestEnds
CHECK_DEADLOCK FALSE
