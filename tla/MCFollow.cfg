CONSTANTS
    a = a
    b = b
    Marks = {a, b}
    Origin = 1
    WINDOW = 2
    Returns = FALSE
    MaxHeight = 4
    MaxMoves = 3
    MaxFaults = 1
CHECK_DEADLOCK FALSE
SPECIFICATION FairSpec
INVARIANTS
    ClockOfChain
PROPERTIES
    ReachesTip
