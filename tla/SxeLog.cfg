SPECIFICATION MCSpec
CONSTANTS
    Pool = {p1, p2}
    Number = 2
    States = 3
    Timeout <- MCTimeout
    TimeMod = 16
    MaxClock = 2
    t1 = t1
    t2 = t2
    NoThread = NoThread
    c1 = c1
    c2 = c2
    Thread = {t1, w1}
    Main = t1
    Addr = {a1, a2, a3}
    NULL = NULL
    Modes = {"UNUSED", "ALL"}
    MaxTries = 1
    ExitDuringFree = TRUE
    Focuses = {"levels"}
    Races = TRUE
CHECK_DEADLOCK FALSE
INVARIANT FullyInitialized
