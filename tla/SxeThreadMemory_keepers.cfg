SPECIFICATION MemorySpec
CONSTANTS
    Thread = {m, w1}
    Main = m
    Addr = {a1, a2}
    NULL = NULL
    Modes = {"ALL"}
    MaxTries = 2
    ExitDuringFree = TRUE
INVARIANT KeepersNotFreed
