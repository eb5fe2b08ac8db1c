SPECIFICATION MCSpec
CONSTANTS
    t1 = t1
    t2 = t2
    w1 = w1
    Thread = {t1, t2}
    Nobody = Nobody
    CacheSeconds = {0, 1}
    MaxTime = 2
    MaxVersion = 2
    MaxLoads = 3
    Worker = {t1, t2}
    NoThread = Nobody
    Statics = 2
    MaxSlots = 3
    MaxUpdates = 3
    Garbage = {5}
    Process = {1, 2}
    UINTS = 16
    RSBUFSZ = 5
    KEYIV = 2
    WORD = 2
    RESEED = 5
    Lengths = {1, 4}
    MaxSeeds = 3
    MaxOut = 8
    Number = 3
    States = 5
    MaxCount = 8
    Writer = {w1}
    Key = {1, 2, 3}
    HashOf <- MCHashOf
    Reader = {t1, t2}
    NoReader = Nobody
    Size <- MCSize
    Inner <- MCInner
    MaxAllocs = 3
    MaxGets = 4
    Slots <- MCSlots
    SlotWords = 10
    SIZE_MAX = 15
    Sizes = {1, 3}
    Aligns = {2, 4}
    CallocArgs <- MCCallocArgs
    FlagSets <- MCFlagSets
    Faults = {"over", "under", "twice"}
    MaxCalls = 3
SYMMETRY Symmetry
CHECK_DEADLOCK FALSE
INVARIANTS CountersExact AllocSound ZoneSound RandomOnce IndexedOnce
PROPERTIES NothingSkipped WalksForward KeyFound
