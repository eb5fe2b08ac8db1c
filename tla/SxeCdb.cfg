SPECIFICATION MCSpec
CONSTANTS
    K1 = 4
    V1 = 4
    K3 = 8
    V3 = 8
    K5 = 8
    V5 = 16
    K8 = 16
    V8 = 16
    Key = {1, 2, 4, 5, 6}
    Hash <- MCHash
    KeyLen <- MCKeyLen
    Value <- MCValue
    SheetsMax = 4
    Rows = 2
    Cells = 2
    SheetsAtStart = 1
    Page = 16
    KvMod = 128
    KvMaximum = 48
    MaxPuts = 5
    Keys = 4
    List = {0, 1}
    PageCounts = 3
    MixLists = FALSE
    MaxCount = 3
    a = a
    b = b
    t1 = t1
    t2 = t2
    t3 = t3
    NoThread = NoThread
    Thread = {t1, t2, t3}
    Ensemble = {a, b}
    Locked = {a, b}
    Slots = 2
    Jobs <- SwapOneWay
SYMMETRY Symmetry
CHECK_DEADLOCK FALSE
INVARIANTS UidStable FoundIfPut DebugValidate RoundTrip
INVARIANTS CountsSound WalkComplete EnsembleSound NoDeadlock
