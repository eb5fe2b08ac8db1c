SPECIFICATION MCSpec
CONSTANTS
    K1 = 4
    V1 = 4
    K3 = 8
    V3 = 8
    K5 = 8
    V5 = 16
    K8 = 16
    V8 = 16
    Key = {3, 4}
    Hash <- MCHash
    KeyLen <- MCKeyLen
    Value <- MCValue
    SheetsMax = 4
    Rows = 2
    Cells = 2
    SheetsAtStart = 1
    Page = 8
    KvMod = 64
    KvMaximum = 0
    MaxPuts = 6
    Keys = 4
    List = {0, 1}
    PageCounts = 3
    MixLists = FALSE
    MaxCount = 3
    a = a
    b = b
    t1 = t1
    t2 = t2
    t3 = t3
    NoThread = NoThread
    Thread = {t1, t2, t3}
    Ensemble = {a, b}
    Locked = {a, b}
    Slots = 2
    Jobs <- SwapOneWay
INVARIANT UidStable
CHECK_DEADLOCK FALSE
