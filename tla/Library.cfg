SPECIFICATION MCSpec
CONSTANTS
    SECSPERMIN = 5
    MINSPERHOUR = 10
    HOURSPERDAY = 24
    TIME_T_MIN <- MCTimeMin
    TIME_T_MAX = 1000000000
    INT_MIN <- MCIntMin
    INT_MAX = 2400
    Unspecified = "-00"
    UTC = "UTC"
    TZ_MAX_TIMES = 2000
    TZ_MAX_TYPES = 7
    TZ_MAX_CHARS = 6
    TZ_MAX_LEAPS = 5
    Zone <- MCZone
    Content <- MCContent
    DefContent <- NoFile
    Long <- MCLong
    Times <- MCTimes
    RTimes = {0}
    Rules <- MCRules
    List = {l1, l2}
    Object = {o1, o2, o3, o4}
    NULL = NULL
CHECK_DEADLOCK FALSE
INVARIANTS RingsClosed LengthRight QueuesAsSequences ZonesAsSpecified ResultsAsSpecified
PROPERTY ImplementsSpec
