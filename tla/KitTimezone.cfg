SPECIFICATION ZoneSpec
CONSTANTS
    Thread = {t1, t2}
    Nobody = Nobody
    CacheSeconds = {0, 1}
    MaxTime = 2
    MaxVersion = 2
    MaxLoads = 3
CHECK_DEADLOCK FALSE
INVARIANT ThreadSafe
