CONSTANTS
    Threads = {t1, t2}
    Nobody = nobody
    NoConfig = noConfig
    TTLs = {0, 2}
    Lifetimes = {0, 1}
    Grace = 1
    MaxTime = 4
    MaxClears = 2
    MaxTokens = 3
SPECIFICATION ClientSpec
INVARIANTS
    NothingSpentIsUsed
PROPERTIES
    FetchOnlyStale
    CallsEnd
