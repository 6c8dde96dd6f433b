SPECIFICATION FairSpec
CONSTANTS
    NoKey = NoKey
    CacheEnabled = TRUE
    Proc = {p1}
    File = {f1}
    Url = {u1}
    Content = {big}
    Oversized = {big}
    FileTTL = 1
    UrlTTL = 1
    ContentTTL = 1
    MaxSize = 2
    Ctx = {x1}
    Gor = {g1}
    MaxClock = 2
    MaxVersion = 1
CHECK_DEADLOCK FALSE
INVARIANTS
    HitsWithinTTL
PROPERTIES
    EvictsLeastRecentlyUsed
    SweepersSweepAndStop
    ImplementsContract
