SPECIFICATION Spec
CONSTANTS
    Followers = {f1, f2}
    Capacity = 1
    MemoryLen = 2
    MaxSends = 2
    MaxStreams = 2
    MaxMessages = 3
    News = {1, 3}
    NewsChanSize = 1
    Goroutines = {1, 2}
    Names = {n1, n2}
    Maps = {counters}
    MapOf <- MCMapOf
    Users = {1, 2}
    Keys = {1, 2}
    ShardsCount = 2
    ShardOf <- MCShardOf
    MaxCalls = 2
    None = None
INVARIANTS BroadcastSafe SuckerSafe MetricsSafe MapSafe
PROPERTIES BroadcastLive SuckerLive DeafAfterRestart CallsReturn
CHECK_DEADLOCK FALSE
