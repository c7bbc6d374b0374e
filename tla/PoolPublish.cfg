\* two publishers on a pool of two, and Stop; int is 5 bits wide
CONSTANTS
    poolEnabled = TRUE
    multiConnectionMode = FALSE
    HasAddress = TRUE
    HasResolver = FALSE
    PoolSize = 2
    Ops = {o1, o2}
    Infos = {}
    Stoppers = {s1}
    Watcher = watcher
    None = None
    MaxConns = 2
    MaxAddrs = 1
    IntBits = 5
    MaxPublishes = 5
SPECIFICATION PoolSpec
INVARIANTS
    LoadIsShared
    NoIncrementLost
