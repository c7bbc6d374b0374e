CONSTANTS
    poolEnabled = FALSE
    multiConnectionMode = TRUE
    HasAddress = FALSE
    HasResolver = TRUE
    PoolSize = 1
    Ops = {}
    Infos = {i1}
    Stoppers = {s1}
    Watcher = watcher
    None = None
    MaxConns = 2
    MaxAddrs = 1
SPECIFICATION FairSpec
CHECK_DEADLOCK FALSE
PROPERTY StopReturns
