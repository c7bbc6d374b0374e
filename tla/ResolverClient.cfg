\* one connection at a time, replaced as the resolver says
CONSTANTS
    poolEnabled = FALSE
    multiConnectionMode = FALSE
    HasAddress = FALSE
    HasResolver = TRUE
    PoolSize = 1
    Ops = {o1}
    Infos = {i1}
    Stoppers = {s1}
    Watcher = watcher
    None = None
    MaxConns = 2
    MaxAddrs = 2
    a = a
    b = b
    Lists <- MCLists
    MaxInflight = 1
SPECIFICATION RCSpec
CHECK_DEADLOCK FALSE
INVARIANTS
    ServesReceived
    OnlyLateConnectsLeak
PROPERTY ImplementsConnectionSet
