\* several connections from a resolver, an application call and Stop
CONSTANTS
    poolEnabled = FALSE
    multiConnectionMode = TRUE
    HasAddress = FALSE
    HasResolver = TRUE
    PoolSize = 1
    Ops = {o1}
    Infos = {}
    Stoppers = {s1}
    Watcher = watcher
    None = None
    MaxConns = 2
    MaxAddrs = 2
SPECIFICATION FairSpec
INVARIANTS
    TypeOK
    CallsReachInstalled
    RetiredNotInUse
    DistinctClientIDs
    NoOrphanWhileRunning
    ExecNeverIndexesEmpty
PROPERTIES
    KeepsConnections
    StopReturns
    UpdatesAreHandled
