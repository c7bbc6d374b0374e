CONSTANTS
    Services = {s1, s2}
    Addrs = {a}
    Callbacks = {c1, c2}
    Nil = Nil
    Debounced = TRUE
    WaitExceedsDebounce = FALSE
    MayStop = FALSE
    MaxLog = 3
    MaxKV = 2
SPECIFICATION Spec
SYMMETRY Symmetry
INVARIANTS
    WaitIndexOfService
    PendingHasCarrier
PROPERTY ImplementsFeed
