\* a debouncing resolver: the KV key moves from one service to another
CONSTANTS
    Services = {s1, s2}
    Addrs = {a}
    Callbacks = {c1, c2}
    Nil = Nil
    Debounced = TRUE
    WaitExceedsDebounce = TRUE
    MayStop = FALSE
    MaxLog = 2
    MaxKV = 2
SPECIFICATION LiveSpec
PROPERTIES
    Converges
