CONSTANTS
    Services = {s1}
    Addrs = {a}
    Callbacks = {c1}
    Nil = Nil
    Debounced = TRUE
    WaitExceedsDebounce = TRUE
    MayStop = TRUE
    MaxLog = 1
    MaxKV = 1
SPECIFICATION Spec
CHECK_DEADLOCK FALSE
INVARIANT NoSendOnClosed
