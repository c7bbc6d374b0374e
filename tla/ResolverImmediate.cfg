CONSTANTS
    Services = {s1}
    Addrs = {a}
    Callbacks = {}
    Nil = Nil
    Debounced = FALSE
    WaitExceedsDebounce = TRUE
    MayStop = TRUE
    MaxLog = 2
    MaxKV = 2
SPECIFICATION FairSpec
CHECK_DEADLOCK FALSE
INVARIANTS
    NoSendOnClosed
PROPERTIES
    StopTerminates
    ConsumerFollows
