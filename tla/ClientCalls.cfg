\* two callers, OTel and one more middleware on every chain
CONSTANTS
    MaxChain = 2
    Callers = {p1, p2}
    Topics = {t1, t2}
    Stoppers = {s1}
    MayRun = TRUE
    UseWhileServing = FALSE
    AppKinds = {"subscribe"}
    DisabledSets = {{}, {"callback"}, {"subscribe"}}
    None = None
    MaxCalls = 2
SPECIFICATION Spec
SYMMETRY Symmetry
CHECK_DEADLOCK FALSE
INVARIANTS
    FirstEncoderDecides
    PassesAllMiddlewares
    FailuresWithinAttempts
    MetricsBalance
    InstrumentedOnce
    KeepsQoS
