\* one caller, a shared topic, one connection that may be lost, lost answers
SPECIFICATION FairSpec
CONSTANTS
    Shared = {s}
    Normal = {}
    Conns = {c1}
    Lossy = {c1}
    Callers = {p1}
    None = None
    MaxCalls = 2
    Failures = "lost"
INVARIANT SkippedIsHeld
PROPERTY CallsReturn
