\* two callers, a topic of each kind, failed requests, updates
SPECIFICATION Spec
CONSTANTS
    Shared = {s}
    Normal = {n}
    Conns = {c1, c2}
    Lossy = {}
    Callers = {p1, p2}
    None = None
    MaxCalls = 2
    Failures = "clean"
SYMMETRY Symmetry
INVARIANTS
    SubscribeReaches
    UnsubscribeReaches
    ResumedIsHeld
