\* ticks of 100 ms, maxInterval = 500 ms: the intervals are 1, 2, 4, 5, 5, ...
SPECIFICATION BGSpec
CONSTANTS
    InitialInterval = 1
    maxInterval = 5
    MaxCount = 5
    MaxGap = 6
    waitFor = 3
    pollEvery = 1
INVARIANTS
    TypeOK
    AtMostOneStart
    StartedOnce
PROPERTIES
    RetriesArePaced
    KeepsTrying
    CancelEnds
    WaitReturns
    PollEnds
