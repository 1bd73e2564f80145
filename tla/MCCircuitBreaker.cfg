SPECIFICATION BreakerSpec
CONSTANTS
    Services <- MCServices
    Threads <- MCThreads
    Operators <- MCOperators
    Service <- MCService
    Interval = 2
    MaxCall = 1
INVARIANTS
    FalseAnswerIsRecent
    TrueAnswerIsRecent
