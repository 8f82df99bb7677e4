CONSTANTS
    c1 = c1
    c2 = c2
    w1 = w1
    k1 = k1
    k2 = k2
    NoKey = NoKey
    Anonymous = Anonymous
    HttpClients = {c1}
    Sockets = {w1}
    Keys = {k1, k2, Anonymous}
    ApiKeys = {k1}
    AuthEnabled = TRUE
    BlockOnInjection = TRUE
    MaxRefused = 1
    Gated = FALSE
    One = 2
    Rate = 1
    Burst = 2
    TicksPerSecond = 2
    FailureThreshold = 1
SPECIFICATION FairSpec
INVARIANTS TypeOK RateBound RetryAfterSuffices AnsweredIsLogged
PROPERTIES EveryMessageAnswered ReadyAgain
