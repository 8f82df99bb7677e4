CONSTANTS
    t1 = t1
    t2 = t2
    t3 = t3
    t4 = t4
    Tasks = {t1, t2, t3}
    Cancellable = {t1, t2}
    BadRequests = {t3}
    MaxConcurrent = 2
    Retries = 2
    FailureThreshold = 2
SPECIFICATION FairSpec
INVARIANTS TypeOK SlotAccounting NoLostWakeup BreakerCoherent
PROPERTIES FailFast FirstComeFirstServed ProbeLostOnlyByCancel PostReturns RecoversUnlessCut
