CONSTANTS
    t1 = t1
    t2 = t2
    t3 = t3
    t4 = t4
    Tasks = {t1, t2}
    Cancellable = {t1}
    BadRequests = {}
    MaxConcurrent = 2
    Retries = 1
    FailureThreshold = 1
SPECIFICATION FairSpec
PROPERTIES Recovers
