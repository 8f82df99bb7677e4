CONSTANTS
    m1 = m1
    m2 = m2
    m3 = m3
    k1 = k1
    k2 = k2
    Msgs = {m1, m2}
    Threshold = 2
    SeedRaces = TRUE
    Cycles = {k1, k2}
    Crashes = TRUE
    DbFaults = TRUE
SPECIFICATION FairSpec
INVARIANTS TypeOK RetrainedOnlyIfTorn SkippedOnlyIfOvertaken MissedOnlyBySeeding
PROPERTIES WatermarkAdvances CycleEnds
