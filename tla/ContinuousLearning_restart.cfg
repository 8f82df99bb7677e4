CONSTANTS
    m1 = m1
    m2 = m2
    m3 = m3
    k1 = k1
    k2 = k2
    Msgs = {m1, m2, m3}
    Threshold = 2
    SeedRaces = FALSE
    Cycles = {k1}
    Crashes = TRUE
    DbFaults = FALSE
SPECIFICATION Spec
INVARIANTS ThresholdFires
