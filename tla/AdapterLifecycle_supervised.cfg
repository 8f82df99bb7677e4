CONSTANTS
    o1 = o1
    o2 = o2
    sup = sup
    a = a
    b = b
    c = c
    d = d
    e = e
    base = base
    Ops = {o1}
    Sup = sup
    Names = {a, b}
    NoLora = base
    MaxLoras = 1
    MaxRestarts = 2
    SlowBoot = FALSE
    LostAnswers = TRUE
SPECIFICATION FairSpec
INVARIANTS TypeOK RegistryCoherent StopIsFinal
PROPERTIES DeadIsLoud ReappliedAfterCrash
