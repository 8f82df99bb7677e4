CONSTANTS
    l1 = l1
    l2 = l2
    q1 = q1
    a = a
    b = b
    c = c
    d = d
    e = e
    base = base
    Learners = {l1, l2}
    Chats = {q1}
    Names = {a, b, c, d, e}
    NoLora = base
    MaxLoras = 3
    Cases = 2
    Tolerance = 1
    LostAnswers = TRUE
SPECIFICATION Spec
SYMMETRY Symmetry
INVARIANTS TypeOK StallsOnlyIfLeaked OnlyGatedIsServed InUseIsLoaded ChatSurvivesSwap
PROPERTIES DeploymentIsGated
