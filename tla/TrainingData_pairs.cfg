CONSTANTS
    e1 = e1
    e2 = e2
    e3 = e3
    e4 = e4
    s1 = s1
    s2 = s2
    None = None
    Exchanges = {e1, e2, e3}
    Sessions = {s1, s2}
    MaxTools = 1
    MinPairs = 1
    RatioNum = 1
    RatioDen = 5
    Golden = 6
SPECIFICATION Spec
SYMMETRY Symmetry
INVARIANTS TypeOK PairsAreExact SaidOnceTrainedOnce RejectedIsNotTrained ApprovedIsTrained
