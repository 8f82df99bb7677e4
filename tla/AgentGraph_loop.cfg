CONSTANTS
    c1 = c1
    c2 = c2
    Calls = {c1, c2}
    MaxCalls = 2
    MaxSteps = 4
    MaxRetries = 2
SPECIFICATION Spec
INVARIANTS EndsOnAnswer CallsAnswered RequestIsWellFormed
