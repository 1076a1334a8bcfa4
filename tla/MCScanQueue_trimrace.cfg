CONSTANTS
    Ref = {r1, r2}
    NoRef = NoRef
    MaxAdds = 3
    SameMs = FALSE
    Workers = {w1, w2}
    Reapers = {}
    Enqueuers = {q}
    Operators = {}
    MaxDeliveries = 1
    ClaimCount = 1
    Signing = FALSE
    MaxCrashes = 0
    MaxOperations = 0
SPECIFICATION Spec
SYMMETRY Symmetry
PROPERTY TrimKeepsNeeded
CHECK_DEADLOCK FALSE
