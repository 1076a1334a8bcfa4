CONSTANTS
    Ref = {r1, r2}
    NoRef = NoRef
    MaxAdds = 3
    SameMs = FALSE
    Workers = {w1}
    Reapers = {}
    Enqueuers = {q}
    Operators = {o}
    MaxDeliveries = 1
    ClaimCount = 1
    Signing = TRUE
    MaxCrashes = 1
    MaxOperations = 2
SPECIFICATION Spec
SYMMETRY Symmetry
PROPERTIES TrimKeepsNeeded DeadLetterOutlivesReplay ImplementsQueue
CHECK_DEADLOCK FALSE
