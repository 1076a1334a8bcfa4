CONSTANTS
    Ref = {r1}
    NoRef = NoRef
    MaxAdds = 2
    SameMs = TRUE
    Workers = {w1}
    Reapers = {p}
    Enqueuers = {q}
    Operators = {}
    MaxDeliveries = 1
    ClaimCount = 1
    Signing = TRUE
    MaxCrashes = 1
    MaxOperations = 0
SPECIFICATION FairSpec
INVARIANTS TypeOK Accounted ConfirmedIsAttached StaleTrimScope
PROPERTIES WorkDrains ImplementsQueue
