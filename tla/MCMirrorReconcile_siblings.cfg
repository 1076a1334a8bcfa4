CONSTANTS
    Tag = {1, 2, 3}
    Source = {"s"}
    SourceOf <- OneSource
    Variant = {"plain"}
    VariantOf <- OneVariant
    Grace = 1
    OlderThan = 0
    Absent = Absent
    NoBase = NoBase
    Unknown = Unknown
    Foreign = Foreign
    Imports = 2
    Policies <- SiblingPolicies
    FirstPolicy <- Siblings
    Sbom = FALSE
    Signing = FALSE
    ForeignStamp = FALSE
    MaxClock = 1
    MaxMoves = 0
    MaxEdits = 0
    MaxFailures = 0
    MaxCrashes = 0
SPECIFICATION Spec
INVARIANT CleanRunPlaces
