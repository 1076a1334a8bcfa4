CONSTANTS
    Tag = {1, 2, 3}
    Source = {"s1", "s2"}
    SourceOf <- TwoSources
    Variant = {"plain", "hard"}
    VariantOf <- TwoVariants
    Grace = 1
    OlderThan = 0
    Absent = Absent
    NoBase = NoBase
    Unknown = Unknown
    Foreign = Foreign
    Imports = 1
    Policies <- Hardened
    FirstPolicy <- Both
    Sbom = TRUE
    Signing = FALSE
    ForeignStamp = TRUE
    MaxClock = 2
    MaxMoves = 1
    MaxEdits = 2
    MaxFailures = 1
    MaxCrashes = 1
SPECIFICATION FairSpec
INVARIANT TypeOK
INVARIANT StampTruthful
INVARIANT CleanRunPlaces
INVARIANT CleanRunStamps
INVARIANT CleanRunCovers
INVARIANT CleanRunRetires
INVARIANT Idempotent
PROPERTY Converges
