CONSTANTS
    Tag = {1, 2}
    Source = {"s"}
    SourceOf <- OneSource
    Variant = {"plain"}
    VariantOf <- OneVariant
    Grace = 1
    OlderThan = 0
    Absent = Absent
    NoBase = NoBase
    Unknown = Unknown
    Foreign = Foreign
    Imports = 1
    Policies <- Dropping
    FirstPolicy <- All
    Sbom = FALSE
    Signing = FALSE
    ForeignStamp = FALSE
    MaxClock = 2
    MaxMoves = 0
    MaxEdits = 1
    MaxFailures = 1
    MaxCrashes = 1
    MinIdle = 1
    MaxUses = 1
SPECIFICATION FairPurgeSpec
PROPERTY UsageGated
PROPERTY NoMarkStranded
PROPERTY Reaps
