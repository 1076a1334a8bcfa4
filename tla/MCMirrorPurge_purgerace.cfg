CONSTANTS
    Tag = {1, 2}
    Source = {"s"}
    SourceOf <- OneSource
    Variant = {"plain"}
    VariantOf <- OneVariant
    Grace = 1
    OlderThan = 0
    Absent = Absent
    NoBase = NoBase
    Unknown = Unknown
    Foreign = Foreign
    Imports = 1
    Policies <- Dropping
    FirstPolicy <- All
    Sbom = FALSE
    Signing = FALSE
    ForeignStamp = FALSE
    MaxClock = 3
    MaxMoves = 1
    MaxEdits = 2
    MaxFailures = 0
    MaxCrashes = 0
    MinIdle = 1
    MaxUses = 1
SPECIFICATION PurgeSpec
PROPERTY InUseKept
