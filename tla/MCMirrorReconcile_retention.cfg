CONSTANTS
    Tag = {1, 2, 3}
    Source = {"s"}
    SourceOf <- OneSource
    Variant = {"plain"}
    VariantOf <- OneVariant
    Grace = 1
    OlderThan = 1
    Absent = Absent
    NoBase = NoBase
    Unknown = Unknown
    Foreign = Foreign
    Imports = 1
    Policies <- Archive
    FirstPolicy <- ArchiveFirst
    Sbom = FALSE
    Signing = FALSE
    ForeignStamp = FALSE
    MaxClock = 4
    MaxMoves = 1
    MaxEdits = 2
    MaxFailures = 1
    MaxCrashes = 1
SPECIFICATION Spec
INVARIANT RetentionSpares
PROPERTY RetentionMarksJudged
