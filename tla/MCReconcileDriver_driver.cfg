CONSTANTS
    Unset = Unset
    Roster <- Registries
    GlobalMode = "purge"
    Resources = {"ca"}
    Names <- Policies3
    PolicySets <- Sets
    FirstSet = "ok"
    Sound = {"ok", "plain", "bare"}
    SourceTags <- Upstreams
    FirstTags <- Upstream0
    ShardCount = 2
    ShardOf <- Assigned
    Parallelism = 2
    EditsMidJob = FALSE
    MaxEdits = 1
    MaxMoves = 1
    MaxFaults = 1
SPECIFICATION FairSpec
INVARIANTS OneWriter FailFast ExitTruthful ReportComplete
PROPERTIES NoOp Reconciles
