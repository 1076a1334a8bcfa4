CONSTANTS
    Unset = Unset
    m1 = m1
    m2 = m2
    t1 = t1
    t2 = t2
    Manifests = {m1, m2}
    Stamped = {m1}
    HasSbom = {m1, m2}
    Tags = {t1, t2}
    FirstTags <- Both
    Tools = {"grype"}
    Reports <- Produce
    Digests = {1, 2}
    Attachers = {a1}
    Collectors = {}
    Verifiers = {v1}
    Auditors = {u1}
    AttachRefs = {m1, m2}
    VerifyRefs = {m1, t1}
    Require = {"stamp", "scan-pass"}
    MaxSeverity = "high"
    MaxAge = 1
    Keep = 1
    OlderThan = 0
    MaxTime = 2
    MaxMoves = 1
    MaxFaults = 1
SPECIFICATION GateSpec
INVARIANTS VerifyHonest AuditClean
CHECK_DEADLOCK FALSE
