CONSTANTS
    Unset = Unset
    m1 = m1
    m2 = m2
    t1 = t1
    t2 = t2
    Manifests = {m1, m2}
    Tags = {t1, t2}
    FirstTags <- Apart
    Tools = {"grype", "trivy"}
    Reports <- Produce
    Digests = {1, 2, 3}
    Attachers = {a1}
    Collectors = {g1, g2}
    AttachRefs = {m1}
    Keep = 1
    OlderThan = 0
    MaxTime = 1
    MaxMoves = 1
    MaxFaults = 1
SPECIFICATION Spec
INVARIANTS TypeOK
PROPERTIES NewestKept Collects
CHECK_DEADLOCK FALSE
