CONSTANTS
    Name <- Names
    Lower <- Lowered
    Git = ".git"
    MarkerDirs = {"skills"}
    MarkerFiles = {"SKILL.md"}
    Backslashed = {}
    MaxBytes = 3
    Repos <- TwoRepos
    PolicyOf <- Owner
    Path <- Paths
    Qualified = {}
    Rev = {"plain", "wrapped", "linked", "folded"}
    TreeOf <- Trees
    RevsOf <- Upstream
    TagObject = TagObject
    Absent = Absent
    ByHand = ByHand
    Taken = {"a2"}
    MaxMoves = 2
    MaxFaults = 1
SPECIFICATION FairSpec
INVARIANTS TypeOK RevisionTagsTruthful PlacedWhole AliasNotAhead PlacedIsReported
PROPERTIES RevisionTagImmutable FollowsUpstream
