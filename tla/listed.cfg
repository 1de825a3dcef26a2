SPECIFICATION Spec
CONSTANTS
    None = None
    Empty = Empty
    System = system
    system = system
    h1 = h1
    h2 = h2
    key = key
    auth = auth
    other = other
    Programs = {1}
    Hashes = {h1, h2}
    Signers = {key, auth, other}
    Sources = {}
    SIGNER_KEYS <- MCKeys
    Artifact <- MCArtifact
    MaxBuilds = 1
    PER_PAGE = 2
    CutoverTime = 0
    MaxTime = 3
    V1Databases <- MCFresh
    MaxRestarts = 0
    SnapshotsRead <- MCSnapshots
CHECK_DEADLOCK FALSE
INVARIANTS
    ListedIsVerified
