SPECIFICATION Spec
CONSTANTS
    None = None
    Empty = Empty
    System = system
    system = system
    h1 = h1
    h2 = h2
    key = key
    auth = auth
    other = other
    Programs = {1, 2, 3}
    Hashes = {h1, h2}
    Signers = {key, auth, other}
    Sources = {}
    SIGNER_KEYS <- MCKeys
    Artifact <- MCArtifact
    MaxBuilds = 3
    PER_PAGE = 2
    CutoverTime = 2
    MaxTime = 4
    V1Databases <- MCV1
    MaxRestarts = 1
    SnapshotsRead <- MCSnapshots
CHECK_DEADLOCK FALSE
INVARIANTS
    TypeOK
    ViewsAgree
    VerdictsMoved
    NoOrphan
    WalkMissesNone
