SPECIFICATION FairSpec
CONSTANTS
    None = None  Empty = Empty
    p1 = p1  p2 = p2
    h1 = h1  h2 = h2
    s1 = s1  s2 = s2
    key = key  auth = auth  other = other
    t1 = t1  t2 = t2
    Programs = {p1}
    Hashes = {h1, h2}
    Signers = {key, auth}
    Sources = {s1, s2}
    SIGNER_KEYS <- MCKeys
    Artifact <- MCArtifact
    MaxBuilds = 3
    Faults = {}
    ChainActs = {"upgrade", "publish"}
    MaxChainSteps = 2
    InitialChains <- MCOpen
    InitialPda <- MCPda1
    Tasks = {t1}
    MaxCalls = 1
    CallKinds = {"verify", "pda"}
    MaxCrashes = 1
    MaxReverifies = 1
    ChunkSize = 2
INVARIANTS
    ClearsWithBuild
PROPERTIES
    DriftRebuilt
    FlagsDrain
    PdaEventBuilds
CHECK_DEADLOCK FALSE
