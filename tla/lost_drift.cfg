SPECIFICATION Spec
CONSTANTS
    None = None  Empty = Empty
    p1 = p1  p2 = p2
    h1 = h1  h2 = h2
    s1 = s1  s2 = s2
    key = key  auth = auth  other = other
    t1 = t1  t2 = t2
    Programs = {p1}
    Hashes = {h1, h2}
    Signers = {key, auth}
    Sources = {s1}
    SIGNER_KEYS <- MCKeys
    Artifact <- MCArtifact1
    MaxBuilds = 1
    Faults = {}
    ChainActs = {"upgrade"}
    MaxChainSteps = 2
    InitialChains <- MCOpen
    InitialPda <- MCPda1
    Tasks = {t1}
    MaxCalls = 3
    CallKinds = {"verify", "unverify"}
    MaxCrashes = 0
    MaxReverifies = 1
    ChunkSize = 2
PROPERTIES
    ClearsOnlyExaminedDrift
CHECK_DEADLOCK FALSE
