SPECIFICATION Spec
CONSTANTS
    None = None  Empty = Empty
    p1 = p1  p2 = p2
    h1 = h1  h2 = h2
    s1 = s1  s2 = s2
    key = key  auth = auth  other = other
    t1 = t1  t2 = t2
    Programs = {p1}
    Hashes = {h1, h2}
    Signers = {key, auth, other}
    Sources = {s1, s2}
    SIGNER_KEYS <- MCKeys
    Artifact <- MCArtifact
    MaxBuilds = 1
    Faults = {"parse"}
    ChainActs = {"upgrade", "close", "transfer", "freeze", "touch"}
    MaxChainSteps = 2
    InitialChains <- MCOpenOrLegacy
    InitialPda <- MCPdaOther
    Tasks = {t1}
    MaxCalls = 2
    CallKinds = {"verify", "pda"}
    MaxCrashes = 0
    MaxReverifies = 1
    ChunkSize = 2
INVARIANTS
    Provenance
    VerifiedIsSound
    NeverFalselyClosed
CHECK_DEADLOCK FALSE
