SPECIFICATION FairSpec
CONSTANTS
    r1 = r1  r2 = r2
    w1 = w1  w2 = w2
    Readers = {r1, r2}
    Writers = {w1, w2}
    MaxWrites = 3
    TTL = 2
    Faults = {"db", "cancel", "crash"}
INVARIANTS
    TypeOK
    NeverGoesBack
PROPERTIES
    Heals
