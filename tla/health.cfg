SPECIFICATION FairSpec
CONSTANTS
    p1 = p1
    p2 = p2
    p3 = p3
    Programs <- MCPrograms
    Intervals <- MCIntervals
    Caps <- MCCaps
INVARIANTS
    TypeOK
    InactiveOnlyAfterFailure
PROPERTIES
    StartsSpaced
    ActiveNeedsCycles
    Recovers
    BurstDrains
