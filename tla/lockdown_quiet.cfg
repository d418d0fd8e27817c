SPECIFICATION FairSpec
CONSTANTS
    Starters = {s1, s2}
    Lifters = {l1, l2}
    Workers = {w1}
    MaxRows = 2
    MaxFaults = 2
    Overlap = FALSE
    s1 = s1
    s2 = s2
    l1 = l1
    l2 = l2
    w1 = w1
INVARIANTS
    TypeOK
    EndedMeansUnlocked
    PreIsRestorable
PROPERTIES
    LiftOnlyUnlocked
    LifecycleSpec
    UnconfirmedSettles
