SPECIFICATION Spec
CONSTANTS
    Starters = {s1}
    Lifters = {l1}
    Workers = {w1}
    MaxRows = 1
    MaxFaults = 0
    Overlap = TRUE
    s1 = s1
    l1 = l1
    w1 = w1
INVARIANTS
    EndedMeansUnlocked
