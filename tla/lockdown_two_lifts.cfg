SPECIFICATION Spec
CONSTANTS
    Starters = {s1}
    Lifters = {l1, l2}
    Workers = {w1}
    MaxRows = 2
    MaxFaults = 0
    Overlap = TRUE
    s1 = s1
    l1 = l1
    l2 = l2
    w1 = w1
SYMMETRY Symmetry
PROPERTIES
    LiftHitsOnlyItsOwn
