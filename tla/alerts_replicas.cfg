SPECIFICATION Spec
CONSTANTS
    Workers = {w1, w2}
    Admins = {a1}
    Dests = {"staff"}
    MaxSeq = 2
    MaxAttempts = 1
    MaxFaults = 1
    Hazards = {}
    w1 = w1
    w2 = w2
    a1 = a1
SYMMETRY Symmetry
CHECK_DEADLOCK FALSE
INVARIANTS
    TypeOK
    DuplicateOnlyByFault
    NoEditIsLost
    NewestKeepsButtons
