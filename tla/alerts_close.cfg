SPECIFICATION FairSpec
CONSTANTS
    Workers = {w1}
    Admins = {a1}
    Dests = {"log"}
    MaxSeq = 1
    MaxAttempts = 2
    MaxFaults = 2
    Hazards = {}
    w1 = w1
    a1 = a1
CHECK_DEADLOCK FALSE
INVARIANTS
    ClosedReadsLifted
PROPERTIES
    AlertsClosed
    MarksAreWorkedOff
