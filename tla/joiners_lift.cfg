SPECIFICATION FairSpec
CONSTANTS
    Users = {u1}
    Workers = {w1}
    MaxUpdates = 2
    MaxAttempts = 1
    MaxFaults = 1
    Hazards = {}
    u1 = u1
    w1 = w1
INVARIANTS
    ExemptIsNotBanned
PROPERTIES
    LiftCompletes
    PendingIsHandled
