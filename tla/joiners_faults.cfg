SPECIFICATION Spec
CONSTANTS
    Users = {u1}
    Workers = {w1, w2}
    MaxUpdates = 2
    MaxAttempts = 2
    MaxFaults = 1
    Hazards = {"lost outcome"}
    u1 = u1
    w1 = w1
    w2 = w2
SYMMETRY Symmetry
INVARIANTS
    TypeOK
    ClaimsAreExclusive
    BanIsRecorded
PROPERTIES
    NoBanAfterLift
