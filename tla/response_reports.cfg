SPECIFICATION RunFairSpec
CONSTANTS
    Users = {u1}
    Workers = {}
    Responders = {r1, r2}
    MaxUpdates = 0
    MaxAttempts = 2
    MaxFaults = 2
    Hazards = {}
    RunHazards = {}
    u1 = u1
    r1 = r1
    r2 = r2
INVARIANTS
    DoneMeansHandled
PROPERTIES
    RunIsReported
