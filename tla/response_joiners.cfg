SPECIFICATION RunSpec
CONSTANTS
    Users = {u1}
    Workers = {w1}
    Responders = {r1}
    MaxUpdates = 1
    MaxAttempts = 1
    MaxFaults = 1
    Hazards = {}
    RunHazards = {}
    u1 = u1
    w1 = w1
    r1 = r1
INVARIANTS
    LiftLeavesNoBan
    LiftWaitsForRun
PROPERTIES
    DeliberateBanStays
    LetInIsNotBanned
