SPECIFICATION Spec
CONSTANTS
    Users = {u1, u2, u3}
    Items = {i1, i2, i3}
    Skews = {0, 1}
    JoinWindow = 2
    RecentWindow = 3
    FloodWindow = 2
    JoinTTL = 4
    FloodTTL = 3
    JoinCap = 2
    FloodCap = 2
    FloodThreshold = 2
    FloodMinAccounts = 2
    MaxClock = 4
    u1 = u1
    u2 = u2
    u3 = u3
    i1 = i1
    i2 = i2
    i3 = i3
SYMMETRY Symmetry
CHECK_DEADLOCK FALSE
INVARIANTS
    JoinsAreCounted
    FloodFiresAsRuled
