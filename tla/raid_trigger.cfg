SPECIFICATION FairSpec
CONSTANTS
    Handlers = {h1, h2}
    Dests = {"staff", "log"}
    MaxRows = 2
    MaxFaults = 1
    MaxChanges = 1
    Hazards = {}
    h1 = h1
    h2 = h2
INVARIANTS
    TypeOK
    NoticeOncePerLockdown
    WarnOnceADay
PROPERTIES
    QuietAfterLift
    RaidIsAnswered
    StaffHearsOfRaid
