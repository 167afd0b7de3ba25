SPECIFICATION FairSpec
CONSTANTS
    u1 = u1
    u2 = u2
    i1 = i1
    i2 = i2
    Users = {u1, u2}
    Instances = {i1, i2}
    Last = 2
    Zones = {"Shanghai", "UTC"}
    FirstZone = "Shanghai"
    FirstHead = u1
    MaxAttempts = 2
    MaxTime = 2
    MaxVersion = 2
    MaxChanges = 2
    MaxFaults = 2
    NoRow = NoRow
INVARIANTS
    TypeOK
    NoticedOnce
    ChargedForOwnFailures
PROPERTIES
    OneShot
    DueSettles
CHECK_DEADLOCK FALSE
