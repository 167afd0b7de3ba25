SPECIFICATION Spec
CONSTANTS
    u1 = u1
    u2 = u2
    u3 = u3
    d1 = d1
    d2 = d2
    p1 = p1
    p2 = p2
    r1 = r1
    r2 = r2
    Users = {u1, u2}
    Requests = {r1, r2}
    Decisions = {d1, d2}
    Submissions = {p1, p2}
    Ordinary = {"room"}
    Identity = {}
    Attendance = {"time_slot"}
    Official = {"refresh"}
    Nobody = Nobody
    MaxChanges = 1
    MaxRoleChanges = 1
SYMMETRY MCSymmetry
CONSTRAINT MCScenario
INVARIANTS
    TypeOK
    AppliedOnce
    OnePendingPerProposal
PROPERTIES
    ActorsStillEntitled
    KeepsContract
CHECK_DEADLOCK FALSE
