SPECIFICATION Spec
CONSTANTS
    q1 = q1  q2 = q2
    m1 = m1  m2 = m2
    w1 = w1  w2 = w2
    Nobody = Nobody
    Requests = {q1, q2}
    Mailboxes = {m1, m2}
    Senders = {w1, w2}
    MaxPairings = 3
    MaxLinks = 3
    MaxTools = 1
    MaxTransfers = 1
SYMMETRY MCSymmetry
CONSTRAINT MCScenario
CHECK_DEADLOCK FALSE
INVARIANTS
    TypeOK
    WorkflowClearsRoster
    OneSeat
    ExpiryNeverBlocked
PROPERTIES
    OthersKept
    NewerLinkStands
