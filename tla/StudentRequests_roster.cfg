SPECIFICATION Spec
CONSTANTS
    q1 = q1  q2 = q2
    m1 = m1  m2 = m2
    w1 = w1  w2 = w2
    Nobody = Nobody
    Requests = {q1, q2}
    Mailboxes = {m1, m2}
    Senders = {w1}
    MaxPairings = 2
    MaxLinks = 1
    MaxTools = 1
    MaxTransfers = 0
SYMMETRY MCSymmetry
CONSTRAINT MCScenario
CHECK_DEADLOCK FALSE
INVARIANTS
    ClosedMeansOffRoster
