SPECIFICATION Spec
CONSTANTS
    w1 = w1
    w2 = w2
    Workers = {w1, w2}
    NoWorker = NoWorker
    MaxAttempts = 2
    Surveys = {"signup"}
    Generic = {"form"}
    OldSignups = {"form"}
    Mailboxes = {"box"}
    Malformed = "malformed"
    Absent = "absent"
    NoRow = NoRow
    MaxVersion = 3
    MaxRetries = 1
    MaxFaults = 1
SYMMETRY MCSymmetry
CONSTRAINT MCScenario
INVARIANTS
    TypeOK
    PendingAppealIsInForce
    DecisionHolds
PROPERTIES
    AttemptClosedByDispatcher
