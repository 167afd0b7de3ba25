SPECIFICATION Spec
CONSTANTS
    w1 = w1
    w2 = w2
    Workers = {w1, w2}
    NoWorker = NoWorker
    MaxAttempts = 2
    Security = {}
    Optional = {"notice"}
    NoRow = NoRow
    Writers = {"preferences", "settings", "transport", "resend", "recovery", "identity"}
    MaxFaults = 2
SYMMETRY MCSymmetry
INVARIANTS
    TypeOK
    HandedAtMostOnce
    AcceptanceCanBeRecorded
PROPERTIES
    AdmittedOnlyIfWelcome
    AttemptEvidenceKept
    KeepsPromise
