SPECIFICATION FairSpec
CONSTANTS
    w1 = w1
    w2 = w2
    Workers = {w1}
    NoWorker = NoWorker
    MaxAttempts = 2
    Security = {"alert"}
    Optional = {"notice"}
    NoRow = NoRow
    Writers = {"transport", "resend", "preferences", "recovery"}
    MaxFaults = 1
INVARIANTS
    SentMeansAccepted
PROPERTIES
    EveryRowSettles
