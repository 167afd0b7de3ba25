SPECIFICATION Spec
CONSTANTS
    w1 = w1
    w2 = w2
    Workers = {w1}
    NoWorker = NoWorker
    MaxAttempts = 2
    Security = {}
    Optional = {"notice"}
    NoRow = NoRow
    Writers = {"preferences", "resend"}
    MaxFaults = 0
PROPERTIES
    OptOutDropsOldCopies
