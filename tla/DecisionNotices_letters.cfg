SPECIFICATION FairDSpec
CONSTANTS
    Workers = {"w1", "w2"}
    Couriers = {"c1", "c2"}
    NoWorker = NoWorker
    MaxAttempts = 2
    MaxTries = 2
    Surveys = {"signup"}
    Generic = {"form"}
    OldSignups = {"form"}
    Mailboxes = {"box"}
    Malformed = "malformed"
    Absent = "absent"
    NoRow = NoRow
    MaxVersion = 2
    MaxRetries = 1
    MaxFaults = 1
    MaxSlips = 2
CONSTRAINT MCScenario
INVARIANTS
    EvidenceAgrees
PROPERTIES
    
    FlagIsAnnounced
    LetterSettles
