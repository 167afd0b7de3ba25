SPECIFICATION FairSpec
CONSTANTS
    pair1 = pair1
    pair2 = pair2
    lea = lea
    ann = ann
    ben = ben
    cat = cat
    room = room
    Persons = {lea, ann, ben, cat}
    Pairings = {pair1, pair2}
    TutorOf <- MCTutorOf
    RosterOf <- MCRosterOf
    JoinersOf <- MCJoinersOf
    SlotOf <- MCSlotOf
    RoomOf <- MCRoomOf
    Rooms = {room}
    Online = Online
    Wishes <- MCWishes
    Last = 3
    Response = 1
    MaxCohorts = 3
    MaxRequests = 3
    MaxOffers = 4
    MaxEdits = 1
    MaxHints = 1
    MaxFaults = 1
CONSTRAINT MCScenario
CHECK_DEADLOCK FALSE
INVARIANTS
    TypeOK
    NoDoubleBooking
    HoldsKept
    WeeklyKept
    NoticeOfThisOffer
PROPERTIES
    SeatsMoveByAgreement
    EvidenceStands
    EveryRequestCloses
