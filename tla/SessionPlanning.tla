--------------------------- MODULE SessionPlanning ---------------------------
(***************************************************************************)
(* Dated lessons and the negotiation that moves them.  Weekly pairings are *)
(* published as dated plans; a tutor proposes another window or an extra   *)
(* lesson, everybody concerned answers one offer, silence counts as assent *)
(* only a full response window after the provider took the offer's notice, *)
(* and a group that cannot agree is split into requests of its own.        *)
(* Every write holds the planning locks for its whole transaction, so a    *)
(* transaction is one step; a sweep is one transaction per request under   *)
(* the one clock reading it started with.  A window is one unit of time:   *)
(* two windows coincide or are disjoint.                                   *)
(***************************************************************************)
EXTENDS Integers, FiniteSets, FiniteSetsExt

CONSTANTS Persons,       \* accounts: a tutor of one pairing may learn in another
          Pairings,      \* weekly pairings
          TutorOf,       \* the tutor of a pairing
          RosterOf,      \* its learners
          JoinersOf,     \* learners a continuation assignment may add
          SlotOf, RoomOf,    \* its window and room
          Rooms, Online, \* Online is the room of a lesson without one
          Wishes,        \* <<window, room>> that people ask for
          Last,          \* bound: the last instant
          Response,      \* RESPONSE_WINDOW_MS
          MaxCohorts, MaxRequests, MaxOffers,    \* bounds
          MaxEdits,      \* bound: edits of a pairing by staff
          MaxHints,      \* bound: unused suggestions
          MaxFaults      \* bound: sweeps that die, receipts that are lost

Cohorts == 1 .. MaxCohorts
Requests == 1 .. MaxRequests
Learners == UNION {RosterOf[p] \cup JoinersOf[p] : p \in Pairings}
Plans == Pairings \cup Requests    \* an extra plan is known by its root request
None == 0
Never == -1
Gone == -1
Instants == 0 .. Last

ASSUME BoundsAssumption ==
    /\ {Last, Response, MaxCohorts, MaxRequests, MaxOffers} \subseteq Nat \ {0}
    /\ {MaxEdits, MaxHints, MaxFaults} \subseteq Nat
ASSUME PairingsAssumption ==
    /\ TutorOf \in [Pairings -> Persons] /\ SlotOf \in [Pairings -> Instants]
    /\ RosterOf \in [Pairings -> SUBSET Persons] /\ JoinersOf \in [Pairings -> SUBSET Persons]
    /\ RoomOf \in [Pairings -> Rooms \cup {Online}] /\ Online \notin Rooms
    /\ Wishes \subseteq Instants \X (Rooms \cup {Online})
    /\ IsFiniteSet(Persons) /\ Pairings \cap (None .. MaxRequests) = {}
    \* the ordinary weekly checks of scheduling keep confirmed pairings apart
    /\ \A p, q \in Pairings : p # q /\ SlotOf[p] = SlotOf[q] =>
          /\ TutorOf[p] # TutorOf[q]
          /\ RoomOf[p] # RoomOf[q] \/ RoomOf[p] = Online
          /\ ({TutorOf[p]} \cup RosterOf[p]) \cap ({TutorOf[q]} \cup RosterOf[q]) = {}

VARIABLES
    clock,
    weekly,      \* Pairing: not confirmed, confirmed, or published as a plan
    current,     \* sourceIsCurrent: the plan's assignments are still the pairing's
    cohort,      \* SessionPlanCohort
    seat,        \* SessionPlanParticipant: the cohort of a learner in a plan
    request,     \* SessionPlanningRequest with its current offer and responses
    hint,        \* SessionPlanningSuggestion, unused and of a current cohort version
    post,        \* notices of offers that the provider took and nobody recorded yet
    sweep,       \* the running sweep: its clock reading and its requests to visit
    edits, faults

db == <<cohort, seat, request>>
vars == <<clock, weekly, current, cohort, seat, request, hint, post, sweep, edits, faults>>

-----------------------------------------------------------------------------
(* The rows.                                                               *)

Open == {"PENDING", "SPLIT_REQUESTED"}
Closed == {"ACCEPTED", "CANCELLED", "EXPIRED", "STALE", "SPLIT"}

NoAnswer == [state |-> "PENDING", by |-> "NOBODY", sent |-> Never, due |-> Never]

Answers ==
    [state : {"PENDING", "ACCEPTED", "REJECTED"},
     by : {"NOBODY", "AUTHOR", "MATCHED", "EXPLICIT", "TIMEOUT"},
     sent : Instants \cup {Never}, due : Instants \cup {Never}]

Responses == UNION {[P -> Answers] : P \in SUBSET Persons}

CohortRows ==
    [status : {"NONE", "SCHEDULED", "CANCELLED", "RECORDED"}, plan : Plans \cup {None},
     at : Instants, room : Rooms \cup {Online}, moved : BOOLEAN]

(* "made" is createdAt of the current offer, "n" its sequence.               *)
RequestRows ==
    [status : {"NONE"} \cup Open \cup Closed, kind : {"RESCHEDULE", "EXTRA"},
     scope : {"ONE", "ALL"}, plan : Plans \cup {None}, base : Pairings \cup {None},
     source : Cohorts \cup {None}, people : SUBSET Learners, parent : Requests \cup {None},
     stage : 1 .. 3, spent : SUBSET Persons, n : 0 .. MaxOffers, at : Instants,
     room : Rooms \cup {Online}, cutoff : Instants, made : Instants,
     answer : Responses]

NoCohort == [status |-> "NONE", plan |-> None, at |-> 0, room |-> Online, moved |-> FALSE]

NoRequest ==
    [status |-> "NONE", kind |-> "RESCHEDULE", scope |-> "ONE", plan |-> None,
     base |-> None, source |-> None, people |-> {}, parent |-> None, stage |-> 1,
     spent |-> {}, n |-> 0, at |-> 0, room |-> Online, cutoff |-> 0, made |-> 0,
     answer |-> <<>>]

(* A transaction reads the rows as "s" and writes them back with Commit.     *)
Db == [cohort |-> cohort, seat |-> seat, request |-> request]

Base(s, pl) == IF pl \in Pairings THEN pl ELSE s.request[pl].base
Tutor(s, pl) == TutorOf[Base(s, pl)]
Party(s, pl, people) == {Tutor(s, pl)} \cup people
Audience(s, q) == Party(s, q.plan, q.people)

Roster(s, c) ==
    IF s.cohort[c].status = "NONE" THEN {}
    ELSE {l \in Learners : s.seat[s.cohort[c].plan][l] = c}

Booked(s) == {c \in Cohorts : s.cohort[c].status = "SCHEDULED" /\ Roster(s, c) # {}}
(* Variant: an offer reserves nothing.                                       *)
NoHolds(s) == {}

Holds(s) == {r \in Requests : s.request[r].status = "PENDING"}
OpenRequests(s) == {r \in Requests : s.request[r].status \in Open}
Unused(rows) == {i \in DOMAIN rows : rows[i].status = "NONE"}

(* A suggestion is tied to the cohort version it was made against, and every *)
(* change of a cohort or of its roster makes a new version.                  *)
Commit(s) ==
    /\ cohort' = s.cohort /\ seat' = s.seat /\ request' = s.request
    /\ hint' = {h \in hint : /\ s.cohort[h.cohort] = cohort[h.cohort]
                             /\ Roster(s, h.cohort) = Roster(Db, h.cohort)}

-----------------------------------------------------------------------------
(* Is a window free?  "w" is a request, or a lesson in the shape of one.   *)

Clash(room1, party1, room2, party2) ==
    (room1 = room2 /\ room1 # Online) \/ party1 \cap party2 # {}

(* The plan whose lesson at the very same window and room w may join.        *)
Home(w) == IF w.kind = "EXTRA" THEN w.parent ELSE w.plan

Twins(s, w) ==
    {c \in Cohorts \ {w.source} :
        /\ s.cohort[c].status = "SCHEDULED" /\ s.cohort[c].plan = Home(w)
        /\ s.cohort[c].at = w.at /\ s.cohort[c].room = w.room}

(* Variant: one who leaves frees the window for those who stay.              *)
VacatesAlone(s, w) == w.kind # "EXTRA"

Vacates(s, w) == w.kind # "EXTRA" /\ Roster(s, w.source) \subseteq w.people

Sibling(w, h) ==
    /\ w.parent # None /\ w.parent = h.parent /\ w.kind = h.kind
    /\ w.at = h.at /\ w.room = h.room

(* Variant: a weekly time counts only once it is published.                  *)
ClearOfNothing(w, own) == TRUE

ClearOfWeekly(w, own) ==
    \A p \in Pairings \ {w.plan} :
        weekly[p] = "CONFIRMED" /\ SlotOf[p] = w.at =>
            ~Clash(w.room, own, RoomOf[p], {TutorOf[p]} \cup RosterOf[p])

CanTake(s, self, w, shares, now) ==
    LET own == Party(s, w.plan, w.people)
        leaves == Vacates(s, w) \/ shares
    IN  /\ w.at > now
        /\ \A c \in Booked(s) \ Twins(s, w) :
              s.cohort[c].at = w.at =>
                 \/ c = w.source /\ leaves
                 \/ ~Clash(w.room, own, s.cohort[c].room,
                           Party(s, s.cohort[c].plan, Roster(s, c)))
        /\ w.source \in Booked(s) /\ ~leaves => s.cohort[w.source].at # w.at
        /\ \A r \in Holds(s) \ {self} :
              s.request[r].at = w.at =>
                 \/ Sibling(w, s.request[r])
                 \/ ~Clash(w.room, own, s.request[r].room, Audience(s, s.request[r]))
        /\ ClearOfWeekly(w, own)

-----------------------------------------------------------------------------
(* The parts of a negotiation, each from rows to rows.                     *)

Offered(s, r, author, matched, place, now) ==
    LET q == s.request[r]
    IN  [s EXCEPT !.request[r] =
          [q EXCEPT !.n = q.n + 1, !.at = place[1], !.room = place[2], !.made = now,
                    !.cutoff = Min({s.cohort[q.source].at, place[1]}),
                    !.answer =
                       [x \in Audience(s, q) |->
                          IF x = author
                          THEN [NoAnswer EXCEPT !.state = "ACCEPTED", !.by = "AUTHOR"]
                          ELSE IF x = matched
                          THEN [NoAnswer EXCEPT !.state = "ACCEPTED", !.by = "MATCHED"]
                          ELSE NoAnswer]]]

Close(s, r, status) == [s EXCEPT !.request[r].status = status]

(* Variant: a request that asked everybody takes everybody.                  *)
WholeIfAll(s, q) == q.kind # "EXTRA" /\ q.scope = "ALL"

Whole(s, q) ==
    q.kind # "EXTRA" /\ Roster(s, q.source) # {} /\ Roster(s, q.source) \subseteq q.people

(* finishAgreement: the lesson of an accepted offer.  A request that takes   *)
(* everybody of its source moves the source in place; otherwise its people   *)
(* join the plan's lesson at that window, or get one of their own.           *)
Moved(s, r) ==
    LET q == s.request[r]
        target == IF q.kind # "EXTRA" THEN q.plan ELSE IF q.parent # None THEN q.parent ELSE r
        roster == Roster(s, q.source)
        twins == Twins(s, q)
        c == IF twins # {} THEN Min(twins) ELSE IF Whole(s, q) THEN q.source ELSE Min(Unused(s.cohort))
        placed == [status |-> "SCHEDULED", plan |-> target, at |-> q.at, room |-> q.room,
                   moved |-> q.kind # "EXTRA"]
        left == IF q.kind = "EXTRA" \/ c = q.source THEN s.cohort[q.source]
                ELSE [s.cohort[q.source] EXCEPT !.status =
                        IF roster \subseteq q.people THEN "CANCELLED" ELSE "SCHEDULED"]
    IN  [s EXCEPT !.cohort[q.source] = left,
                  !.cohort[c] = IF c \in twins THEN s.cohort[c] ELSE placed,
                  !.seat[target] = [l \in Learners |-> IF l \in q.people THEN c ELSE @[l]]]

(* Variant: only the clock decides whether a lesson can still move.          *)
MovableByClock(c, now) == c.at > now

Movable(c, now) == c.status = "SCHEDULED" /\ c.at > now

Finished(s, r, now) ==
    LET q == s.request[r]
    IN  IF \E x \in DOMAIN q.answer : q.answer[x].state # "ACCEPTED" THEN s
        ELSE IF /\ current[q.base] /\ Movable(s.cohort[q.source], now)
                /\ CanTake(s, r, q, FALSE, now)
        THEN Close(Moved(s, r), r, "ACCEPTED")
        ELSE Close(s, r, "STALE")

Silent(q, now) ==
    {x \in DOMAIN q.answer : /\ q.answer[x].state = "PENDING"
                             /\ q.answer[x].due # Never /\ q.answer[x].due <= now}

(* Variant: a group that asked to be split waits for its supervisor.         *)
SplitWaits(s, q, now) == q.status

SplitFate(s, q, now) ==
    IF s.cohort[q.source].at <= now THEN "EXPIRED"
    ELSE IF ~current[q.base] THEN "STALE" ELSE q.status

Settled(s, r, now) ==
    LET q == s.request[r]
        assumed == [x \in DOMAIN q.answer |->
                      IF x \in Silent(q, now)
                      THEN [q.answer[x] EXCEPT !.state = "ACCEPTED", !.by = "TIMEOUT"]
                      ELSE q.answer[x]]
    IN  CASE q.status = "SPLIT_REQUESTED" -> Close(s, r, SplitFate(s, q, now))
          [] q.status = "PENDING" ->
               IF ~current[q.base] THEN Close(s, r, "STALE")
               ELSE IF q.cutoff <= now THEN Close(s, r, "EXPIRED")
               ELSE Finished([s EXCEPT !.request[r].answer = assumed], r, now)
          [] OTHER -> s

-----------------------------------------------------------------------------
(* Pairings: confirmed, published, edited, joined and left.                *)

Init ==
    /\ clock = 0
    /\ weekly \in [Pairings -> {"DRAFT", "CONFIRMED"}]
    /\ current = [p \in Pairings |-> TRUE]
    /\ cohort = [c \in Cohorts |-> NoCohort]
    /\ seat = [pl \in Plans |-> [l \in Learners |-> None]]
    /\ request = [r \in Requests |-> NoRequest]
    /\ hint = {} /\ post = {}
    /\ sweep = [at |-> Never, todo |-> {}]
    /\ edits = 0 /\ faults = 0

(* Confirming a weekly time must leave the agreed lessons and the offers on  *)
(* the table alone.                                                          *)
Confirm(p) ==
    LET own == {TutorOf[p]} \cup RosterOf[p]
    IN  /\ weekly[p] = "DRAFT"
        /\ \A c \in Booked(Db) :
              cohort[c].at > clock /\ cohort[c].at = SlotOf[p] =>
                 ~Clash(RoomOf[p], own, cohort[c].room,
                        Party(Db, cohort[c].plan, Roster(Db, c)))
        /\ \A r \in Holds(Db) :
              request[r].at = SlotOf[p] =>
                 ~Clash(RoomOf[p], own, request[r].room, Audience(Db, request[r]))
        /\ weekly' = [weekly EXCEPT ![p] = "CONFIRMED"]
        /\ UNCHANGED <<clock, current, db, hint, post, sweep, edits, faults>>

Lesson(p, c, people) ==
    [NoRequest EXCEPT !.plan = p, !.base = p, !.scope = "ALL", !.source = c,
                      !.people = people, !.at = SlotOf[p], !.room = RoomOf[p]]

(* A lesson that cannot be held is published as cancelled.                   *)
Publish(p) ==
    LET c == Min(Unused(cohort))
        free == CanTake(Db, None, Lesson(p, c, RosterOf[p]), FALSE, clock)
    IN  /\ weekly[p] = "CONFIRMED" /\ SlotOf[p] + 1 > clock /\ Unused(cohort) # {}
        /\ weekly' = [weekly EXCEPT ![p] = "PUBLISHED"]
        /\ Commit([Db EXCEPT
              !.cohort[c] = [status |-> IF free THEN "SCHEDULED" ELSE "CANCELLED", plan |-> p,
                             at |-> SlotOf[p], room |-> RoomOf[p], moved |-> FALSE],
              !.seat[p] = [l \in Learners |-> IF l \notin RosterOf[p] THEN None
                                              ELSE IF free THEN c ELSE Gone]])
        /\ UNCHANGED <<clock, current, post, sweep, edits, faults>>

(* Staff replace the roster or the subject of a pairing, or put it back.     *)
Edit(p) ==
    /\ weekly[p] = "PUBLISHED"
    /\ edits < MaxEdits /\ edits' = edits + 1
    /\ current' = [current EXCEPT ![p] = ~current[p]]
    /\ UNCHANGED <<clock, weekly, db, hint, post, sweep, faults>>

PlansOf(p) == {pl \in Plans : pl = p \/ (pl \in Requests /\ request[pl].base = p)}

(* Publication, reconciliation and the writers of pairings retire the plans  *)
(* whose source changed: lessons that have not started and open requests.    *)
Invalidate(p) ==
    LET lost == {c \in Cohorts : /\ cohort[c].status = "SCHEDULED" /\ cohort[c].at > clock
                                 /\ cohort[c].plan \in PlansOf(p)}
    IN  /\ weekly[p] = "PUBLISHED" /\ ~current[p]
        /\ Commit(
             [cohort |-> [c \in Cohorts |-> IF c \in lost
                              THEN [cohort[c] EXCEPT !.status = "CANCELLED"] ELSE cohort[c]],
              seat |-> [pl \in Plans |-> [l \in Learners |->
                              IF seat[pl][l] \in lost THEN Gone ELSE seat[pl][l]]],
              request |-> [r \in Requests |->
                              IF request[r].status \in Open /\ request[r].plan \in PlansOf(p)
                              THEN [request[r] EXCEPT !.status = "STALE"] ELSE request[r]]])
        /\ UNCHANGED <<clock, weekly, current, post, sweep, edits, faults>>

(* A continuation assignment seats a new learner at the unmoved lesson of    *)
(* the plan, or at the weekly window when the others have moved away.        *)
Join(p, l) ==
    LET unmoved == {c \in Cohorts : /\ cohort[c].plan = p /\ cohort[c].status = "SCHEDULED"
                                    /\ ~cohort[c].moved}
        weeklyTime == {c \in Cohorts : /\ cohort[c].plan = p /\ cohort[c].status = "SCHEDULED"
                                       /\ cohort[c].at = SlotOf[p] /\ cohort[c].room = RoomOf[p]}
        fresh == Min(Unused(cohort))
        c == IF unmoved # {} THEN Min(unmoved)
             ELSE IF weeklyTime # {} THEN Min(weeklyTime) ELSE fresh
        joins == [Lesson(p, c, {l}) EXCEPT !.at = IF c = fresh THEN SlotOf[p] ELSE cohort[c].at,
                                           !.room = IF c = fresh THEN RoomOf[p] ELSE cohort[c].room]
    IN  /\ weekly[p] = "PUBLISHED" /\ current[p] /\ seat[p][l] = None
        /\ Unused(cohort) # {}
        /\ CanTake(Db, None, joins, TRUE, clock)
        /\ Commit([Db EXCEPT
              !.cohort[c] = IF c = fresh
                            THEN [status |-> "SCHEDULED", plan |-> p, at |-> SlotOf[p],
                                  room |-> RoomOf[p], moved |-> FALSE]
                            ELSE @,
              !.seat[p][l] = c])
        /\ UNCHANGED <<clock, weekly, current, post, sweep, edits, faults>>

(* Its end takes the learner out of every plan of the pairing that is still  *)
(* ahead, and closes the learner's open requests there.                      *)
Release(p, l) ==
    LET ahead == {pl \in PlansOf(p) : /\ seat[pl][l] \in Cohorts
                                      /\ cohort[seat[pl][l]].at > clock
                                      /\ cohort[seat[pl][l]].status # "RECORDED"}
        left == {seat[pl][l] : pl \in ahead}
    IN  /\ ahead # {}
        /\ Commit(
             [cohort |-> [c \in Cohorts |-> IF c \in left /\ Roster(Db, c) \subseteq {l}
                              THEN [cohort[c] EXCEPT !.status = "CANCELLED"] ELSE cohort[c]],
              seat |-> [pl \in Plans |-> IF pl \in ahead
                              THEN [seat[pl] EXCEPT ![l] = Gone] ELSE seat[pl]],
              request |-> [r \in Requests |->
                              IF /\ request[r].status \in Open /\ request[r].plan \in ahead
                                 /\ l \in request[r].people
                              THEN [request[r] EXCEPT !.status = "STALE"] ELSE request[r]]])
        /\ UNCHANGED <<clock, weekly, current, post, sweep, edits, faults>>

(* Attendance of a lesson that has ended makes it evidence.                  *)
Record(c) ==
    /\ c \in Booked(Db) /\ cohort[c].at + 1 <= clock
    /\ current[Base(Db, cohort[c].plan)]
    /\ Commit([Db EXCEPT !.cohort[c].status = "RECORDED"])
    /\ UNCHANGED <<clock, weekly, current, post, sweep, edits, faults>>

-----------------------------------------------------------------------------
(* Suggesting, proposing and answering.  A page names the version it shows *)
(* and a stale page is refused: what is left to choose is the offer "n" it *)
(* answers.                                                                *)

Writable(c) ==
    /\ cohort[c].status = "SCHEDULED" /\ cohort[c].at > clock
    /\ current[Base(Db, cohort[c].plan)]

Wish(c, kind, scope, people, place) ==
    [NoRequest EXCEPT !.plan = cohort[c].plan, !.base = Base(Db, cohort[c].plan),
                      !.status = "PENDING", !.kind = kind, !.scope = scope, !.source = c,
                      !.people = people, !.at = place[1], !.room = place[2]]

Asked(c, scope) ==
    IF scope = "ALL" THEN {Roster(Db, c)} \ {{}} ELSE {{l} : l \in Roster(Db, c)}

Suggest(c, l, place) ==
    /\ Writable(c) /\ l \in Roster(Db, c)
    /\ CanTake(Db, None, Wish(c, "RESCHEDULE", "ONE", {l}, place), FALSE, clock)
    /\ Cardinality(hint) < MaxHints
    /\ hint' = hint \cup {[cohort |-> c, learner |-> l, place |-> place]}
    /\ UNCHANGED <<clock, weekly, current, db, post, sweep, edits, faults>>

Asking(pl, people) ==
    \E o \in OpenRequests(Db) : request[o].plan = pl /\ request[o].people \cap people # {}

(* A suggestion that matches exactly counts as its learner's assent.         *)
Propose(c, kind, scope, people, place, h) ==
    LET r == Min(Unused(request))
        w == Wish(c, kind, scope, people, place)
        s == [Db EXCEPT !.request[r] = w]
    IN  /\ Writable(c) /\ Unused(request) # {} /\ Unused(cohort) # {}
        /\ people \in Asked(c, scope)
        /\ ~Asking(cohort[c].plan, people)
        /\ CanTake(s, r, w, FALSE, clock)
        /\ h # {} => /\ kind = "RESCHEDULE" /\ h \subseteq hint
                     /\ \A i \in h : i.cohort = c /\ i.learner \in people /\ i.place = place
        /\ LET matched == IF h = {} THEN Tutor(Db, cohort[c].plan) ELSE (CHOOSE i \in h : TRUE).learner
               t == Finished(Offered(s, r, Tutor(s, w.plan), matched, place, clock), r, clock)
           IN  /\ cohort' = t.cohort /\ seat' = t.seat /\ request' = t.request
               /\ hint' = {i \in hint \ h : /\ t.cohort[i.cohort] = cohort[i.cohort]
                                            /\ Roster(t, i.cohort) = Roster(Db, i.cohort)}
        /\ UNCHANGED <<clock, weekly, current, post, sweep, edits, faults>>

(* respondSession settles first and fails if that changed anything, so an    *)
(* answer counts only while nothing of its request is due.                   *)
Answerable(r, x, n) ==
    /\ request[r].status = "PENDING" /\ n = request[r].n
    /\ x \in DOMAIN request[r].answer /\ request[r].answer[x].state = "PENDING"
    /\ Settled(Db, r, clock) = Db

Accept(r, x, n) ==
    /\ Answerable(r, x, n) /\ Unused(cohort) # {}
    /\ Commit(Finished([Db EXCEPT !.request[r].answer[x].state = "ACCEPTED",
                                  !.request[r].answer[x].by = "EXPLICIT"], r, clock))
    /\ UNCHANGED <<clock, weekly, current, post, sweep, edits, faults>>

(* Variant: nobody counts the rejections.                                    *)
MayRejectAgain(q, x) == TRUE

MayReject(q, x) == IF q.scope = "ONE" THEN q.stage < 3 ELSE x \notin q.spent

Counter(r, x, n, place) ==
    LET q == request[r]
        s == [Db EXCEPT !.request[r].answer[x].state = "REJECTED",
                        !.request[r].stage = IF q.scope = "ONE" THEN q.stage + 1 ELSE q.stage,
                        !.request[r].spent = q.spent \cup {x}]
    IN  /\ Answerable(r, x, n) /\ n < MaxOffers
        /\ MayReject(q, x)
        /\ CanTake(s, r, [s.request[r] EXCEPT !.at = place[1], !.room = place[2]], FALSE, clock)
        /\ Commit(Offered(s, r, x, x, place, clock))
        /\ UNCHANGED <<clock, weekly, current, post, sweep, edits, faults>>

(* The last rejection of an individual request cancels that lesson of the    *)
(* learner; one of an extra lesson cancels nothing.                          *)
Refuse(r, x, n) ==
    LET q == request[r]
        answered == [Db EXCEPT !.request[r].answer[x].state = "REJECTED"]
        cancelled ==
           [answered EXCEPT
              !.seat[q.plan] = [l \in Learners |-> IF l \in q.people THEN Gone ELSE @[l]],
              !.cohort[q.source].status =
                 IF Roster(Db, q.source) \subseteq q.people THEN "CANCELLED" ELSE "SCHEDULED"]
    IN  /\ Answerable(r, x, n) /\ q.scope = "ONE" /\ q.stage = 3
        /\ Commit(Close(IF q.kind = "EXTRA" THEN answered ELSE cancelled, r, "CANCELLED"))
        /\ UNCHANGED <<clock, weekly, current, post, sweep, edits, faults>>

AskSeparate(r, x) ==
    /\ request[r].scope = "ALL" /\ request[r].status = "PENDING" /\ x \in request[r].spent
    /\ Settled(Db, r, clock) = Db
    /\ Commit(Close(Db, r, "SPLIT_REQUESTED"))
    /\ UNCHANGED <<clock, weekly, current, post, sweep, edits, faults>>

(* One child per learner at the offer of the parent.  Who had assented to it *)
(* along with the tutor keeps that assent.  "ok" is lost when a child's      *)
(* window is not free, and with it the whole transaction.                    *)
Child(l, r, t) ==
    LET q == t.s.request[r]
        i == Min(Unused(t.s.request))
        w == [NoRequest EXCEPT !.status = "PENDING", !.kind = q.kind, !.plan = q.plan,
                               !.base = q.base, !.source = q.source, !.people = {l},
                               !.parent = r, !.at = q.at, !.room = q.room]
        s == [t.s EXCEPT !.request[i] = w]
        tutor == Tutor(s, q.plan)
        mutual == q.answer[tutor].state = "ACCEPTED" /\ q.answer[l].state = "ACCEPTED"
    IN  IF ~t.ok \/ ~CanTake(s, i, w, FALSE, clock) \/ Unused(t.s.cohort) = {} THEN [t EXCEPT !.ok = FALSE]
        ELSE [ok |-> TRUE,
              s |-> Finished(Offered(s, i, tutor, IF mutual THEN l ELSE tutor,
                                     <<q.at, q.room>>, clock), i, clock)]

FormalizeSplit(r) ==
    LET q == request[r]
        t == FoldSet(LAMBDA l, acc : Child(l, r, acc), [ok |-> TRUE, s |-> Db], q.people)
    IN  /\ q.status = "SPLIT_REQUESTED"
        /\ cohort[q.source].at > clock /\ current[q.base]
        /\ Cardinality(Unused(request)) >= Cardinality(q.people)
        /\ t.ok
        /\ Commit(Close(t.s, r, "SPLIT"))
        /\ UNCHANGED <<clock, weekly, current, post, sweep, edits, faults>>

-----------------------------------------------------------------------------
(* Notices of an offer, and the sweep.                                     *)

(* Admission and the provider's acceptance: the notice of a response that is *)
(* still wanted.  Recording the acceptance is a later transaction.           *)
Mail(r, x) ==
    LET m == [request |-> r, n |-> request[r].n, to |-> x, at |-> clock]
    IN  /\ request[r].status = "PENDING" /\ request[r].cutoff > clock
        /\ x \in DOMAIN request[r].answer
        /\ request[r].answer[x].state = "PENDING" /\ request[r].answer[x].sent = Never
        /\ \A o \in post : <<o.request, o.n, o.to>> # <<r, m.n, x>>
        /\ post' = post \cup {m}
        /\ UNCHANGED <<clock, weekly, current, db, hint, sweep, edits, faults>>

(* Variant: any notice of the request starts the clock.                      *)
WantedAnyOffer(q, m) ==
    /\ q.status = "PENDING" /\ q.cutoff > clock /\ m.to \in DOMAIN q.answer
    /\ q.answer[m.to].state = "PENDING" /\ q.answer[m.to].sent = Never

Wanted(q, m) ==
    /\ q.status = "PENDING" /\ q.cutoff > clock /\ q.n = m.n
    /\ q.answer[m.to].state = "PENDING" /\ q.answer[m.to].sent = Never

(* Only the first notice of a wanted response of the current offer starts    *)
(* its clock, at the provider's time; no deadline when it would not end      *)
(* before the cutoff.                                                        *)
Delivered(m) ==
    LET q == request[m.request]
        due == m.at + Response
    IN  /\ post' = post \ {m}
        /\ request' = IF Wanted(q, m)
                      THEN [request EXCEPT ![m.request].answer[m.to].sent = m.at,
                                           ![m.request].answer[m.to].due =
                                               IF due < q.cutoff THEN due ELSE Never]
                      ELSE request
        /\ UNCHANGED <<clock, weekly, current, cohort, seat, hint, sweep, edits, faults>>

(* The server dies between the provider's answer and its record.             *)
Lose(m) ==
    /\ faults < MaxFaults /\ faults' = faults + 1
    /\ post' = post \ {m}
    /\ UNCHANGED <<clock, weekly, current, db, hint, sweep, edits>>

StartSweep ==
    /\ sweep.todo = {} /\ OpenRequests(Db) # {}
    /\ sweep' = [at |-> clock, todo |-> OpenRequests(Db)]
    /\ UNCHANGED <<clock, weekly, current, db, hint, post, edits, faults>>

(* One visit, with the clock reading of the sweep.                           *)
Visit(r) ==
    /\ r \in sweep.todo /\ Unused(cohort) # {}
    /\ Commit(Settled(Db, r, sweep.at))
    /\ sweep' = [at |-> IF sweep.todo = {r} THEN Never ELSE sweep.at,
                 todo |-> sweep.todo \ {r}]
    /\ UNCHANGED <<clock, weekly, current, post, edits, faults>>

AbandonSweep ==
    /\ sweep.todo # {}
    /\ faults < MaxFaults /\ faults' = faults + 1
    /\ sweep' = [at |-> Never, todo |-> {}]
    /\ UNCHANGED <<clock, weekly, current, db, hint, post, edits>>

Tick ==
    /\ clock < Last
    /\ clock' = clock + 1
    /\ UNCHANGED <<weekly, current, db, hint, post, sweep, edits, faults>>

-----------------------------------------------------------------------------
Staff ==
    \E p \in Pairings :
        \/ Confirm(p) \/ Publish(p) \/ Edit(p) \/ Invalidate(p)
        \/ \E l \in JoinersOf[p] : Join(p, l) \/ Release(p, l)

People ==
    \/ \E c \in Cohorts : Record(c)
    \/ \E c \in Cohorts, l \in Learners, place \in Wishes : Suggest(c, l, place)
    \/ \E c \in Cohorts, kind \in {"RESCHEDULE", "EXTRA"}, scope \in {"ONE", "ALL"},
          place \in Wishes, h \in {{}} \cup {{i} : i \in hint} :
          \E people \in Asked(c, scope) : Propose(c, kind, scope, people, place, h)
    \/ \E r \in Requests, n \in 1 .. MaxOffers : \E x \in DOMAIN request[r].answer :
          \/ Accept(r, x, n) \/ Refuse(r, x, n)
          \/ \E place \in Wishes : Counter(r, x, n, place)
    \/ \E r \in Requests, x \in Persons : AskSeparate(r, x)
    \/ \E r \in Requests : FormalizeSplit(r)

Server ==
    \/ \E r \in Requests : \E x \in DOMAIN request[r].answer : Mail(r, x)
    \/ \E m \in post : Delivered(m) \/ Lose(m)
    \/ StartSweep \/ AbandonSweep
    \/ \E r \in Requests : Visit(r)

Next == Staff \/ People \/ Server \/ Tick

Spec == Init /\ [][Next]_vars

(* The worker's interval starts sweeps for ever, a sweep visits its          *)
(* requests unless its server dies, and time passes.                         *)
FairSpec ==
    /\ Spec
    /\ WF_vars(Tick) /\ WF_vars(StartSweep)
    /\ \A r \in Requests : WF_vars(Visit(r))

-----------------------------------------------------------------------------
(* Properties.                                                             *)

(* Every row has its shape; in particular an individual negotiation never    *)
(* passes its third stage (respondSession).                                  *)
TypeOK ==
    /\ clock \in Instants
    /\ weekly \in [Pairings -> {"DRAFT", "CONFIRMED", "PUBLISHED"}]
    /\ current \in [Pairings -> BOOLEAN]
    /\ cohort \in [Cohorts -> CohortRows]
    /\ seat \in [Plans -> [Learners -> Cohorts \cup {None, Gone}]]
    /\ \A r \in Requests : LET q == request[r] IN
          /\ q.status \in {"NONE"} \cup Open \cup Closed
          /\ q.plan \in Plans \cup {None} /\ q.base \in Pairings \cup {None}
          /\ q.source \in Cohorts \cup {None} /\ q.parent \in Requests \cup {None}
          /\ q.stage \in 1 .. 3 /\ q.n \in 0 .. MaxOffers
          /\ q.status # "NONE" => DOMAIN q.answer = Audience(Db, q)
          /\ \A x \in DOMAIN q.answer : q.answer[x] \in Answers
    /\ post \subseteq [request : Requests, n : 1 .. MaxOffers, to : Persons, at : Instants]
    /\ sweep \in [at : Instants \cup {Never}, todo : SUBSET Requests]
    /\ sweep.at = Never <=> sweep.todo = {}
    /\ Cardinality(hint) <= MaxHints /\ edits \in 0 .. MaxEdits /\ faults \in 0 .. MaxFaults

At(c) == Party(Db, cohort[c].plan, Roster(Db, c))

(* Whatever is published, agreed, split, joined or left, in whatever order:  *)
(* no tutor, learner or room is booked twice for one window (validateTarget  *)
(* against what the other transactions wrote before it).                     *)
NoDoubleBooking ==
    \A c, d \in Booked(Db) :
        c # d /\ cohort[c].at = cohort[d].at => ~Clash(cohort[c].room, At(c), cohort[d].room, At(d))

(* An offer on the table reserves its window: until it is answered no other  *)
(* lesson, and no other offer but those split off with it, takes its people  *)
(* or its room.  Only the lesson it moves, and the lesson of its own plan at *)
(* that very place, may lie there.                                           *)
HoldsKept ==
    \A r \in Requests : LET q == request[r] IN
        q.status = "PENDING" =>
            /\ \A c \in Booked(Db) \ (Twins(Db, q) \cup {q.source}) :
                  cohort[c].at = q.at => ~Clash(q.room, Audience(Db, q), cohort[c].room, At(c))
            /\ \A o \in Requests \ {r} : LET h == request[o] IN
                  h.status = "PENDING" /\ h.at = q.at =>
                     Sibling(q, h) \/ ~Clash(q.room, Audience(Db, q), h.room, Audience(Db, h))

(* A confirmed weekly time still ahead stays free until it is published, so  *)
(* that the publication of a window never has to cancel a lesson of it.      *)
WeeklyKept ==
    \A p \in Pairings : weekly[p] = "CONFIRMED" /\ SlotOf[p] > clock =>
        CanTake(Db, None, Lesson(p, None, RosterOf[p]), FALSE, clock)

(* Silence is assent only of somebody whose notice of this very offer the    *)
(* provider took a full response window ago, and a full response window      *)
(* before the cutoff (markSessionResponseDelivered, settleRequest).          *)
NoticeOfThisOffer ==
    \A r \in Requests : \A x \in DOMAIN request[r].answer :
        LET w == request[r].answer[x]
        IN  /\ w.sent # Never => w.sent >= request[r].made
            /\ w.by = "TIMEOUT" => /\ w.sent # Never /\ w.sent + Response <= clock
                                   /\ w.sent + Response < request[r].cutoff

(* A learner with a seat is moved to another place only by a request of that *)
(* learner that is accepted in this step, for its place, and after everybody *)
(* concerned has assented to its current offer.  Nobody who joined in the    *)
(* meantime is taken along.                                                  *)
Place(rows, c) == <<rows[c].at, rows[c].room>>

SeatsMoveByAgreement ==
    [][\A pl \in Plans, l \in Learners :
          LET c == seat[pl][l]
              d == seat'[pl][l]
          IN  c \in Cohorts /\ d \in Cohorts /\ Place(cohort', d) # Place(cohort, c) =>
                 \E r \in Requests : LET q == request'[r] IN
                     /\ request[r].status # "ACCEPTED" /\ q.status = "ACCEPTED"
                     /\ l \in q.people /\ q.plan = pl /\ <<q.at, q.room>> = Place(cohort', d)
                     /\ \A x \in DOMAIN q.answer : q.answer[x].state = "ACCEPTED"]_vars

(* The roster and the place of a recorded lesson are evidence: not even a    *)
(* sweep that still works with an old clock reading changes them.            *)
EvidenceStands ==
    [][\A c \in Cohorts : cohort[c].status = "RECORDED" =>
          cohort'[c] = cohort[c] /\ \A l \in Learners :
              seat[cohort[c].plan][l] = c <=> seat'[cohort[c].plan][l] = c]_vars

(* Every negotiation ends: answered, expired at its cutoff, or stale, and a  *)
(* request to split at the latest when its lesson begins.                    *)
EveryRequestCloses ==
    \A r \in Requests : request[r].status \in Open ~> request[r].status \notin Open

(* The promise of the comment in settleRequest that the cutoff wins over a   *)
(* late execution of the worker: nothing is agreed at or after the cutoff.   *)
CutoffWins ==
    [][\A r \in Requests :
          request[r].status # "ACCEPTED" /\ request'[r].status = "ACCEPTED" =>
              clock < request'[r].cutoff]_vars
=============================================================================
