----------------------- MODULE SessionPlanningProofs -----------------------
(***************************************************************************)
(* Proofs about SessionPlanning for any pairings, learners, windows, rooms *)
(* and bounds.  A transaction turns rows s into rows t; it may do so in     *)
(* steps of which an earlier one is not yet consistent (a request is        *)
(* written before its offer, a split writes the children before it closes   *)
(* the parent).  The invariant is therefore stated of rows, Good(s, X, ..), *)
(* where X are the requests that the transaction is still working on.       *)
(*                                                                          *)
(* The order: what the rows have to satisfy; what follows from rows that    *)
(* grew by one lesson only (LessonsApart, HoldsReserved, WeekStaysFree);     *)
(* an agreement (Moved, Finished, Settled); an offer; the children of a     *)
(* split, by well-founded induction over the sets the fold visits; then one *)
(* lemma per action; and the theorems.                                      *)
(***************************************************************************)
EXTENDS SessionPlanning, FiniteSetTheorems, WellFoundedInduction, TLAPS

(* Everybody in lesson c.                                                     *)
Lies(s, c) == Party(s, s.cohort[c].plan, Roster(s, c))

(* The plan whose seats an accepted request r writes.                         *)
Target(s, r) ==
    LET q == s.request[r]
    IN  IF q.kind # "EXTRA" THEN q.plan ELSE IF q.parent # None THEN q.parent ELSE r

(* The open requests that nothing is being done to.                           *)
Live(s, X) == OpenRequests(s) \ X

(* A request is about a plan that exists, and a child about that of a parent  *)
(* which is split already or being split.                                     *)
Rooted(s, X) ==
    \A r \in Requests : LET q == s.request[r] IN q.status # "NONE" =>
        /\ q.plan \in Plans /\ q.base \in Pairings /\ q.source \in Cohorts
        /\ q.people # {}
        /\ q.base = Base(s, q.plan)
        /\ q.plan \in Requests => s.request[q.plan].status # "NONE"
        /\ q.parent # None => LET o == s.request[q.parent] IN
              /\ o.status = "SPLIT" \/ q.parent \in X
              /\ o.status # "NONE"
              /\ o.plan = q.plan /\ o.source = q.source /\ o.kind = q.kind

(* A lesson belongs to a published pairing, or to an extra plan somebody      *)
(* agreed to; what is recorded is over.                                       *)
Planned(s, X, wk, now) ==
    \A c \in Cohorts : LET k == s.cohort[c] IN k.status # "NONE" =>
        /\ k.plan \in Plans
        /\ k.plan \in Pairings => wk[k.plan] = "PUBLISHED"
        /\ k.plan \in Requests =>
              /\ s.request[k.plan].status # "NONE"
              /\ s.request[k.plan].status \in {"ACCEPTED", "SPLIT"} \/ k.plan \in X
        /\ k.status = "RECORDED" => k.at < now

(* A seat in a plan is a seat in a lesson of that plan.                       *)
Seated(s) ==
    \A pl \in Plans, l \in Learners : LET c == s.seat[pl][l] IN
        c \in Cohorts => s.cohort[c].status # "NONE" /\ s.cohort[c].plan = pl

(* Two lessons of one plan are never at the same window and room: who comes   *)
(* there joins (Twins has one member at most).                                *)
OnePerPlace(s) ==
    \A c, d \in Cohorts :
        /\ s.cohort[c].status = "SCHEDULED" /\ s.cohort[d].status = "SCHEDULED"
        /\ s.cohort[c].plan = s.cohort[d].plan
        /\ s.cohort[c].at = s.cohort[d].at /\ s.cohort[c].room = s.cohort[d].room
        => c = d

(* The people of an open request still sit in the lesson it wants to move.    *)
Fresh(s, r) == LET q == s.request[r] IN
    /\ s.cohort[q.source].status \in {"SCHEDULED", "RECORDED"}
    /\ s.cohort[q.source].plan = q.plan
    /\ \A l \in q.people : s.seat[q.plan][l] = q.source
    /\ q.kind = "EXTRA" => \A l \in q.people : s.seat[Target(s, r)][l] \notin Cohorts

(* The clock of a response: started by a notice of this offer, and only if it *)
(* ends before the cutoff.                                                    *)
Told(q, now) ==
    /\ 1 <= q.n /\ q.made <= now
    /\ \A x \in DOMAIN q.answer : LET w == q.answer[x] IN
          /\ w.sent # Never => q.made <= w.sent
          /\ w.due # Never => w.sent # Never /\ w.due = w.sent + Response /\ w.due < q.cutoff
          /\ w.by = "TIMEOUT" => w.sent # Never /\ w.sent + Response <= now
                                 /\ w.sent + Response < q.cutoff

(* A request that does not exist has no responses.                            *)
Blank(s) ==
    \A r \in Requests : s.request[r].status = "NONE" => DOMAIN s.request[r].answer = {}

(* The offer on the table was put to the people concerned.                    *)
Negotiated(s, X, now) ==
    /\ Blank(s)
    /\ \A r \in Requests \ X : LET q == s.request[r] IN q.status # "NONE" =>
        /\ DOMAIN q.answer = Audience(s, q)
        /\ Told(q, now)
        /\ q.status \in Open => Fresh(s, r) /\ q.cutoff <= s.cohort[q.source].at

(* One open request per learner and plan.                                     *)
Disjoint(s, X) ==
    \A r, o \in Live(s, X) :
        r # o /\ s.request[r].plan = s.request[o].plan =>
            s.request[r].people \cap s.request[o].people = {}

(* NoDoubleBooking, HoldsKept and WeeklyKept, of rows.                        *)
Apart(s) ==
    \A c, d \in Booked(s) :
        c # d /\ s.cohort[c].at = s.cohort[d].at =>
            ~Clash(s.cohort[c].room, Lies(s, c), s.cohort[d].room, Lies(s, d))

Reserved(s, X) ==
    \A r \in Holds(s) \ X : LET q == s.request[r] IN
        /\ \A c \in Booked(s) \ (Twins(s, q) \cup {q.source}) :
              s.cohort[c].at = q.at => ~Clash(q.room, Audience(s, q), s.cohort[c].room, Lies(s, c))
        /\ \A o \in (Holds(s) \ X) \ {r} : LET h == s.request[o] IN
              h.at = q.at => Sibling(q, h) \/ ~Clash(q.room, Audience(s, q), h.room, Audience(s, h))

WeeklyFree(s, X, wk, now) ==
    \A p \in Pairings : wk[p] = "CONFIRMED" /\ SlotOf[p] > now =>
        /\ \A c \in Booked(s) :
              s.cohort[c].at = SlotOf[p] =>
                  ~Clash(RoomOf[p], {TutorOf[p]} \cup RosterOf[p], s.cohort[c].room, Lies(s, c))
        /\ \A r \in Holds(s) \ X :
              s.request[r].at = SlotOf[p] =>
                  ~Clash(RoomOf[p], {TutorOf[p]} \cup RosterOf[p], s.request[r].room,
                         Audience(s, s.request[r]))

(* A notice that is under way is one of an offer of its request that was      *)
(* made, and if that offer is on the table still, not older than it.          *)
Posted(q, m, now) ==
    /\ m.at <= now /\ m.n <= q.n /\ q.status # "NONE"
    /\ m.n = q.n => q.made <= m.at /\ m.to \in DOMAIN q.answer

(* The rows have their shape.                                                 *)
Typed(s) ==
    /\ s = [cohort |-> s.cohort, seat |-> s.seat, request |-> s.request]
    /\ s.cohort \in [Cohorts -> CohortRows]
    /\ s.seat \in [Plans -> [Learners -> Cohorts \cup {None, Gone}]]
    /\ s.request \in [Requests -> RequestRows]

(* What the rows have to satisfy under the weekly times wk at the instant     *)
(* now.                                                                       *)
Good(s, X, wk, now) ==
    /\ Typed(s) /\ Rooted(s, X) /\ Planned(s, X, wk, now) /\ Seated(s) /\ OnePerPlace(s)
    /\ Negotiated(s, X, now) /\ Disjoint(s, X)
    /\ Apart(s) /\ Reserved(s, X) /\ WeeklyFree(s, X, wk, now)

------------------------------------------------------------------------------
(* Identifiers and instants are numbers; None and Gone name no row.           *)
LEMMA Ids ==
    /\ Cohorts \subseteq Nat \ {0} /\ Requests \subseteq Nat \ {0} /\ Instants \subseteq Nat
    /\ 0 \in Instants /\ Never \notin Instants
    /\ None \notin Cohorts /\ Gone \notin Cohorts /\ None # Gone
    /\ None \notin Requests /\ None \notin Pairings /\ Pairings \cap Requests = {}
    /\ Response \in Nat \ {0} /\ MaxOffers \in Nat \ {0}
<1>1. {Last, Response, MaxCohorts, MaxRequests, MaxOffers} \subseteq Nat \ {0}
  BY BoundsAssumption
<1>2. Last \in Nat \ {0} /\ Response \in Nat \ {0} /\ MaxCohorts \in Nat \ {0}
      /\ MaxRequests \in Nat \ {0} /\ MaxOffers \in Nat \ {0}
  BY <1>1
<1>3. Pairings \cap (None .. MaxRequests) = {}
  BY PairingsAssumption
<1>4. None \in None .. MaxRequests /\ Requests \subseteq None .. MaxRequests
  BY <1>2 DEF Requests, None
<1>5. None \notin Pairings /\ Pairings \cap Requests = {}
  BY <1>3, <1>4
<1>6. QED
  BY <1>2, <1>5 DEF Cohorts, Requests, Instants, Never, None, Gone

LEMMA Slots ==
    ASSUME NEW p \in Pairings
    PROVE  /\ SlotOf[p] \in Instants /\ SlotOf[p] \in Nat /\ RoomOf[p] \in Rooms \cup {Online}
           /\ TutorOf[p] \in Persons /\ RosterOf[p] \subseteq Learners /\ JoinersOf[p] \subseteq Learners
<1>1. SlotOf \in [Pairings -> Instants] /\ RoomOf \in [Pairings -> Rooms \cup {Online}]
      /\ TutorOf \in [Pairings -> Persons]
  BY PairingsAssumption
<1>2. SlotOf[p] \in Instants /\ RoomOf[p] \in Rooms \cup {Online} /\ TutorOf[p] \in Persons
  BY <1>1
<1>3. RosterOf[p] \subseteq Learners /\ JoinersOf[p] \subseteq Learners
  BY DEF Learners
<1>4. QED
  BY <1>2, <1>3, Ids

(* A number stands for one offer.                                             *)
Numbered(q, u) ==
    /\ u.n >= q.n
    /\ u.n = q.n => u.made = q.made /\ DOMAIN u.answer = DOMAIN q.answer

(* What no step changes about a request that exists.                          *)
Evolves(s, t) ==
    \A r \in Requests : LET q == s.request[r]
                            u == t.request[r] IN
        q.status # "NONE" =>
            /\ u.status # "NONE" /\ u.plan = q.plan /\ u.base = q.base /\ u.source = q.source
            /\ u.kind = q.kind /\ u.parent = q.parent /\ u.people = q.people
            /\ q.status \in Closed => u = q
            /\ Numbered(q, u)

(* Base and Tutor are defined for the plan, and no step changes them.         *)
Known(s, pl) == pl \in Plans /\ (pl \in Requests => s.request[pl].status # "NONE")

LEMMA BaseKept ==
    ASSUME NEW s, NEW t, Evolves(s, t), NEW pl, Known(s, pl)
    PROVE  Base(t, pl) = Base(s, pl) /\ Tutor(t, pl) = Tutor(s, pl) /\ Known(t, pl)
<1>1. Base(t, pl) = Base(s, pl)
  BY DEF Evolves, Known, Base, Plans
<1>2. QED
  BY <1>1 DEF Tutor, Known, Evolves

LEMMA Tutored ==
    ASSUME NEW s, NEW X, Rooted(s, X), NEW pl, Known(s, pl)
    PROVE  Base(s, pl) \in Pairings /\ Tutor(s, pl) \in Persons
<1>1. Base(s, pl) \in Pairings
  BY DEF Rooted, Known, Base, Plans
<1>2. QED
  BY <1>1, PairingsAssumption DEF Tutor

(* Who is concerned by a request never changes.                               *)
LEMMA AudienceKept ==
    ASSUME NEW s, NEW t, NEW X, Evolves(s, t), Rooted(s, X), NEW r \in Requests,
           s.request[r].status # "NONE"
    PROVE  Audience(t, t.request[r]) = Audience(s, s.request[r])
<1>1. Known(s, s.request[r].plan)
  BY DEF Rooted, Known
<1>2. Tutor(t, s.request[r].plan) = Tutor(s, s.request[r].plan)
  BY <1>1, BaseKept
<1>3. t.request[r].plan = s.request[r].plan /\ t.request[r].people = s.request[r].people
  BY DEF Evolves
<1>4. QED
  BY <1>2, <1>3 DEF Audience, Party

(* A lesson with the learners of u in it.                                     *)
LEMMA LiesKept ==
    ASSUME NEW s, NEW t, NEW X, NEW wk, NEW now, Evolves(s, t), Planned(s, X, wk, now),
           NEW c \in Cohorts, s.cohort[c].status # "NONE", t.cohort[c].plan = s.cohort[c].plan
    PROVE  Tutor(t, t.cohort[c].plan) = Tutor(s, s.cohort[c].plan)
<1>1. Known(s, s.cohort[c].plan)
  BY DEF Planned, Known
<1>2. QED
  BY <1>1, BaseKept

------------------------------------------------------------------------------
(* The lessons of t are those of s, with fewer people perhaps, but for c0,    *)
(* which is new or somewhere else, or has taken in the people of own.         *)
Carried(s, t, c) ==
    c \in Booked(s) /\ t.cohort[c] = s.cohort[c] /\ Lies(t, c) \subseteq Lies(s, c)

(* What c0 takes in, if it is held at all in t.                               *)
Grown(s, t, c0, own) ==
    \/ Lies(t, c0) \subseteq own
    \/ /\ c0 \in Booked(s) /\ t.cohort[c0] = s.cohort[c0]
       /\ Lies(t, c0) \subseteq own \cup Lies(s, c0)

Changes(s, t, c0, own) ==
    /\ \A c \in Booked(t) \ {c0} : Carried(s, t, c)
    /\ c0 \in Booked(t) => Grown(s, t, c0, own)

(* The people of own are free at the place of c0: of other lessons, of the    *)
(* offers on the table, and of weekly times that are still ahead.             *)
ClearOfLessons(s, t, c0, own) ==
    c0 \in Booked(t) =>
        \A c \in Booked(t) \ {c0} : s.cohort[c].at = t.cohort[c0].at =>
            ~Clash(t.cohort[c0].room, own, s.cohort[c].room, Lies(s, c))

ClearOfHolds(t, X, c0, own) ==
    c0 \in Booked(t) =>
        \A r \in Holds(t) \ X : LET q == t.request[r] IN
            t.cohort[c0].at = q.at =>
                \/ c0 = q.source \/ c0 \in Twins(t, q)
                \/ ~Clash(q.room, Audience(t, q), t.cohort[c0].room, own)

OwnWeek(p) == {TutorOf[p]} \cup RosterOf[p]
Ahead(wk, now) == {p \in Pairings : wk[p] = "CONFIRMED" /\ SlotOf[p] > now}

ClearOfWeek(t, c0, own, wk, now) ==
    c0 \in Booked(t) =>
        \A p \in Ahead(wk, now) : t.cohort[c0].at = SlotOf[p] =>
            ~Clash(RoomOf[p], OwnWeek(p), t.cohort[c0].room, own)

(* The holds of t are holds of s.                                             *)
Held(s, t, r) == LET q == s.request[r]
                     u == t.request[r] IN
    /\ u.at = q.at /\ u.room = q.room /\ u.kind = q.kind /\ u.plan = q.plan
    /\ u.source = q.source /\ u.parent = q.parent
    /\ Audience(t, u) = Audience(s, q)

HoldsCarried(s, t, X) ==
    \A r \in Holds(t) \ X : r \in Holds(s) /\ Held(s, t, r)

(* If own is free there, then t is as good as s: nobody is booked twice,      *)
(* ...                                                                        *)
LEMMA LessonsApart ==
    ASSUME NEW s, NEW t, NEW c0, NEW own, Apart(s), Changes(s, t, c0, own),
           ClearOfLessons(s, t, c0, own)
    PROVE  Apart(t)
<1>1. ASSUME NEW c \in Booked(t) \ {c0}, c0 \in Booked(t), t.cohort[c].at = t.cohort[c0].at
      PROVE  ~Clash(t.cohort[c0].room, Lies(t, c0), t.cohort[c].room, Lies(t, c))
  <2>1. c \in Booked(s) /\ t.cohort[c] = s.cohort[c] /\ Lies(t, c) \subseteq Lies(s, c)
    BY DEF Changes, Carried
  <2>2. ~Clash(t.cohort[c0].room, own, s.cohort[c].room, Lies(s, c))
    BY <1>1, <2>1 DEF ClearOfLessons
  <2>3. CASE Lies(t, c0) \subseteq own
    BY <2>1, <2>2, <2>3 DEF Clash
  <2>4. CASE /\ c0 \in Booked(s) /\ t.cohort[c0] = s.cohort[c0]
             /\ Lies(t, c0) \subseteq own \cup Lies(s, c0)
    <3>1. ~Clash(s.cohort[c].room, Lies(s, c), s.cohort[c0].room, Lies(s, c0))
      BY <1>1, <2>1, <2>4 DEF Apart
    <3>2. QED
      BY <2>1, <2>2, <2>4, <3>1 DEF Clash
  <2>5. QED
    BY <1>1, <2>3, <2>4 DEF Changes, Grown
<1>2. ASSUME NEW c \in Booked(t) \ {c0}, NEW d \in Booked(t) \ {c0}, c # d,
             t.cohort[c].at = t.cohort[d].at
      PROVE  ~Clash(t.cohort[c].room, Lies(t, c), t.cohort[d].room, Lies(t, d))
  <2>1. Carried(s, t, c) /\ Carried(s, t, d)
    BY DEF Changes
  <2>2. ~Clash(s.cohort[c].room, Lies(s, c), s.cohort[d].room, Lies(s, d))
    BY <1>2, <2>1 DEF Carried, Apart
  <2>3. QED
    BY <2>1, <2>2 DEF Carried, Clash
<1>3. \A a, x, b, y : Clash(a, x, b, y) = Clash(b, y, a, x)
  BY DEF Clash
<1>4. QED
  BY <1>1, <1>2, <1>3 DEF Apart

(* ... no offer loses its window, ...                                         *)
LEMMA HoldsReserved ==
    ASSUME NEW s, NEW t, NEW c0, NEW own, NEW X, Reserved(s, X), Changes(s, t, c0, own),
           HoldsCarried(s, t, X), ClearOfHolds(t, X, c0, own)
    PROVE  Reserved(t, X)
<1>1. ASSUME NEW r \in Holds(t) \ X, NEW c \in Booked(t),
             c \notin Twins(t, t.request[r]), c # t.request[r].source,
             t.cohort[c].at = t.request[r].at
      PROVE  ~Clash(t.request[r].room, Audience(t, t.request[r]), t.cohort[c].room, Lies(t, c))
  <2>1. r \in Holds(s) \ X /\ Held(s, t, r)
    BY DEF HoldsCarried
  <2>2. c \in Cohorts
    BY DEF Booked
  <2>3. ASSUME c \in Booked(s), t.cohort[c] = s.cohort[c]
        PROVE  ~Clash(s.request[r].room, Audience(s, s.request[r]), s.cohort[c].room, Lies(s, c))
    <3>1. c \notin Twins(s, s.request[r]) /\ c # s.request[r].source
      BY <1>1, <2>1, <2>2, <2>3 DEF Twins, Home, Held
    <3>2. QED
      BY <1>1, <2>1, <2>3, <3>1 DEF Reserved, Held
  <2>4. CASE c # c0
    <3>1. Carried(s, t, c)
      BY <2>4 DEF Changes
    <3>2. QED
      BY <2>1, <2>3, <3>1 DEF Carried, Held, Clash
  <2>5. CASE c = c0
    <3>1. ~Clash(t.request[r].room, Audience(t, t.request[r]), t.cohort[c].room, own)
      BY <1>1, <2>5 DEF ClearOfHolds
    <3>2. Grown(s, t, c, own)
      BY <2>5 DEF Changes
    <3>3. QED
      BY <2>1, <2>3, <3>1, <3>2 DEF Grown, Held, Clash
  <2>6. QED
    BY <2>4, <2>5
<1>2. ASSUME NEW r \in Holds(t) \ X, NEW o \in (Holds(t) \ X) \ {r},
             t.request[o].at = t.request[r].at
      PROVE  \/ Sibling(t.request[r], t.request[o])
             \/ ~Clash(t.request[r].room, Audience(t, t.request[r]),
                       t.request[o].room, Audience(t, t.request[o]))
  <2>1. r \in Holds(s) \ X /\ Held(s, t, r) /\ o \in Holds(s) \ X /\ Held(s, t, o)
    BY DEF HoldsCarried
  <2>2. s.request[o].at = s.request[r].at
    BY <1>2, <2>1 DEF Held
  <2>3. \/ Sibling(s.request[r], s.request[o])
        \/ ~Clash(s.request[r].room, Audience(s, s.request[r]),
                  s.request[o].room, Audience(s, s.request[o]))
    BY <2>1, <2>2 DEF Reserved
  <2>4. QED
    BY <2>1, <2>3 DEF Held, Sibling
<1>3. QED
  BY <1>1, <1>2 DEF Reserved

(* ... and no weekly time does.                                               *)
LEMMA WeekStaysFree ==
    ASSUME NEW s, NEW t, NEW c0, NEW own, NEW X, NEW wk, NEW now, NEW wk2, NEW now2,
           WeeklyFree(s, X, wk, now), Changes(s, t, c0, own), HoldsCarried(s, t, X),
           Ahead(wk2, now2) \subseteq Ahead(wk, now), ClearOfWeek(t, c0, own, wk2, now2)
    PROVE  WeeklyFree(t, X, wk2, now2)
<1>1. SUFFICES ASSUME NEW p \in Ahead(wk2, now2)
               PROVE  /\ \A c \in Booked(t) : t.cohort[c].at = SlotOf[p] =>
                            ~Clash(RoomOf[p], OwnWeek(p), t.cohort[c].room, Lies(t, c))
                      /\ \A r \in Holds(t) \ X : t.request[r].at = SlotOf[p] =>
                            ~Clash(RoomOf[p], OwnWeek(p), t.request[r].room,
                                   Audience(t, t.request[r]))
  BY DEF WeeklyFree, Ahead, OwnWeek
<1>2. /\ \A c \in Booked(s) : s.cohort[c].at = SlotOf[p] =>
            ~Clash(RoomOf[p], OwnWeek(p), s.cohort[c].room, Lies(s, c))
      /\ \A r \in Holds(s) \ X : s.request[r].at = SlotOf[p] =>
            ~Clash(RoomOf[p], OwnWeek(p), s.request[r].room, Audience(s, s.request[r]))
  BY DEF WeeklyFree, Ahead, OwnWeek
<1>3. ASSUME NEW c \in Booked(t), t.cohort[c].at = SlotOf[p]
      PROVE  ~Clash(RoomOf[p], OwnWeek(p), t.cohort[c].room, Lies(t, c))
  <2>1. CASE c # c0
    BY <1>2, <1>3, <2>1 DEF Changes, Carried, Clash
  <2>2. CASE c = c0
    <3>1. ~Clash(RoomOf[p], OwnWeek(p), t.cohort[c].room, own)
      BY <1>3, <2>2 DEF ClearOfWeek
    <3>2. Grown(s, t, c, own)
      BY <2>2 DEF Changes
    <3>3. QED
      BY <1>2, <1>3, <3>1, <3>2 DEF Grown, Clash
  <2>3. QED
    BY <2>1, <2>2
<1>4. ASSUME NEW r \in Holds(t) \ X, t.request[r].at = SlotOf[p]
      PROVE  ~Clash(RoomOf[p], OwnWeek(p), t.request[r].room, Audience(t, t.request[r]))
  BY <1>2, <1>4 DEF HoldsCarried, Held
<1>5. QED
  BY <1>3, <1>4

------------------------------------------------------------------------------
(* A request that is agreed: its people take their seats in lesson d.         *)
MovedRow(q, target) ==
    [status |-> "SCHEDULED", plan |-> target, at |-> q.at, room |-> q.room,
     moved |-> q.kind # "EXTRA"]

(* The lesson that the people of q leave behind.                              *)
LeftRow(s, q) ==
    IF q.kind = "EXTRA" THEN s.cohort[q.source]
    ELSE [s.cohort[q.source] EXCEPT !.status =
             IF Roster(s, q.source) \subseteq q.people THEN "CANCELLED" ELSE "SCHEDULED"]

(* What Moved makes of the rows when it settles request r at lesson d.        *)
Outcome(s, t, r, d) == LET q == s.request[r] IN
    /\ t.request = [s.request EXCEPT ![r] = [q EXCEPT !.status = "ACCEPTED"]]
    /\ d \in Cohorts
    /\ \/ d \in Twins(s, q) /\ t.cohort[d] = s.cohort[d]
       \/ Twins(s, q) = {} /\ Whole(s, q) /\ d = q.source /\ t.cohort[d] = MovedRow(q, Target(s, r))
       \/ /\ Twins(s, q) = {} /\ ~Whole(s, q) /\ d # q.source
          /\ s.cohort[d].status = "NONE" /\ t.cohort[d] = MovedRow(q, Target(s, r))
    /\ q.source # d => t.cohort[q.source] = LeftRow(s, q)
    /\ \A c \in Cohorts \ {d, q.source} : t.cohort[c] = s.cohort[c]
    /\ \A pl \in Plans, l \in Learners :
          t.seat[pl][l] = IF pl = Target(s, r) /\ l \in q.people THEN d ELSE s.seat[pl][l]
    /\ Typed(t)

(* When Finished agrees on r by a clock reading at.                           *)
CanAgree(s, X, now, r, at) ==
    /\ Good(s, X, weekly, now)
    /\ r \in Requests \ X /\ s.request[r].status = "PENDING"
    /\ Movable(s.cohort[s.request[r].source], at)
    /\ CanTake(s, r, s.request[r], FALSE, at)
    /\ Unused(s.cohort) # {}

(* The least element of a set of numbers.                                     *)
LEMMA LeastNatural ==
    ASSUME NEW T \in SUBSET Nat, T # {}
    PROVE  \E n \in T : \A m \in T : n <= m
<1>1. \E n \in T : \A m \in T : ~(<<m, n>> \in OpToRel(<, Nat))
  BY NatLessThanWellFounded, WFMin
<1>2. \A m, n \in Nat : m < n => <<m, n>> \in OpToRel(<, Nat)
  BY DEF OpToRel
<1>3. PICK n \in T : \A m \in T : ~(<<m, n>> \in OpToRel(<, Nat))
  BY <1>1
<1>4. \A m \in T : ~(m < n)
  BY <1>2, <1>3
<1>5. \A m \in T : n <= m
  BY <1>4
<1>6. QED
  BY <1>5

LEMMA LeastIn ==
    ASSUME NEW T \in SUBSET Nat, T # {}
    PROVE  Min(T) \in T
<1>1. \E n \in T : \A m \in T : n <= m
  BY LeastNatural
<1>2. QED
  BY <1>1, Zenon DEF Min

(* What is known of a request that is on the table.                           *)
LEMMA OnTheTable ==
    ASSUME NEW s, NEW X, NEW wk, NEW now, Good(s, X, wk, now), NEW r \in Requests \ X,
           s.request[r].status \in Open
    PROVE  LET q == s.request[r] IN
           /\ q \in RequestRows /\ q.source \in Cohorts /\ q.plan \in Plans
           /\ q.people \subseteq Learners /\ q.people # {}
           /\ s.cohort[q.source].status \in {"SCHEDULED", "RECORDED"}
           /\ s.cohort[q.source].plan = q.plan
           /\ \A l \in q.people : s.seat[q.plan][l] = q.source
           /\ q.people \subseteq Roster(s, q.source)
           /\ q.kind = "EXTRA" => \A l \in q.people : s.seat[Target(s, r)][l] \notin Cohorts
           /\ Target(s, r) \in Plans
<1> DEFINE q == s.request[r]
<1>1. q \in RequestRows /\ q.status # "NONE"
  BY DEF Good, Typed, Open
<1>2. q.source \in Cohorts /\ q.plan \in Plans /\ q.people \subseteq Learners /\ q.people # {}
  BY <1>1 DEF Good, Rooted, RequestRows
<1>3. Fresh(s, r)
  BY <1>1 DEF Good, Negotiated
<1>4. q.people \subseteq Roster(s, q.source)
  BY <1>2, <1>3 DEF Fresh, Roster
<1>5. Target(s, r) \in Plans
  BY <1>1, <1>2 DEF Target, Plans, RequestRows
<1>6. QED
  BY <1>1, <1>2, <1>3, <1>4, <1>5 DEF Fresh

(* Moved has one of three outcomes: the people of the request join a twin,    *)
(* move the source, or get a lesson of their own.                             *)
LEMMA Places ==
    ASSUME NEW s, NEW X, NEW now, NEW r, NEW at, CanAgree(s, X, now, r, at)
    PROVE  \E d : Outcome(s, Close(Moved(s, r), r, "ACCEPTED"), r, d)
<1> DEFINE q == s.request[r]
           target == IF q.kind # "EXTRA" THEN q.plan ELSE IF q.parent # None THEN q.parent ELSE r
           twins == Twins(s, q)
           c == IF twins # {} THEN Min(twins) ELSE IF Whole(s, q) THEN q.source ELSE Min(Unused(s.cohort))
           left == LeftRow(s, q)
           C == [[s.cohort EXCEPT ![q.source] = left]
                      EXCEPT ![c] = IF c \in twins THEN s.cohort[c] ELSE MovedRow(q, target)]
           T == [s.seat EXCEPT ![target] = [l \in Learners |-> IF l \in q.people THEN c ELSE s.seat[target][l]]]
           R == [s.request EXCEPT ![r] = [q EXCEPT !.status = "ACCEPTED"]]
           t == Close(Moved(s, r), r, "ACCEPTED")
<1>1. Typed(s) /\ r \in Requests /\ q \in RequestRows /\ q.source \in Cohorts
      /\ q.people \subseteq Learners /\ target \in Plans /\ q.status = "PENDING"
      /\ s.cohort[q.source].status = "SCHEDULED"
  BY OnTheTable DEF CanAgree, Good, Open, Movable, Target
<1>2. twins \subseteq Cohorts /\ Unused(s.cohort) \subseteq Cohorts /\ Unused(s.cohort) # {}
  BY <1>1 DEF CanAgree, Twins, Unused, Typed
<1>3. Min(Unused(s.cohort)) \in Unused(s.cohort)
  BY <1>2, LeastIn, Ids
<1>4. twins # {} => Min(twins) \in twins
  BY <1>2, LeastIn, Ids
<1>5. c \in Cohorts
  BY SMTT(60), <1>1, <1>2, <1>3, <1>4
<1>6. q.source # c \/ (twins = {} /\ Whole(s, q))
  BY <1>1, <1>3, <1>4 DEF Twins, Unused
<1>7. left = (IF q.kind = "EXTRA" \/ c = q.source THEN s.cohort[q.source]
              ELSE [s.cohort[q.source] EXCEPT !.status =
                        IF Roster(s, q.source) \subseteq q.people THEN "CANCELLED" ELSE "SCHEDULED"])
      \/ c = q.source
  BY DEF LeftRow
<1>8. Moved(s, r) = [cohort |-> C, seat |-> T, request |-> s.request]
  <2> DEFINE placed == MovedRow(q, target)
             left2 == IF q.kind = "EXTRA" \/ c = q.source THEN s.cohort[q.source]
                      ELSE [s.cohort[q.source] EXCEPT !.status =
                              IF Roster(s, q.source) \subseteq q.people THEN "CANCELLED" ELSE "SCHEDULED"]
             D == [[s.cohort EXCEPT ![q.source] = left2] EXCEPT ![c] = IF c \in twins THEN s.cohort[c] ELSE placed]
  <2>1. Moved(s, r) = [s EXCEPT !.cohort[q.source] = left2,
                                !.cohort[c] = IF c \in twins THEN s.cohort[c] ELSE placed,
                                !.seat[target] = [l \in Learners |-> IF l \in q.people THEN c ELSE @[l]]]
    BY DEF Moved, MovedRow
  <2>2. C = D
    <3>1. CASE c = q.source
      <4> HIDE DEF left, left2, twins, c, q
      <4>1. QED
        BY <1>1, <1>5, <3>1 DEF Typed
    <3>2. CASE c # q.source
      <4>1. left = left2
        BY <3>2 DEF LeftRow
      <4>2. QED
        BY <4>1
    <3>3. QED
      BY <3>1, <3>2
  <2> HIDE DEF left2, placed, twins, c, q, target, C
  <2>3. QED
    BY <1>1, <2>1, <2>2 DEF Typed
<1>9. t = [cohort |-> C, seat |-> T, request |-> R]
  <2> HIDE DEF C, T
  <2>1. QED
    BY <1>1, <1>8 DEF Close, Typed
<1>10. MovedRow(q, target) \in CohortRows /\ left \in CohortRows
  <2>1. q.at \in Instants /\ q.room \in Rooms \cup {Online}
    BY <1>1 DEF RequestRows
  <2>2. s.cohort[q.source] \in CohortRows
    BY <1>1 DEF Typed
  <2> HIDE DEF q, target
  <2>3. MovedRow(q, target) \in CohortRows
    BY <1>1, <2>1 DEF MovedRow, CohortRows
  <2>4. [s.cohort[q.source] EXCEPT !.status = "CANCELLED"] \in CohortRows
    BY <2>2 DEF CohortRows
  <2>5. [s.cohort[q.source] EXCEPT !.status = "SCHEDULED"] \in CohortRows
    BY <2>2 DEF CohortRows
  <2>6. left \in CohortRows
    BY <2>2, <2>4, <2>5 DEF LeftRow
  <2>7. QED
    BY <2>3, <2>6
<1>11. /\ C \in [Cohorts -> CohortRows]
       /\ C[c] = IF c \in twins THEN s.cohort[c] ELSE MovedRow(q, target)
       /\ c # q.source => C[q.source] = left
       /\ \A k \in Cohorts \ {c, q.source} : C[k] = s.cohort[k]
  <2> HIDE DEF c, q, left, twins, target
  <2>1. QED
    BY <1>1, <1>5, <1>10 DEF Typed
<1>12. /\ T \in [Plans -> [Learners -> Cohorts \cup {None, Gone}]]
       /\ \A pl \in Plans, l \in Learners :
             T[pl][l] = IF pl = target /\ l \in q.people THEN c ELSE s.seat[pl][l]
  <2> HIDE DEF c, q, target
  <2>1. QED
    BY <1>1, <1>5 DEF Typed
<1>13. R \in [Requests -> RequestRows]
  <2>1. [q EXCEPT !.status = "ACCEPTED"] \in RequestRows
    BY <1>1 DEF RequestRows, Closed
  <2>2. QED
    BY <1>1, <2>1 DEF Typed
<1>14. Typed(t)
  <2> HIDE DEF C, T, R, t
  <2>1. QED
    BY <1>9, <1>11, <1>12, <1>13 DEF Typed
<1>15. /\ t.request = R /\ t.cohort = C /\ t.seat = T
  <2> HIDE DEF C, T, R, t
  <2>1. QED
    BY <1>9
<1>16. \/ c \in twins
       \/ twins = {} /\ Whole(s, q) /\ c = q.source
       \/ twins = {} /\ ~Whole(s, q) /\ c # q.source /\ s.cohort[c].status = "NONE"
  BY <1>3, <1>4, <1>6 DEF Unused
<1>17. target = Target(s, r)
  BY DEF Target
<1>18. Outcome(s, t, r, c)
  <2> HIDE DEF C, T, R, t, c, left, twins, target, q
  <2>1. c \in twins => t.cohort[c] = s.cohort[c]
    BY <1>11, <1>15
  <2>2. c \notin twins => t.cohort[c] = MovedRow(q, Target(s, r))
    BY <1>11, <1>15, <1>17
  <2>3. q.source # c => t.cohort[q.source] = LeftRow(s, q)
    BY <1>11, <1>15 DEF left
  <2>4. \A k \in Cohorts \ {c, q.source} : t.cohort[k] = s.cohort[k]
    BY <1>11, <1>15
  <2>5. \A pl \in Plans, l \in Learners :
          t.seat[pl][l] = IF pl = Target(s, r) /\ l \in q.people THEN c ELSE s.seat[pl][l]
    BY <1>12, <1>15, <1>17
  <2>6. t.request = [s.request EXCEPT ![r] = [q EXCEPT !.status = "ACCEPTED"]]
    BY <1>15 DEF R
  <2>7. QED
    BY <1>5, <1>14, <1>16, <2>1, <2>2, <2>3, <2>4, <2>5, <2>6 DEF Outcome, q, twins
<1>19. QED
  BY <1>18

(* An agreement writes its request and nobody else's seats.                   *)
LEMMA Deal ==
    ASSUME NEW s, NEW X, NEW now, NEW r, NEW at, CanAgree(s, X, now, r, at),
           NEW t, NEW d, Outcome(s, t, r, d)
    PROVE  LET q == s.request[r] IN
           /\ d \in Cohorts /\ q.source \in Booked(s)
           /\ t.cohort[d].status = "SCHEDULED" /\ t.cohort[d].plan = Target(s, r)
           /\ t.cohort[d].at = q.at /\ t.cohort[d].room = q.room
           /\ s.cohort[d].status # "NONE" =>
                 s.cohort[d].plan = Target(s, r) /\ s.cohort[d].status = "SCHEDULED"
           /\ \A c \in Cohorts \ {d} :
                 /\ t.cohort[c].plan = s.cohort[c].plan /\ t.cohort[c].at = s.cohort[c].at
                 /\ t.cohort[c].status = "NONE" <=> s.cohort[c].status = "NONE"
                 /\ t.cohort[c].status = "RECORDED" <=> s.cohort[c].status = "RECORDED"
                 /\ t.cohort[c].status = "SCHEDULED" => t.cohort[c] = s.cohort[c]
           /\ q.source # d /\ t.cohort[q.source].status = "SCHEDULED" =>
                 ~Vacates(s, q) /\ s.cohort[q.source].at # q.at
<1> DEFINE q == s.request[r]
<1>1. Good(s, X, weekly, now) /\ r \in Requests \ X /\ q.status \in Open
  BY DEF CanAgree, Open
<1>2. /\ q \in RequestRows /\ q.source \in Cohorts /\ q.plan \in Plans
      /\ q.people \subseteq Learners /\ q.people # {}
      /\ s.cohort[q.source].plan = q.plan
      /\ q.people \subseteq Roster(s, q.source)
      /\ s.cohort[q.source].status = "SCHEDULED" /\ Typed(s)
  BY <1>1, OnTheTable DEF CanAgree, Movable, Good
<1>3. q.source \in Booked(s)
  BY <1>2 DEF Booked
<1>4. d \in Twins(s, q) => /\ d \in Cohorts /\ s.cohort[d].status = "SCHEDULED"
                           /\ s.cohort[d].plan = Target(s, r)
                           /\ s.cohort[d].at = q.at /\ s.cohort[d].room = q.room
  <2>1. SUFFICES ASSUME d \in Twins(s, q)
                 PROVE  s.cohort[d].plan = Target(s, r)
    BY DEF Twins
  <2>2. s.cohort[d].plan = Home(q) /\ d \in Cohorts /\ s.cohort[d].status = "SCHEDULED"
    BY <2>1 DEF Twins
  <2>3. s.cohort[d].plan \in Plans
    BY <1>1, <2>2 DEF Good, Planned
  <2>4. None \notin Plans
    BY Ids DEF Plans
  <2>5. QED
    BY <2>2, <2>3, <2>4 DEF Home, Target
<1>5. MovedRow(q, Target(s, r)).status = "SCHEDULED" /\ MovedRow(q, Target(s, r)).plan = Target(s, r)
      /\ MovedRow(q, Target(s, r)).at = q.at /\ MovedRow(q, Target(s, r)).room = q.room
  BY DEF MovedRow
<1>6. d = q.source /\ Whole(s, q) => s.cohort[d].plan = Target(s, r)
  BY <1>2 DEF Whole, Target
<1>7. /\ d \in Cohorts
      /\ \/ d \in Twins(s, q) /\ t.cohort[d] = s.cohort[d]
         \/ Whole(s, q) /\ d = q.source /\ t.cohort[d] = MovedRow(q, Target(s, r))
         \/ s.cohort[d].status = "NONE" /\ t.cohort[d] = MovedRow(q, Target(s, r))
      /\ q.source # d => t.cohort[q.source] = LeftRow(s, q)
      /\ \A c \in Cohorts \ {d, q.source} : t.cohort[c] = s.cohort[c]
  BY DEF Outcome
<1>8. /\ t.cohort[d].status = "SCHEDULED" /\ t.cohort[d].plan = Target(s, r)
      /\ t.cohort[d].at = q.at /\ t.cohort[d].room = q.room
      /\ s.cohort[d].status # "NONE" =>
            s.cohort[d].plan = Target(s, r) /\ s.cohort[d].status = "SCHEDULED"
  <2> HIDE DEF q
  <2>1. QED
    BY <1>2, <1>4, <1>5, <1>6, <1>7
<1>9. /\ LeftRow(s, q).plan = s.cohort[q.source].plan /\ LeftRow(s, q).at = s.cohort[q.source].at
      /\ LeftRow(s, q).status \in {"SCHEDULED", "CANCELLED"}
      /\ LeftRow(s, q).status = "SCHEDULED" => LeftRow(s, q) = s.cohort[q.source] /\ ~Vacates(s, q)
  BY <1>2 DEF LeftRow, Typed, CohortRows, Vacates
<1>10. \A c \in Cohorts \ {d} :
                 /\ t.cohort[c].plan = s.cohort[c].plan /\ t.cohort[c].at = s.cohort[c].at
                 /\ t.cohort[c].status = "NONE" <=> s.cohort[c].status = "NONE"
                 /\ t.cohort[c].status = "RECORDED" <=> s.cohort[c].status = "RECORDED"
                 /\ t.cohort[c].status = "SCHEDULED" => t.cohort[c] = s.cohort[c]
  <2> HIDE DEF q
  <2>1. QED
    BY <1>2, <1>7, <1>9
<1>11. q.source # d /\ t.cohort[q.source].status = "SCHEDULED" =>
                 ~Vacates(s, q) /\ s.cohort[q.source].at # q.at
  BY <1>3, <1>7, <1>9 DEF CanAgree, CanTake
<1>12. QED
  BY <1>3, <1>7, <1>8, <1>10, <1>11

(* Rooted survives every step that adds no request.                           *)
LEMMA RootedKept ==
    ASSUME NEW s, NEW t, NEW X, Rooted(s, X), Evolves(s, t), Typed(s),
           \A r \in Requests : t.request[r].status # "NONE" => s.request[r].status # "NONE"
    PROVE  Rooted(t, X)
<1>1. SUFFICES ASSUME NEW r \in Requests, t.request[r].status # "NONE"
               PROVE  LET q == t.request[r] IN
        /\ q.plan \in Plans /\ q.base \in Pairings /\ q.source \in Cohorts
        /\ q.people # {}
        /\ q.base = Base(t, q.plan)
        /\ q.plan \in Requests => t.request[q.plan].status # "NONE"
        /\ q.parent # None => LET o == t.request[q.parent] IN
              /\ o.status = "SPLIT" \/ q.parent \in X
              /\ o.status # "NONE"
              /\ o.plan = q.plan /\ o.source = q.source /\ o.kind = q.kind
  BY DEF Rooted
<1> DEFINE q == s.request[r]
           u == t.request[r]
<1>2. q.status # "NONE" /\ u.plan = q.plan /\ u.base = q.base /\ u.source = q.source
      /\ u.kind = q.kind /\ u.parent = q.parent /\ u.people = q.people
  BY <1>1 DEF Evolves
<1>3. q.plan \in Plans /\ q.base \in Pairings /\ q.source \in Cohorts /\ q.people # {}
      /\ q.base = Base(s, q.plan) /\ (q.plan \in Requests => s.request[q.plan].status # "NONE")
  BY <1>2 DEF Rooted
<1>4. Base(t, q.plan) = Base(s, q.plan) /\ Known(t, q.plan)
  BY <1>3, BaseKept DEF Known
<1>5. ASSUME q.parent # None
      PROVE  LET o == t.request[q.parent] IN
              /\ o.status = "SPLIT" \/ q.parent \in X
              /\ o.status # "NONE"
              /\ o.plan = q.plan /\ o.source = q.source /\ o.kind = q.kind
  <2>1. LET o == s.request[q.parent] IN
              /\ o.status = "SPLIT" \/ q.parent \in X
              /\ o.status # "NONE"
              /\ o.plan = q.plan /\ o.source = q.source /\ o.kind = q.kind
    BY <1>2, <1>5 DEF Rooted
  <2>2. q.parent \in Requests
    BY <1>5 DEF Typed, RequestRows
  <2>3. QED
    BY <2>1, <2>2 DEF Evolves, Closed
<1>6. QED
  BY <1>2, <1>3, <1>4, <1>5 DEF Known

LEMMA OutEvolves ==
    ASSUME NEW s, NEW X, NEW now, NEW r, NEW at, CanAgree(s, X, now, r, at),
           NEW t, NEW d, Outcome(s, t, r, d)
    PROVE  /\ Evolves(s, t) /\ Typed(t) /\ Rooted(t, X)
           /\ \A o \in Requests \ {r} : t.request[o] = s.request[o]
           /\ LET q == s.request[r]
                  u == t.request[r]
              IN  /\ u.status = "ACCEPTED" /\ u.n = q.n /\ u.made = q.made /\ u.answer = q.answer
                  /\ u.at = q.at /\ u.room = q.room /\ u.cutoff = q.cutoff
<1>1. /\ Typed(s) /\ Rooted(s, X) /\ r \in Requests /\ s.request[r].status = "PENDING"
      /\ Typed(t) /\ t.request = [s.request EXCEPT ![r] = [s.request[r] EXCEPT !.status = "ACCEPTED"]]
  BY DEF CanAgree, Good, Outcome
<1>2. /\ \A o \in Requests \ {r} : t.request[o] = s.request[o]
      /\ t.request[r] = [s.request[r] EXCEPT !.status = "ACCEPTED"]
  BY <1>1 DEF Typed
<1>3. Evolves(s, t)
  <2>1. s.request[r] \in RequestRows
    BY <1>1 DEF Typed
  <2>2. \A o \in Requests : Numbered(s.request[o], t.request[o])
    <3>1. \A o \in Requests : s.request[o].n \in Nat
      BY <1>1, Ids DEF Typed, RequestRows
    <3>2. \A o \in Requests : t.request[o].n = s.request[o].n /\ t.request[o].made = s.request[o].made
                              /\ t.request[o].answer = s.request[o].answer
      BY <1>2, <2>1 DEF RequestRows
    <3>3. QED
      BY <3>1, <3>2 DEF Numbered
  <2>3. QED
    BY <1>1, <1>2, <2>1, <2>2 DEF Evolves, Closed, RequestRows
<1>4. Rooted(t, X)
  <2>1. \A o \in Requests : t.request[o].status # "NONE" => s.request[o].status # "NONE"
    BY <1>1, <1>2
  <2>2. QED
    BY <1>1, <1>3, <2>1, RootedKept
<1>5. LET q == s.request[r]
          u == t.request[r]
      IN  /\ u.status = "ACCEPTED" /\ u.n = q.n /\ u.made = q.made /\ u.answer = q.answer
          /\ u.at = q.at /\ u.room = q.room /\ u.cutoff = q.cutoff
  <2>1. s.request[r] \in RequestRows
    BY <1>1 DEF Typed
  <2>2. QED
    BY <1>2, <2>1 DEF RequestRows
<1>6. QED
  BY <1>1, <1>2, <1>3, <1>4, <1>5

(* The people of an agreement.                                                *)
LEMMA Gathered ==
    ASSUME NEW s, NEW X, NEW now, NEW r, NEW at, CanAgree(s, X, now, r, at),
           NEW t, NEW d, Outcome(s, t, r, d)
    PROVE  LET q == s.request[r] IN
           /\ \A c \in Cohorts \ {d} : Roster(t, c) \subseteq Roster(s, c)
           /\ \A c \in Booked(t) \ {d} : Carried(s, t, c)
           /\ Tutor(t, Target(s, r)) = Tutor(s, q.plan)
           /\ Grown(s, t, d, Audience(s, q))
<1> DEFINE q == s.request[r]
<1>1. Good(s, X, weekly, now) /\ r \in Requests \ X /\ q.status \in Open /\ q.status # "NONE"
  BY DEF CanAgree, Open
<1>2. /\ q \in RequestRows /\ q.source \in Cohorts /\ q.plan \in Plans
      /\ q.people \subseteq Learners /\ Target(s, r) \in Plans /\ Typed(s)
  BY <1>1, OnTheTable DEF Good
<1>3. Evolves(s, t) /\ Typed(t)
  BY OutEvolves
<1>4. \A pl \in Plans, l \in Learners :
          t.seat[pl][l] = IF pl = Target(s, r) /\ l \in q.people THEN d ELSE s.seat[pl][l]
  BY DEF Outcome
<1>5. /\ d \in Cohorts /\ q.source \in Booked(s)
      /\ t.cohort[d].status = "SCHEDULED" /\ t.cohort[d].plan = Target(s, r)
      /\ s.cohort[d].status # "NONE" => s.cohort[d].plan = Target(s, r) /\ s.cohort[d].status = "SCHEDULED"
      /\ \A c \in Cohorts \ {d} :
                 /\ t.cohort[c].plan = s.cohort[c].plan
                 /\ t.cohort[c].status = "NONE" <=> s.cohort[c].status = "NONE"
                 /\ t.cohort[c].status = "SCHEDULED" => t.cohort[c] = s.cohort[c]
  BY Deal
<1>6. \A c \in Cohorts : s.cohort[c].status # "NONE" => s.cohort[c].plan \in Plans
  BY <1>1 DEF Good, Planned
<1>7. ASSUME NEW c \in Cohorts \ {d} PROVE Roster(t, c) \subseteq Roster(s, c)
  <2>1. CASE s.cohort[c].status = "NONE"
    BY <1>5, <2>1 DEF Roster
  <2>2. CASE s.cohort[c].status # "NONE"
    <3>1. \A l \in Learners : t.seat[t.cohort[c].plan][l] = c => s.seat[s.cohort[c].plan][l] = c
      BY <1>4, <1>5, <1>6, <2>2
    <3>2. QED
      BY <1>5, <2>2, <3>1 DEF Roster
  <2>3. QED
    BY <2>1, <2>2
<1>8. ASSUME NEW c \in Booked(t) \ {d} PROVE Carried(s, t, c)
  <2>1. c \in Cohorts /\ t.cohort[c].status = "SCHEDULED" /\ Roster(t, c) # {}
    BY DEF Booked
  <2>2. t.cohort[c] = s.cohort[c] /\ Roster(t, c) \subseteq Roster(s, c)
    BY <1>5, <1>7, <2>1
  <2>3. c \in Booked(s)
    BY <2>1, <2>2 DEF Booked
  <2>4. Tutor(t, t.cohort[c].plan) = Tutor(s, s.cohort[c].plan)
    BY <1>1, <1>3, <2>1, <2>2, LiesKept DEF Good
  <2>5. QED
    BY <2>2, <2>3, <2>4 DEF Carried, Lies, Party
<1>9. Base(s, Target(s, r)) = Base(s, q.plan) /\ Known(s, Target(s, r))
  <2>1. /\ q.base = Base(s, q.plan) /\ (q.plan \in Requests => s.request[q.plan].status # "NONE")
        /\ q.parent \in Requests \cup {None}
        /\ q.parent # None => /\ s.request[q.parent].status # "NONE"
                              /\ s.request[q.parent].plan = q.plan
    BY <1>1, <1>2 DEF Good, Rooted, RequestRows
  <2>2. CASE q.kind # "EXTRA"
    BY <1>2, <2>1, <2>2 DEF Target, Known
  <2>3. CASE q.kind = "EXTRA" /\ q.parent = None
    BY <1>1, <1>2, <2>1, <2>3, Ids DEF Target, Known, Base
  <2>4. CASE q.kind = "EXTRA" /\ q.parent # None
    <3>1. s.request[q.parent].base = Base(s, q.plan)
      BY <1>1, <2>1, <2>4 DEF Good, Rooted
    <3>2. QED
      BY <1>2, <2>1, <2>4, <3>1, Ids DEF Target, Known, Base
  <2>5. QED
    BY <2>2, <2>3, <2>4
<1>10. Tutor(t, Target(s, r)) = Tutor(s, q.plan)
  BY <1>3, <1>9, BaseKept DEF Tutor
<1>11. Grown(s, t, d, Audience(s, q))
  <2>1. Lies(t, d) = {Tutor(s, q.plan)} \cup Roster(t, d)
    BY <1>5, <1>10 DEF Lies, Party
  <2>2. \A l \in Roster(t, d) : l \in q.people \/ s.seat[Target(s, r)][l] = d
    BY <1>2, <1>4, <1>5 DEF Roster
  <2>3. \A l \in Roster(t, d) : l \in q.people \/ l \in Roster(s, d)
    <3>1. CASE s.cohort[d].status = "NONE"
      <4>1. \A l \in Learners : s.seat[Target(s, r)][l] # d
        BY <1>1, <1>2, <1>5, <3>1 DEF Good, Seated
      <4>2. QED
        BY <2>2, <4>1, <1>2 DEF Roster
    <3>2. CASE s.cohort[d].status # "NONE"
      BY <1>5, <2>2, <3>2 DEF Roster
    <3>3. QED
      BY <3>1, <3>2
  <2>4. Audience(s, q) = {Tutor(s, q.plan)} \cup q.people
    BY DEF Audience, Party
  <2>5. CASE Roster(s, d) \subseteq q.people
    BY <2>1, <2>3, <2>4, <2>5 DEF Grown
  <2>6. CASE ~(Roster(s, d) \subseteq q.people)
    <3>1. s.cohort[d].status = "SCHEDULED" /\ d \in Booked(s)
      BY <1>5, <2>6 DEF Roster, Booked
    <3>2. t.cohort[d] = s.cohort[d]
      BY <2>6, <3>1 DEF Outcome, Whole
    <3>3. Lies(s, d) = {Tutor(s, s.cohort[d].plan)} \cup Roster(s, d)
      BY DEF Lies, Party
    <3>4. QED
      BY SMTT(60), <2>1, <2>3, <2>4, <3>1, <3>2, <3>3 DEF Grown
  <2>7. QED
    BY <2>5, <2>6
<1>12. QED
  BY <1>7, <1>8, <1>10, <1>11

(* An agreement is reached only where own is free.                            *)
LEMMA Clears ==
    ASSUME NEW s, NEW X, NEW now, NEW r, NEW at, CanAgree(s, X, now, r, at),
           NEW t, NEW d, Outcome(s, t, r, d)
    PROVE  LET own == Audience(s, s.request[r]) IN
           /\ ClearOfLessons(s, t, d, own)
           /\ ClearOfHolds(t, X, d, own)
           /\ ClearOfWeek(t, d, own, weekly, now)
           /\ HoldsCarried(s, t, X)
<1> DEFINE q == s.request[r]
           own == Audience(s, q)
<1>1. Good(s, X, weekly, now) /\ r \in Requests \ X /\ q.status \in Open /\ q.status # "NONE"
  BY DEF CanAgree, Open
<1>2. /\ q \in RequestRows /\ q.source \in Cohorts /\ q.plan \in Plans
      /\ s.cohort[q.source].status \in {"SCHEDULED", "RECORDED"} /\ s.cohort[q.source].plan = q.plan
      /\ Target(s, r) \in Plans /\ Typed(s)
  BY <1>1, OnTheTable DEF Good
<1>3. /\ Evolves(s, t) /\ Typed(t)
      /\ \A o \in Requests \ {r} : t.request[o] = s.request[o]
      /\ t.request[r].status = "ACCEPTED"
  BY OutEvolves
<1>4. /\ d \in Cohorts /\ q.source \in Booked(s)
      /\ t.cohort[d].status = "SCHEDULED" /\ t.cohort[d].plan = Target(s, r)
      /\ t.cohort[d].at = q.at /\ t.cohort[d].room = q.room
      /\ q.source # d /\ t.cohort[q.source].status = "SCHEDULED" => ~Vacates(s, q)
  BY Deal
<1>5. CanTake(s, r, q, FALSE, at)
  BY DEF CanAgree
<1>6. own = Party(s, q.plan, q.people)
  BY DEF Audience
<1>7. /\ \A c \in Booked(s) \ Twins(s, q) : s.cohort[c].at = q.at =>
            \/ c = q.source /\ Vacates(s, q)
            \/ ~Clash(q.room, own, s.cohort[c].room, Lies(s, c))
      /\ \A o \in Holds(s) \ {r} : s.request[o].at = q.at =>
            \/ Sibling(q, s.request[o])
            \/ ~Clash(q.room, own, s.request[o].room, Audience(s, s.request[o]))
      /\ ClearOfWeekly(q, own)
  <2> HIDE DEF q, own
  <2>1. QED
    BY <1>5, <1>6 DEF CanTake, Lies
<1>8. \A a, x, b, y : Clash(a, x, b, y) = Clash(b, y, a, x)
  BY DEF Clash
<1>9. \A c \in Booked(t) \ {d} : Carried(s, t, c)
  BY Gathered
<1>10. ClearOfLessons(s, t, d, own)
  <2>1. SUFFICES ASSUME NEW c \in Booked(t) \ {d}, s.cohort[c].at = q.at
                 PROVE  ~Clash(q.room, own, s.cohort[c].room, Lies(s, c))
    BY <1>4 DEF ClearOfLessons
  <2>2. c \in Booked(s) /\ t.cohort[c] = s.cohort[c] /\ c \in Cohorts
        /\ t.cohort[c].status = "SCHEDULED"
    BY <1>9 DEF Carried, Booked
  <2>3. c \notin Twins(s, q)
    <3>1. SUFFICES ASSUME c \in Twins(s, q) PROVE FALSE
      OBVIOUS
    <3>2. d \in Twins(s, q)
      BY <3>1 DEF Outcome
    <3>3. QED
      BY <1>1, <3>1, <3>2, <2>1 DEF Good, OnePerPlace, Twins
  <2>4. ~(c = q.source /\ Vacates(s, q))
    BY <1>4, <2>2
  <2>5. QED
    BY <1>7, <2>1, <2>2, <2>3, <2>4
<1>11. ASSUME NEW o \in Holds(t) \ X
       PROVE  /\ o \in Requests \ {r} /\ o \in Holds(s) \ X /\ t.request[o] = s.request[o]
              /\ Audience(t, t.request[o]) = Audience(s, s.request[o])
  <2>1. o \in Requests \ {r} /\ t.request[o] = s.request[o]
    BY <1>1, <1>2, <1>3 DEF Holds, RequestRows, Typed
  <2>2. o \in Holds(s) \ X /\ s.request[o].status # "NONE"
    BY <2>1 DEF Holds
  <2>3. Audience(t, t.request[o]) = Audience(s, s.request[o])
    BY <1>1, <1>3, <2>1, <2>2, AudienceKept DEF Good
  <2>4. QED
    BY <2>1, <2>2, <2>3
<1>12. HoldsCarried(s, t, X)
  BY <1>11 DEF HoldsCarried, Held
<1>13. ClearOfHolds(t, X, d, own)
  <2>1. SUFFICES ASSUME NEW o \in Holds(t) \ X, t.request[o].at = q.at, d # t.request[o].source,
                        d \notin Twins(t, t.request[o])
                 PROVE  ~Clash(t.request[o].room, Audience(t, t.request[o]), q.room, own)
    BY <1>4 DEF ClearOfHolds
  <2> DEFINE h == s.request[o]
  <2>2. o \in Requests \ {r} /\ o \in Holds(s) \ X /\ t.request[o] = h
        /\ Audience(t, t.request[o]) = Audience(s, h) /\ h.status # "NONE"
    BY <1>11 DEF Holds
  <2>3. ~Sibling(q, h)
    <3>1. SUFFICES ASSUME Sibling(q, h) PROVE FALSE
      OBVIOUS
    <3>2. q.parent # None /\ q.parent = h.parent /\ q.kind = h.kind /\ q.at = h.at /\ q.room = h.room
      BY <3>1 DEF Sibling
    <3>3. h.plan = q.plan
      BY <1>1, <2>2, <3>2 DEF Good, Rooted
    <3>4. Home(h) = Target(s, r)
      BY <3>2, <3>3 DEF Home, Target
    <3>5. d \in Twins(t, h)
      BY <1>4, <2>1, <2>2, <3>2, <3>4 DEF Twins
    <3>6. QED
      BY <2>1, <2>2, <3>5
  <2>4. ~Clash(q.room, own, h.room, Audience(s, h))
    BY <1>7, <2>1, <2>2, <2>3
  <2>5. QED
    BY <1>8, <2>2, <2>4
<1>14. ClearOfWeek(t, d, own, weekly, now)
  <2>1. SUFFICES ASSUME NEW p \in Ahead(weekly, now), q.at = SlotOf[p]
                 PROVE  ~Clash(RoomOf[p], OwnWeek(p), q.room, own)
    BY <1>4 DEF ClearOfWeek
  <2>2. p # q.plan
    <3>1. q.plan \in Pairings => weekly[q.plan] = "PUBLISHED"
      BY <1>1, <1>2 DEF Good, Planned
    <3>2. QED
      BY <3>1 DEF Ahead
  <2>3. ~Clash(q.room, own, RoomOf[p], OwnWeek(p))
    BY <1>7, <2>1, <2>2 DEF ClearOfWeekly, Ahead, OwnWeek
  <2>4. QED
    BY <1>8, <2>3
<1>15. QED
  BY <1>10, <1>12, <1>13, <1>14

LEMMA OutPlanned ==
    ASSUME NEW s, NEW X, NEW now, NEW r, NEW at, CanAgree(s, X, now, r, at),
           NEW t, NEW d, Outcome(s, t, r, d)
    PROVE  Planned(t, X, weekly, now) /\ Seated(t)
<1> DEFINE q == s.request[r]
<1>1. /\ Planned(s, X, weekly, now) /\ Rooted(s, X) /\ Seated(s) /\ Typed(s) /\ Typed(t)
      /\ r \in Requests \ X /\ q.status \in Open /\ q.status # "NONE"
  BY DEF CanAgree, Open, Good, Outcome
<1>2. /\ q.source \in Cohorts /\ q.plan \in Plans /\ q.people \subseteq Learners
      /\ s.cohort[q.source].status \in {"SCHEDULED", "RECORDED"} /\ s.cohort[q.source].plan = q.plan
      /\ Target(s, r) \in Plans
  BY <1>1, OnTheTable DEF CanAgree
<1>3. /\ Evolves(s, t) /\ t.request[r].status = "ACCEPTED"
  BY OutEvolves
<1>4. /\ d \in Cohorts
      /\ t.cohort[d].status = "SCHEDULED" /\ t.cohort[d].plan = Target(s, r)
      /\ s.cohort[d].status # "NONE" => s.cohort[d].plan = Target(s, r)
      /\ \A c \in Cohorts \ {d} :
            /\ t.cohort[c].plan = s.cohort[c].plan /\ t.cohort[c].at = s.cohort[c].at
            /\ t.cohort[c].status = "NONE" <=> s.cohort[c].status = "NONE"
            /\ t.cohort[c].status = "RECORDED" <=> s.cohort[c].status = "RECORDED"
  BY Deal
<1>5. \A pl \in Plans, l \in Learners :
          t.seat[pl][l] = IF pl = Target(s, r) /\ l \in q.people THEN d ELSE s.seat[pl][l]
  BY DEF Outcome
<1> DEFINE Based(v, pl) == /\ pl \in Plans
                           /\ pl \in Pairings => weekly[pl] = "PUBLISHED"
                           /\ pl \in Requests => /\ v.request[pl].status # "NONE"
                                                 /\ v.request[pl].status \in {"ACCEPTED", "SPLIT"} \/ pl \in X
<1>6. \A pl : Based(s, pl) => Based(t, pl)
  BY <1>3 DEF Evolves, Closed
<1>7. Based(t, Target(s, r))
  <2>1. CASE q.kind # "EXTRA"
    <3>1. Based(s, q.plan)
      BY <1>1, <1>2 DEF Planned
    <3>2. QED
      BY <1>6, <2>1, <3>1 DEF Target
  <2>2. CASE q.kind = "EXTRA" /\ q.parent # None
    <3>1. q.parent \in Requests
      BY <1>1, <2>2 DEF Typed, RequestRows
    <3>2. Based(s, q.parent)
      BY <1>1, <2>2, <3>1, Ids DEF Rooted, Plans
    <3>3. QED
      BY <1>6, <2>2, <3>2 DEF Target
  <2>3. CASE q.kind = "EXTRA" /\ q.parent = None
    BY <1>1, <1>2, <1>3, <2>3, Ids DEF Target
  <2>4. QED
    BY <2>1, <2>2, <2>3
<1>8. Planned(t, X, weekly, now)
  <2>1. SUFFICES ASSUME NEW c \in Cohorts, t.cohort[c].status # "NONE"
                 PROVE  /\ Based(t, t.cohort[c].plan)
                        /\ t.cohort[c].status = "RECORDED" => t.cohort[c].at < now
    BY DEF Planned
  <2>2. CASE c = d
    BY <1>4, <1>7, <2>2
  <2>3. CASE c # d
    <3>1. Based(s, s.cohort[c].plan) /\ (s.cohort[c].status = "RECORDED" => s.cohort[c].at < now)
      BY <1>1, <1>4, <2>1, <2>3 DEF Planned
    <3>2. QED
      BY <1>4, <1>6, <2>3, <3>1
  <2>4. QED
    BY <2>2, <2>3
<1>9. Seated(t)
  BY <1>1, <1>4, <1>5 DEF Seated
<1>10. QED
  BY <1>8, <1>9

LEMMA OutOne ==
    ASSUME NEW s, NEW X, NEW now, NEW r, NEW at, CanAgree(s, X, now, r, at),
           NEW t, NEW d, Outcome(s, t, r, d)
    PROVE  OnePerPlace(t)
<1> DEFINE q == s.request[r]
<1>1. /\ Planned(s, X, weekly, now) /\ OnePerPlace(s) /\ Typed(s)
      /\ r \in Requests \ X /\ q.status = "PENDING"
  BY DEF CanAgree, Good
<1>2. /\ d \in Cohorts
      /\ t.cohort[d].status = "SCHEDULED" /\ t.cohort[d].plan = Target(s, r)
      /\ t.cohort[d].at = q.at /\ t.cohort[d].room = q.room
      /\ \A c \in Cohorts \ {d} : t.cohort[c].status = "SCHEDULED" => t.cohort[c] = s.cohort[c]
      /\ q.source # d /\ t.cohort[q.source].status = "SCHEDULED" => s.cohort[q.source].at # q.at
  BY Deal
<1>3. ASSUME NEW c \in Cohorts \ {d}, t.cohort[c].status = "SCHEDULED",
             t.cohort[c].plan = Target(s, r), t.cohort[c].at = q.at, t.cohort[c].room = q.room
      PROVE  FALSE
  <2>1. s.cohort[c] = t.cohort[c]
    BY <1>2, <1>3
  <2>2. CASE d \in Twins(s, q)
    <3>1. s.cohort[d] = t.cohort[d]
      BY <2>2 DEF Outcome
    <3>2. QED
      BY <1>1, <1>2, <1>3, <2>1, <3>1 DEF OnePerPlace
  <2>3. CASE d \notin Twins(s, q)
    <3>1. c \notin Twins(s, q)
      BY <2>3 DEF Outcome
    <3>2. c # q.source
      BY <1>2, <1>3, <2>1
    <3>3. Home(q) # Target(s, r)
      BY <1>3, <2>1, <3>1, <3>2 DEF Twins
    <3>4. Target(s, r) = r
      BY <3>3 DEF Home, Target
    <3>5. QED
      BY <1>1, <1>3, <2>1, <3>4 DEF Planned
  <2>4. QED
    BY <2>2, <2>3
<1>4. SUFFICES ASSUME NEW c \in Cohorts, NEW e \in Cohorts, c # e,
                      t.cohort[c].status = "SCHEDULED", t.cohort[e].status = "SCHEDULED",
                      t.cohort[c].plan = t.cohort[e].plan, t.cohort[c].at = t.cohort[e].at,
                      t.cohort[c].room = t.cohort[e].room
               PROVE  FALSE
  BY DEF OnePerPlace
<1>5. CASE c = d
  BY <1>2, <1>3, <1>4, <1>5
<1>6. CASE e = d
  BY <1>2, <1>3, <1>4, <1>6
<1>7. CASE c # d /\ e # d
  BY <1>1, <1>2, <1>4, <1>7 DEF OnePerPlace
<1>8. QED
  BY <1>5, <1>6, <1>7

(* A group that sits in lesson e of plan pl and has nobody of the agreement   *)
(* among it keeps its seats, and its lesson stays where it is.                *)
LEMMA Bystanders ==
    ASSUME NEW s, NEW X, NEW now, NEW r, NEW at, CanAgree(s, X, now, r, at),
           NEW t, NEW d, Outcome(s, t, r, d),
           NEW S \in SUBSET Learners, S # {}, NEW e \in Cohorts, NEW pl \in Plans,
           s.cohort[e].status # "NONE", s.cohort[e].plan = pl, \A l \in S : s.seat[pl][l] = e,
           pl = s.request[r].plan => S \cap s.request[r].people = {}
    PROVE  t.cohort[e] = s.cohort[e] /\ \A l \in S : t.seat[pl][l] = e
<1> DEFINE q == s.request[r]
<1>1. /\ Good(s, X, weekly, now) /\ r \in Requests \ X /\ q.status \in Open /\ Typed(s)
  BY DEF CanAgree, Open, Good
<1>2. /\ q.source \in Cohorts /\ q.plan \in Plans /\ q.people \subseteq Learners
      /\ s.cohort[q.source].plan = q.plan
      /\ q.kind = "EXTRA" => \A l \in q.people : s.seat[Target(s, r)][l] \notin Cohorts
  BY <1>1, OnTheTable
<1>3. S \subseteq Roster(s, e)
  BY DEF Roster
<1>4. ~(pl = q.plan /\ Roster(s, e) \subseteq q.people)
  BY <1>3
<1>5. \A l \in S : t.seat[pl][l] = e
  <2>1. pl = Target(s, r) => S \cap q.people = {}
    <3>1. CASE q.kind = "EXTRA"
      BY <1>2, <3>1
    <3>2. CASE q.kind # "EXTRA"
      BY <3>2 DEF Target
    <3>3. QED
      BY <3>1, <3>2
  <2>2. QED
    BY <2>1 DEF Outcome
<1>6. t.cohort[e] = s.cohort[e]
  <2>1. CASE e = d
    <3>1. ~(Whole(s, q) /\ d = q.source)
      BY <1>2, <1>4, <2>1 DEF Whole
    <3>2. QED
      BY <2>1, <3>1 DEF Outcome
  <2>2. CASE e # d /\ e = q.source
    <3>1. ~(Roster(s, q.source) \subseteq q.people)
      BY <1>2, <1>4, <2>2
    <3>2. t.cohort[e] = LeftRow(s, q)
      BY <2>2 DEF Outcome
    <3>3. s.cohort[e].status = "SCHEDULED"
      BY <2>2 DEF CanAgree, Movable
    <3>4. s.cohort[e] \in CohortRows
      BY <1>1 DEF Typed
    <3>5. LeftRow(s, q) = s.cohort[e]
      BY <2>2, <3>1, <3>3, <3>4 DEF LeftRow, CohortRows
    <3>6. QED
      BY <3>2, <3>5
  <2>3. CASE e # d /\ e # q.source
    BY <2>3 DEF Outcome
  <2>4. QED
    BY <2>1, <2>2, <2>3
<1>7. QED
  BY <1>5, <1>6

LEMMA OutNegotiated ==
    ASSUME NEW s, NEW X, NEW now, NEW r, NEW at, CanAgree(s, X, now, r, at),
           NEW t, NEW d, Outcome(s, t, r, d)
    PROVE  Negotiated(t, X, now) /\ Disjoint(t, X)
<1> DEFINE q == s.request[r]
<1>1. /\ Good(s, X, weekly, now) /\ r \in Requests \ X /\ q.status = "PENDING"
      /\ q.status \in Open /\ q.status # "NONE"
  BY DEF CanAgree, Open
<1>2. /\ Planned(s, X, weekly, now) /\ Rooted(s, X) /\ Negotiated(s, X, now) /\ Disjoint(s, X)
      /\ Typed(s)
  BY <1>1 DEF Good
<1>3. /\ q.source \in Cohorts /\ q.plan \in Plans /\ q.people \subseteq Learners
      /\ s.cohort[q.source].plan = q.plan
      /\ \A l \in q.people : s.seat[q.plan][l] = q.source
      /\ q.kind = "EXTRA" => \A l \in q.people : s.seat[Target(s, r)][l] \notin Cohorts
      /\ Target(s, r) \in Plans
  BY <1>1, OnTheTable
<1>4. /\ Evolves(s, t) /\ t.request[r].status = "ACCEPTED"
      /\ t.request[r].answer = q.answer /\ t.request[r].made = q.made
      /\ t.request[r].cutoff = q.cutoff /\ t.request[r].n = q.n
  BY OutEvolves
<1>5. \A o \in Requests \ {r} : t.request[o] = s.request[o]
  BY OutEvolves
<1>6. \A o \in Requests : s.request[o].status # "NONE" =>
         Audience(t, t.request[o]) = Audience(s, s.request[o])
  BY SMTT(60), <1>2, <1>4, AudienceKept
<1>7. DOMAIN t.request[r].answer = Audience(t, t.request[r]) /\ Told(t.request[r], now)
  <2>1. DOMAIN q.answer = Audience(s, q) /\ Told(q, now)
    BY <1>1, <1>2 DEF Negotiated
  <2>2. QED
    BY <1>1, <1>4, <1>6, <2>1 DEF Told
<1>8. Live(t, X) \subseteq Live(s, X) \ {r}
  BY <1>4, <1>5 DEF Live, OpenRequests, Open
<1>9. Disjoint(t, X)
  BY SMTT(60), <1>2, <1>5, <1>8 DEF Disjoint, Live, OpenRequests
<1>10. ASSUME NEW o \in Live(t, X)
       PROVE  Fresh(t, o) /\ t.request[o].cutoff <= t.cohort[t.request[o].source].at
  <2> DEFINE h == s.request[o]
             e == h.source
  <2>1. o \in Live(s, X) \ {r} /\ o \in Requests \ X /\ t.request[o] = h /\ h.status \in Open
    BY <1>5, <1>8 DEF Live, OpenRequests
  <2>2. /\ e \in Cohorts /\ h.plan \in Plans /\ h.people \subseteq Learners /\ h.people # {}
        /\ s.cohort[e].status \in {"SCHEDULED", "RECORDED"} /\ s.cohort[e].plan = h.plan
        /\ \A l \in h.people : s.seat[h.plan][l] = e
        /\ h.people \subseteq Roster(s, e)
        /\ h.kind = "EXTRA" => \A l \in h.people : s.seat[Target(s, o)][l] \notin Cohorts
        /\ Target(s, o) \in Plans
    BY <1>1, <2>1, OnTheTable
  <2>3. h.cutoff <= s.cohort[e].at
    BY <1>2, <2>1 DEF Negotiated, Open
  <2>4. r \in Live(s, X)
    BY <1>1 DEF Live, OpenRequests
  <2>5. h.plan = q.plan => h.people \cap q.people = {}
    BY <1>2, <2>1, <2>4 DEF Disjoint
  <2>6. t.cohort[e] = s.cohort[e] /\ \A l \in h.people : t.seat[h.plan][l] = e
    BY SMTT(60), <2>2, <2>5, Bystanders
  <2>7. ASSUME h.kind = "EXTRA" PROVE \A l \in h.people : t.seat[Target(t, o)][l] \notin Cohorts
    <3>1. Target(t, o) = Target(s, o)
      BY <2>1 DEF Target
    <3>2. Target(s, o) = Target(s, r) => h.people \cap q.people = {}
      <4>1. SUFFICES ASSUME Target(s, o) = Target(s, r), h.plan # q.plan
                     PROVE  h.people \cap q.people = {}
        BY <2>5
      <4>2. h.parent # None => s.request[h.parent].plan = h.plan /\ h.parent # r
        BY <1>1, <1>2, <2>1 DEF Rooted, Open
      <4>3. q.parent # None => s.request[q.parent].plan = q.plan /\ q.parent # o
        BY <1>1, <1>2, <2>1 DEF Rooted, Open
      <4>4. q.kind # "EXTRA"
        BY <2>1, <2>7, <4>1, <4>2, <4>3 DEF Target
      <4>5. \A l \in q.people : s.seat[Target(s, r)][l] \in Cohorts
        BY <1>3, <4>4 DEF Target
      <4>6. QED
        BY <2>2, <2>7, <4>1, <4>5
    <3>3. QED
      BY <2>2, <2>7, <3>1, <3>2 DEF Outcome
  <2>8. QED
    BY <2>1, <2>2, <2>3, <2>6, <2>7 DEF Fresh
<1>11. ASSUME NEW o \in Requests \ X, t.request[o].status # "NONE", o # r
       PROVE  DOMAIN t.request[o].answer = Audience(t, t.request[o]) /\ Told(t.request[o], now)
  BY <1>2, <1>5, <1>6, <1>11 DEF Negotiated
<1>12. Negotiated(t, X, now)
  <2>1. ASSUME NEW o \in Requests \ X, t.request[o].status # "NONE"
        PROVE  DOMAIN t.request[o].answer = Audience(t, t.request[o]) /\ Told(t.request[o], now)
    BY <1>7, <1>11, <2>1
  <2>2. ASSUME NEW o \in Requests \ X, t.request[o].status \in Open
        PROVE  Fresh(t, o) /\ t.request[o].cutoff <= t.cohort[t.request[o].source].at
    BY <1>10, <2>2 DEF Live, OpenRequests
  <2>3. Blank(t)
    BY <1>2, <1>4, <1>5 DEF Negotiated, Blank
  <2>4. QED
    BY <2>1, <2>2, <2>3 DEF Negotiated
<1>13. QED
  BY <1>9, <1>12

(* What a step does to recorded lessons and to seats, from rows to rows.      *)
Stands(s, t) ==
    \A c \in Cohorts : s.cohort[c].status = "RECORDED" =>
        /\ t.cohort[c] = s.cohort[c]
        /\ \A l \in Learners :
              s.seat[s.cohort[c].plan][l] = c <=> t.seat[s.cohort[c].plan][l] = c

Spot(s, c) == <<s.cohort[c].at, s.cohort[c].room>>

Settles(s, t, pl, l) ==
    \E r \in Requests : LET u == t.request[r] IN
        /\ s.request[r].status # "ACCEPTED" /\ u.status = "ACCEPTED"
        /\ l \in u.people /\ u.plan = pl /\ <<u.at, u.room>> = Spot(t, t.seat[pl][l])
        /\ \A x \in DOMAIN u.answer : u.answer[x].state = "ACCEPTED"

(* Nobody loses a seat, and whose seat is elsewhere agreed to that.           *)
Agreed(s, t) ==
    \A pl \in Plans, l \in Learners : s.seat[pl][l] \in Cohorts =>
        /\ t.seat[pl][l] \in Cohorts
        /\ Spot(t, t.seat[pl][l]) = Spot(s, s.seat[pl][l]) \/ Settles(s, t, pl, l)

LEMMA OutAgreed ==
    ASSUME NEW s, NEW X, NEW now, NEW r, NEW at, CanAgree(s, X, now, r, at),
           NEW t, NEW d, Outcome(s, t, r, d),
           \A x \in DOMAIN s.request[r].answer : s.request[r].answer[x].state = "ACCEPTED"
    PROVE  Stands(s, t) /\ Agreed(s, t)
<1> DEFINE q == s.request[r]
<1>1. /\ Good(s, X, weekly, now) /\ r \in Requests \ X /\ q.status = "PENDING"
      /\ q.status \in Open /\ q.status # "NONE"
  BY DEF CanAgree, Open
<1>2. /\ Planned(s, X, weekly, now) /\ Seated(s) /\ Typed(s) /\ Typed(t)
  BY <1>1 DEF Good, Outcome
<1>3. /\ q.source \in Cohorts /\ q.plan \in Plans /\ q.people \subseteq Learners
      /\ s.cohort[q.source].plan = q.plan
      /\ \A l \in q.people : s.seat[q.plan][l] = q.source
      /\ q.kind = "EXTRA" => \A l \in q.people : s.seat[Target(s, r)][l] \notin Cohorts
      /\ Target(s, r) \in Plans
  BY <1>1, OnTheTable
<1>4. s.cohort[q.source].status = "SCHEDULED"
  BY DEF CanAgree, Movable
<1>5. /\ d \in Cohorts /\ t.cohort[d].plan = Target(s, r)
      /\ t.cohort[d].at = q.at /\ t.cohort[d].room = q.room
      /\ s.cohort[d].status # "NONE" => s.cohort[d].status = "SCHEDULED"
  BY Deal
<1>6. \A pl \in Plans, l \in Learners :
          t.seat[pl][l] = IF pl = Target(s, r) /\ l \in q.people THEN d ELSE s.seat[pl][l]
  BY DEF Outcome
<1>7. \A l \in q.people : s.seat[Target(s, r)][l] \in Cohorts =>
          q.kind # "EXTRA" /\ Target(s, r) = q.plan /\ s.seat[Target(s, r)][l] = q.source
  BY <1>3 DEF Target
<1>8. Stands(s, t)
  <2>1. SUFFICES ASSUME NEW c \in Cohorts, s.cohort[c].status = "RECORDED"
                 PROVE  /\ t.cohort[c] = s.cohort[c]
                        /\ \A l \in Learners :
                             s.seat[s.cohort[c].plan][l] = c <=> t.seat[s.cohort[c].plan][l] = c
    BY DEF Stands
  <2>2. c # d /\ c # q.source
    BY <1>4, <1>5, <2>1
  <2>3. t.cohort[c] = s.cohort[c]
    BY <2>2 DEF Outcome
  <2>4. s.cohort[c].plan \in Plans
    BY <1>2, <2>1 DEF Planned
  <2>5. \A l \in q.people : s.seat[Target(s, r)][l] # c
    BY <1>7, <2>2
  <2>6. QED
    BY <1>6, <2>2, <2>3, <2>4, <2>5
<1>9. Agreed(s, t)
  <2>1. SUFFICES ASSUME NEW pl \in Plans, NEW l \in Learners, s.seat[pl][l] \in Cohorts
                 PROVE  /\ t.seat[pl][l] \in Cohorts
                        /\ \/ Spot(t, t.seat[pl][l]) = Spot(s, s.seat[pl][l])
                           \/ Settles(s, t, pl, l)
    BY DEF Agreed
  <2> DEFINE c == s.seat[pl][l]
  <2>2. CASE pl = Target(s, r) /\ l \in q.people
    <3>1. t.seat[pl][l] = d /\ pl = q.plan
      BY <1>6, <1>7, <2>1, <2>2
    <3>2. /\ t.request[r].status = "ACCEPTED" /\ t.request[r].answer = q.answer
          /\ t.request[r].at = q.at /\ t.request[r].room = q.room /\ Evolves(s, t)
      BY OutEvolves
    <3>3. t.request[r].people = q.people /\ t.request[r].plan = q.plan
      BY <1>1, <3>2 DEF Evolves
    <3>4. Settles(s, t, pl, l)
      BY <1>1, <1>5, <2>2, <3>1, <3>2, <3>3 DEF Settles, Spot
    <3>5. QED
      BY <1>5, <3>1, <3>4
  <2>3. CASE ~(pl = Target(s, r) /\ l \in q.people)
    <3>1. t.seat[pl][l] = c
      BY <1>6, <2>3
    <3>2. s.cohort[c].status # "NONE" /\ s.cohort[c].plan = pl
      BY <1>2, <2>1 DEF Seated
    <3>3. l \in Roster(s, c)
      BY <3>2 DEF Roster
    <3>4. ~(c = q.source /\ c = d /\ Whole(s, q))
      <4>1. SUFFICES ASSUME c = q.source, Whole(s, q) PROVE FALSE
        OBVIOUS
      <4>2. l \in q.people /\ q.kind # "EXTRA"
        BY <3>3, <4>1 DEF Whole
      <4>3. QED
        BY <1>3, <2>3, <3>2, <4>1, <4>2 DEF Target
    <3>5. t.cohort[c] = s.cohort[c] \/ (c = q.source /\ c # d)
      <4>1. CASE c = d
        <5>1. \/ t.cohort[d] = s.cohort[d]
              \/ Whole(s, q) /\ d = q.source
              \/ s.cohort[d].status = "NONE"
          BY DEF Outcome
        <5>2. QED
          BY <3>2, <3>4, <4>1, <5>1
      <4>2. CASE c # d
        BY <2>1, <4>2 DEF Outcome
      <4>3. QED
        BY <4>1, <4>2
    <3>6. s.cohort[q.source] \in CohortRows
      BY <1>2, <1>3 DEF Typed
    <3>7. LeftRow(s, q).at = s.cohort[q.source].at /\ LeftRow(s, q).room = s.cohort[q.source].room
      BY <3>6 DEF LeftRow, CohortRows
    <3>8. Spot(t, c) = Spot(s, c)
      BY <3>5, <3>7 DEF Outcome, Spot
    <3>9. QED
      BY <2>1, <3>1, <3>8
  <2>4. QED
    BY <2>2, <2>3
<1>10. QED
  BY <1>8, <1>9

(* finishAgreement keeps everything that holds of the rows.                   *)
LEMMA Struck ==
    ASSUME NEW s, NEW X, NEW now, NEW r, NEW at, CanAgree(s, X, now, r, at),
           NEW t, t = Close(Moved(s, r), r, "ACCEPTED"),
           \A x \in DOMAIN s.request[r].answer : s.request[r].answer[x].state = "ACCEPTED"
    PROVE  /\ Good(t, X, weekly, now) /\ Evolves(s, t) /\ Stands(s, t) /\ Agreed(s, t)
           /\ \E d : Outcome(s, t, r, d)
<1>1. PICK d : Outcome(s, t, r, d)
  BY Places
<1> DEFINE own == Audience(s, s.request[r])
<1>2. Apart(s) /\ Reserved(s, X) /\ WeeklyFree(s, X, weekly, now)
  BY DEF CanAgree, Good
<1>3. Typed(t) /\ Evolves(s, t) /\ Rooted(t, X)
  BY <1>1, OutEvolves
<1>4. Planned(t, X, weekly, now) /\ Seated(t)
  BY <1>1, OutPlanned
<1>5. OnePerPlace(t)
  BY <1>1, OutOne
<1>6. Negotiated(t, X, now) /\ Disjoint(t, X)
  BY <1>1, OutNegotiated
<1>7. Stands(s, t) /\ Agreed(s, t)
  BY <1>1, OutAgreed
<1>8. Changes(s, t, d, own)
  BY <1>1, Gathered DEF Changes
<1>9. /\ ClearOfLessons(s, t, d, own) /\ ClearOfHolds(t, X, d, own)
      /\ ClearOfWeek(t, d, own, weekly, now) /\ HoldsCarried(s, t, X)
  BY <1>1, Clears
<1> HIDE DEF own
<1>10. Apart(t)
  BY <1>2, <1>8, <1>9, LessonsApart
<1>11. Reserved(t, X)
  BY <1>2, <1>8, <1>9, HoldsReserved
<1>12. WeeklyFree(t, X, weekly, now)
  BY <1>2, <1>8, <1>9, WeekStaysFree
<1>13. QED
  BY <1>1, <1>3, <1>4, <1>5, <1>6, <1>7, <1>10, <1>11, <1>12 DEF Good

(* A step that moves no lesson: rows of lessons are cancelled or recorded, no *)
(* one is seated, and a request that is on the table afterwards was there.    *)
Shrinks(s, t, now) ==
    /\ \A c \in Cohorts :
          \/ t.cohort[c] = s.cohort[c]
          \/ /\ s.cohort[c].status = "SCHEDULED"
             /\ t.cohort[c].status = "CANCELLED" \/ (t.cohort[c].status = "RECORDED" /\ s.cohort[c].at < now)
             /\ t.cohort[c].plan = s.cohort[c].plan /\ t.cohort[c].at = s.cohort[c].at
             /\ t.cohort[c].room = s.cohort[c].room
    /\ \A pl \in Plans, l \in Learners :
          t.seat[pl][l] = s.seat[pl][l] \/ t.seat[pl][l] = Gone

NothingNew(s, t) ==
    \A r \in Requests : t.request[r].status # "NONE" => s.request[r].status # "NONE"

(* A step that only takes away leaves the windows as free as they were.       *)
LEMMA Shrunk ==
    ASSUME NEW s, NEW t, NEW X, NEW wk, NEW now \in Int, NEW now2 \in Int, Good(s, X, wk, now), Typed(t),
           now <= now2, Shrinks(s, t, now2), Evolves(s, t), NothingNew(s, t), HoldsCarried(s, t, X)
    PROVE  /\ Rooted(t, X) /\ Planned(t, X, wk, now2) /\ Seated(t) /\ OnePerPlace(t)
           /\ Apart(t) /\ Reserved(t, X) /\ WeeklyFree(t, X, wk, now2)
<1>1. /\ Typed(s) /\ Rooted(s, X) /\ Planned(s, X, wk, now) /\ Seated(s) /\ OnePerPlace(s)
      /\ Apart(s) /\ Reserved(s, X) /\ WeeklyFree(s, X, wk, now)
  BY DEF Good
<1>2. Rooted(t, X)
  BY <1>1, RootedKept DEF NothingNew
<1>3. \A c \in Cohorts : /\ t.cohort[c].plan = s.cohort[c].plan /\ t.cohort[c].at = s.cohort[c].at
                         /\ t.cohort[c].room = s.cohort[c].room
                         /\ t.cohort[c].status = "NONE" <=> s.cohort[c].status = "NONE"
                         /\ t.cohort[c].status = "SCHEDULED" => t.cohort[c] = s.cohort[c]
                         /\ t.cohort[c].status = "RECORDED" =>
                               s.cohort[c].status = "RECORDED" \/ s.cohort[c].at < now2
  BY DEF Shrinks
<1>4. Planned(t, X, wk, now2)
  <2>1. \A c \in Cohorts : s.cohort[c].at \in Int
    BY <1>1, Ids DEF Typed, CohortRows
  <2>2. \A c \in Cohorts : s.cohort[c].status = "RECORDED" => s.cohort[c].at < now2
    BY <1>1, <2>1 DEF Planned
  <2>3. \A c \in Cohorts : s.cohort[c].status # "NONE" =>
           /\ s.cohort[c].plan \in Plans
           /\ s.cohort[c].plan \in Pairings => wk[s.cohort[c].plan] = "PUBLISHED"
           /\ s.cohort[c].plan \in Requests =>
                 /\ s.request[s.cohort[c].plan].status # "NONE"
                 /\ s.request[s.cohort[c].plan].status \in {"ACCEPTED", "SPLIT"} \/ s.cohort[c].plan \in X
    BY <1>1 DEF Planned
  <2>4. \A r \in Requests : s.request[r].status # "NONE" =>
            /\ t.request[r].status # "NONE"
            /\ s.request[r].status \in {"ACCEPTED", "SPLIT"} => t.request[r].status = s.request[r].status
    BY DEF Evolves, Closed
  <2>5. QED
    BY <1>3, <2>2, <2>3, <2>4 DEF Planned
<1>5. Seated(t)
  <2>1. SUFFICES ASSUME NEW pl \in Plans, NEW l \in Learners, t.seat[pl][l] \in Cohorts
                 PROVE  /\ t.cohort[t.seat[pl][l]].status # "NONE"
                        /\ t.cohort[t.seat[pl][l]].plan = pl
    BY DEF Seated
  <2>2. t.seat[pl][l] = s.seat[pl][l]
    BY <2>1, Ids DEF Shrinks
  <2>3. s.cohort[s.seat[pl][l]].status # "NONE" /\ s.cohort[s.seat[pl][l]].plan = pl
    BY <1>1, <2>1, <2>2 DEF Seated
  <2>4. QED
    BY <1>3, <2>1, <2>2, <2>3
<1>6. OnePerPlace(t)
  BY <1>1, <1>3 DEF OnePerPlace
<1>7. ASSUME NEW c \in Booked(t) PROVE Carried(s, t, c)
  <2>1. c \in Cohorts /\ t.cohort[c].status = "SCHEDULED" /\ Roster(t, c) # {}
    BY DEF Booked
  <2>2. t.cohort[c] = s.cohort[c]
    BY <1>3, <2>1
  <2>3. s.cohort[c].plan \in Plans
    BY <1>1, <2>1, <2>2 DEF Planned
  <2>4. Roster(t, c) \subseteq Roster(s, c)
    BY <2>1, <2>2, <2>3, Ids DEF Roster, Shrinks
  <2>5. c \in Booked(s)
    BY <2>1, <2>2, <2>4 DEF Booked
  <2>6. Tutor(t, t.cohort[c].plan) = Tutor(s, s.cohort[c].plan)
    BY <1>1, <2>1, <2>2, LiesKept
  <2>7. QED
    BY <2>2, <2>4, <2>5, <2>6 DEF Carried, Lies, Party
<1>8. None \notin Booked(t) /\ Changes(s, t, None, {})
  BY <1>7, Ids DEF Changes, Booked
<1>9. ClearOfLessons(s, t, None, {}) /\ ClearOfHolds(t, X, None, {}) /\ ClearOfWeek(t, None, {}, wk, now2)
  BY <1>8 DEF ClearOfLessons, ClearOfHolds, ClearOfWeek
<1>10. Apart(t)
  BY <1>1, <1>8, <1>9, LessonsApart
<1>11. Reserved(t, X)
  BY <1>1, <1>8, <1>9, HoldsReserved
<1>12. WeeklyFree(t, X, wk, now2)
  <2>1. Ahead(wk, now2) \subseteq Ahead(wk, now)
    <3>1. \A p \in Pairings : SlotOf[p] \in Int
      BY Slots
    <3>2. QED
      BY <3>1 DEF Ahead
  <2>2. QED
    BY <1>1, <1>8, <1>9, <2>1, WeekStaysFree
<1>13. QED
  BY <1>2, <1>4, <1>5, <1>6, <1>10, <1>11, <1>12

(* One request row is rewritten, no lesson.                                   *)
Rewrites(s, t, r) ==
    /\ t.cohort = s.cohort /\ t.seat = s.seat /\ Typed(t)
    /\ \A o \in Requests \ {r} : t.request[o] = s.request[o]

(* What a request keeps for ever, and what it keeps while its offer stands.   *)
SameParty(q, u) ==
    /\ u.plan = q.plan /\ u.base = q.base /\ u.source = q.source
    /\ u.kind = q.kind /\ u.parent = q.parent /\ u.people = q.people

SameTerms(q, u) ==
    /\ SameParty(q, u)
    /\ u.n = q.n /\ u.made = q.made /\ u.at = q.at /\ u.room = q.room /\ u.cutoff = q.cutoff
    /\ DOMAIN u.answer = DOMAIN q.answer

LEMMA Unmoved ==
    ASSUME NEW s, NEW t, t.cohort = s.cohort, t.seat = s.seat
    PROVE  /\ Stands(s, t) /\ Agreed(s, t) /\ \A now : Shrinks(s, t, now)
           /\ \A c : Roster(t, c) = Roster(s, c)
           /\ Booked(t) = Booked(s)
           /\ \A w : Twins(t, w) = Twins(s, w)
<1>1. \A c : Roster(t, c) = Roster(s, c)
  BY DEF Roster
<1>2. Booked(t) = Booked(s)
  BY <1>1 DEF Booked
<1>3. \A w : Twins(t, w) = Twins(s, w)
  BY DEF Twins
<1>4. QED
  BY <1>1, <1>2, <1>3 DEF Stands, Agreed, Shrinks, Spot

(* A write to an open request that leaves its offer alone.                    *)
LEMMA Redraft ==
    ASSUME NEW s, NEW t, NEW X, NEW wk, NEW now \in Int, Good(s, X, wk, now),
           NEW r \in Requests, Rewrites(s, t, r),
           NEW q, NEW u, q = s.request[r], u = t.request[r], q.status \in Open,
           SameTerms(q, u), Told(u, now),
           u.status = q.status \/ u.status \in Closed \cup {"SPLIT_REQUESTED"}
    PROVE  Good(t, X, wk, now) /\ Evolves(s, t) /\ Stands(s, t) /\ Agreed(s, t)
<1>1. /\ Typed(s) /\ Typed(t) /\ Rooted(s, X) /\ Negotiated(s, X, now) /\ Disjoint(s, X)
      /\ t.cohort = s.cohort /\ t.seat = s.seat
      /\ \A o \in Requests \ {r} : t.request[o] = s.request[o]
      /\ q.status # "NONE" /\ q.status \notin Closed
  BY DEF Good, Rewrites, Open, Closed
<1>2. Stands(s, t) /\ Agreed(s, t) /\ Shrinks(s, t, now)
  BY <1>1, Unmoved
<1>3. Evolves(s, t)
  <2>1. \A o \in Requests : Numbered(s.request[o], t.request[o])
    <3>1. \A o \in Requests : s.request[o].n \in Nat
      BY <1>1, Ids DEF Typed, RequestRows
    <3>2. \A o \in Requests : t.request[o].n = s.request[o].n /\ t.request[o].made = s.request[o].made
                              /\ DOMAIN t.request[o].answer = DOMAIN s.request[o].answer
      BY <1>1 DEF SameTerms
    <3>3. QED
      BY <3>1, <3>2 DEF Numbered
  <2>2. u.status # "NONE"
    BY <1>1 DEF Closed
  <2>3. ASSUME NEW o \in Requests, s.request[o].status # "NONE"
        PROVE  LET p == s.request[o]
                   v == t.request[o]
               IN  /\ v.status # "NONE" /\ SameParty(p, v)
                   /\ p.status \in Closed => v = p
    BY <1>1, <2>2, <2>3 DEF SameTerms, SameParty
  <2>4. QED
    BY <2>1, <2>3 DEF Evolves, SameParty
<1>4. NothingNew(s, t)
  BY <1>1 DEF NothingNew
<1>5. \A o \in Requests : s.request[o].status # "NONE" =>
         Audience(t, t.request[o]) = Audience(s, s.request[o])
  BY <1>1, <1>3, AudienceKept
<1>6. HoldsCarried(s, t, X)
  <2>1. SUFFICES ASSUME NEW o \in Holds(t) \ X PROVE o \in Holds(s) /\ Held(s, t, o)
    BY DEF HoldsCarried
  <2>2. o \in Holds(s)
    BY <1>1 DEF Holds, Closed
  <2>3. Audience(t, t.request[o]) = Audience(s, s.request[o])
    BY <1>5, <2>2 DEF Holds
  <2>4. QED
    BY <1>1, <2>2, <2>3 DEF Held, SameTerms, SameParty, Holds
<1>7. /\ Rooted(t, X) /\ Planned(t, X, wk, now) /\ Seated(t) /\ OnePerPlace(t)
      /\ Apart(t) /\ Reserved(t, X) /\ WeeklyFree(t, X, wk, now)
  BY <1>1, <1>2, <1>3, <1>4, <1>6, Shrunk
<1>8. \A o \in Requests : t.request[o].status \in Open => s.request[o].status \in Open
  BY <1>1
<1>9. \A o \in Requests : SameParty(s.request[o], t.request[o])
  BY <1>1 DEF SameTerms, SameParty
<1>10. Disjoint(t, X)
  BY <1>1, <1>8, <1>9 DEF Disjoint, Live, OpenRequests, SameParty
<1>11. Negotiated(t, X, now)
  <2>0. Blank(t)
    BY <1>1, <1>3 DEF Negotiated, Blank, Evolves
  <2>1. SUFFICES ASSUME NEW o \in Requests \ X, t.request[o].status # "NONE"
                 PROVE  /\ DOMAIN t.request[o].answer = Audience(t, t.request[o])
                        /\ Told(t.request[o], now)
                        /\ t.request[o].status \in Open =>
                              /\ Fresh(t, o)
                              /\ t.request[o].cutoff <= t.cohort[t.request[o].source].at
    BY <2>0 DEF Negotiated
  <2>2. s.request[o].status # "NONE"
    BY <1>1, <2>1
  <2>3. /\ DOMAIN s.request[o].answer = Audience(s, s.request[o])
        /\ Told(s.request[o], now)
        /\ s.request[o].status \in Open =>
              /\ Fresh(s, o)
              /\ s.request[o].cutoff <= s.cohort[s.request[o].source].at
    BY <1>1, <2>2 DEF Negotiated
  <2>4. DOMAIN t.request[o].answer = Audience(t, t.request[o]) /\ Told(t.request[o], now)
    BY <1>1, <1>5, <2>2, <2>3 DEF SameTerms
  <2>5. t.request[o].cutoff = s.request[o].cutoff /\ SameParty(s.request[o], t.request[o])
    BY <1>1, <1>9 DEF SameTerms
  <2>6. Target(t, o) = Target(s, o)
    BY <2>5 DEF Target, SameParty
  <2>7. ASSUME t.request[o].status \in Open
        PROVE  Fresh(t, o) /\ t.request[o].cutoff <= t.cohort[t.request[o].source].at
    BY <1>1, <1>8, <2>3, <2>5, <2>6, <2>7 DEF Fresh, SameParty
  <2>8. QED
    BY <2>4, <2>7
<1>12. QED
  BY <1>1, <1>2, <1>3, <1>7, <1>10, <1>11 DEF Good

(* Closing a request, or handing it to the staff for a split.                 *)
LEMMA Quits ==
    ASSUME NEW s, NEW X, NEW wk, NEW now \in Int, Good(s, X, wk, now),
           NEW r \in Requests \ X, s.request[r].status \in Open,
           NEW x \in Closed \cup {"SPLIT_REQUESTED"},
           NEW t, t = Close(s, r, x)
    PROVE  /\ Good(t, X, wk, now) /\ Evolves(s, t) /\ Stands(s, t) /\ Agreed(s, t)
           /\ Rewrites(s, t, r) /\ t.request[r].status = x
<1> DEFINE q == s.request[r]
           u == [q EXCEPT !.status = x]
<1>1. /\ Typed(s) /\ q \in RequestRows /\ q.status # "NONE"
  BY DEF Good, Typed, Open
<1>2. u \in RequestRows /\ u.status = x /\ SameTerms(q, u) /\ u.answer = q.answer
  BY <1>1 DEF RequestRows, SameTerms, SameParty, Open
<1>3. t = [s EXCEPT !.request = [s.request EXCEPT ![r] = u]]
  BY <1>1 DEF Close, Typed
<1>4. Told(u, now)
  <2>1. Told(q, now)
    BY <1>1 DEF Good, Negotiated
  <2>2. QED
    BY <1>2, <2>1 DEF Told, SameTerms
<1>5. Rewrites(s, t, r) /\ t.request[r] = u
  <2> HIDE DEF u
  <2>1. t = [cohort |-> s.cohort, seat |-> s.seat, request |-> [s.request EXCEPT ![r] = u]]
    BY <1>1, <1>3 DEF Typed
  <2>2. [s.request EXCEPT ![r] = u] \in [Requests -> RequestRows]
    BY <1>1, <1>2 DEF Typed
  <2>3. QED
    BY <1>1, <2>1, <2>2 DEF Rewrites, Typed
<1> HIDE DEF u
<1>6. QED
  BY <1>2, <1>4, <1>5, Redraft

(* A step that nobody can complain about.                                     *)
Honest(s, t) == Evolves(s, t) /\ Stands(s, t) /\ Agreed(s, t)

(* Steps of one transaction compose.                                          *)
LEMMA HonestTwice ==
    ASSUME NEW s, NEW t, NEW v, Typed(s), Typed(t), Typed(v),
           Honest(s, t), Honest(t, v)
    PROVE  Honest(s, v)
<1>1. Evolves(s, v)
  <2>1. ASSUME NEW r \in Requests, s.request[r].status # "NONE"
        PROVE  LET q == s.request[r]
                   u == v.request[r]
               IN  /\ u.status # "NONE" /\ SameParty(q, u)
                   /\ q.status \in Closed => u = q
    BY <2>1 DEF Honest, Evolves, SameParty
  <2>2. ASSUME NEW r \in Requests, s.request[r].status # "NONE"
        PROVE  Numbered(s.request[r], v.request[r])
    <3>1. Numbered(s.request[r], t.request[r]) /\ Numbered(t.request[r], v.request[r])
      BY <2>2 DEF Honest, Evolves
    <3>2. s.request[r].n \in Int /\ t.request[r].n \in Int /\ v.request[r].n \in Int
      BY Ids DEF Typed, RequestRows
    <3>3. v.request[r].n = s.request[r].n =>
             t.request[r].n = s.request[r].n /\ v.request[r].n = t.request[r].n
      BY <3>1, <3>2 DEF Numbered
    <3>4. QED
      BY <3>1, <3>2, <3>3 DEF Numbered
  <2>3. QED
    BY <2>1, <2>2 DEF Evolves, SameParty
<1>2. Stands(s, v)
  <2>1. SUFFICES ASSUME NEW c \in Cohorts, s.cohort[c].status = "RECORDED"
                 PROVE  /\ v.cohort[c] = s.cohort[c]
                        /\ \A l \in Learners :
                             s.seat[s.cohort[c].plan][l] = c <=> v.seat[s.cohort[c].plan][l] = c
    BY DEF Stands
  <2>2. /\ t.cohort[c] = s.cohort[c]
        /\ \A l \in Learners : s.seat[s.cohort[c].plan][l] = c <=> t.seat[s.cohort[c].plan][l] = c
    BY <2>1 DEF Honest, Stands
  <2>3. /\ v.cohort[c] = t.cohort[c]
        /\ \A l \in Learners : t.seat[t.cohort[c].plan][l] = c <=> v.seat[t.cohort[c].plan][l] = c
    BY <2>1, <2>2 DEF Honest, Stands
  <2>4. QED
    BY <2>2, <2>3
<1>3. Agreed(s, v)
  <2>1. SUFFICES ASSUME NEW pl \in Plans, NEW l \in Learners, s.seat[pl][l] \in Cohorts
                 PROVE  /\ v.seat[pl][l] \in Cohorts
                        /\ \/ Spot(v, v.seat[pl][l]) = Spot(s, s.seat[pl][l])
                           \/ Settles(s, v, pl, l)
    BY DEF Agreed
  <2>2. /\ t.seat[pl][l] \in Cohorts
        /\ Spot(t, t.seat[pl][l]) = Spot(s, s.seat[pl][l]) \/ Settles(s, t, pl, l)
    BY <2>1 DEF Honest, Agreed
  <2>3. /\ v.seat[pl][l] \in Cohorts
        /\ Spot(v, v.seat[pl][l]) = Spot(t, t.seat[pl][l]) \/ Settles(t, v, pl, l)
    BY <2>2 DEF Honest, Agreed
  <2>4. Settles(t, v, pl, l) => Settles(s, v, pl, l)
    <3>1. \A r \in Requests : s.request[r].status = "ACCEPTED" => t.request[r].status = "ACCEPTED"
      BY DEF Honest, Evolves, Closed
    <3>2. QED
      BY <3>1 DEF Settles
  <2>5. ASSUME Settles(s, t, pl, l), Spot(v, v.seat[pl][l]) = Spot(t, t.seat[pl][l])
        PROVE  Settles(s, v, pl, l)
    <3>1. \A r \in Requests : t.request[r].status = "ACCEPTED" => v.request[r] = t.request[r]
      BY DEF Honest, Evolves, Closed
    <3>2. QED
      BY <2>5, <3>1 DEF Settles
  <2>6. QED
    BY <2>2, <2>3, <2>4, <2>5
<1>4. QED
  BY <1>1, <1>2, <1>3 DEF Honest

LEMMA HonestIdle ==
    ASSUME NEW s, Typed(s)
    PROVE  Honest(s, s)
<1>1. Stands(s, s) /\ Agreed(s, s)
  BY Unmoved
<1>2. \A r \in Requests : s.request[r].n \in Int
  BY Ids DEF Typed, RequestRows
<1>3. Evolves(s, s)
  BY <1>2 DEF Evolves, Numbered
<1>4. QED
  BY <1>1, <1>3 DEF Honest

(* A new state of the responses to the offer on the table.                    *)
Saying(q, a) == [q EXCEPT !.answer = a]
Heard(s, r, a) ==
    [cohort |-> s.cohort, seat |-> s.seat,
     request |-> [s.request EXCEPT ![r] = Saying(s.request[r], a)]]

LEMMA Voiced ==
    ASSUME NEW s, NEW X, NEW wk, NEW now \in Int, Good(s, X, wk, now),
           NEW r \in Requests, s.request[r].status = "PENDING",
           NEW a \in Responses, DOMAIN a = DOMAIN s.request[r].answer,
           Told(Saying(s.request[r], a), now)
    PROVE  /\ Good(Heard(s, r, a), X, wk, now) /\ Honest(s, Heard(s, r, a))
           /\ Rewrites(s, Heard(s, r, a), r)
           /\ Heard(s, r, a).request[r] = Saying(s.request[r], a)
           /\ Heard(s, r, a).request[r].status = "PENDING"
<1> DEFINE q == s.request[r]
           u == Saying(q, a)
           t == Heard(s, r, a)
<1>1. /\ Typed(s) /\ q \in RequestRows
  BY DEF Good, Typed
<1>2. u \in RequestRows /\ SameTerms(q, u) /\ u.status = q.status
  BY <1>1 DEF RequestRows, SameTerms, SameParty, Saying
<1>3. Told(u, now) /\ q.status \in Open
  BY DEF Open
<1>4. Rewrites(s, t, r) /\ t.request[r] = u
  <2> HIDE DEF u
  <2>1. t = [cohort |-> s.cohort, seat |-> s.seat, request |-> [s.request EXCEPT ![r] = u]]
    BY DEF Heard, u
  <2>2. [s.request EXCEPT ![r] = u] \in [Requests -> RequestRows]
    BY <1>1, <1>2 DEF Typed
  <2> HIDE DEF t
  <2>3. QED
    BY <1>1, <2>1, <2>2 DEF Rewrites, Typed
<1> HIDE DEF u, t
<1>5. Good(t, X, wk, now) /\ Honest(s, t)
  BY <1>2, <1>3, <1>4, Redraft DEF Honest
<1>6. QED
  BY <1>2, <1>4, <1>5 DEF u, t

(* Finished agrees, or finds the offer stale, or changes nothing.             *)
LEMMA FinishedGood ==
    ASSUME NEW s, NEW X, NEW now \in Int, Good(s, X, weekly, now),
           NEW r \in Requests \ X, s.request[r].status = "PENDING", Unused(s.cohort) # {},
           NEW at, NEW t, t = Finished(s, r, at)
    PROVE  /\ Good(t, X, weekly, now) /\ Honest(s, t)
           /\ \A o \in Requests \ {r} : t.request[o] = s.request[o]
           /\ \/ t.cohort = s.cohort /\ t.seat = s.seat
              \/ CanAgree(s, X, now, r, at) /\ \E d : Outcome(s, t, r, d)
<1> DEFINE q == s.request[r]
<1>1. CASE \E x \in DOMAIN q.answer : q.answer[x].state # "ACCEPTED"
  <2>1. t = s
    BY <1>1 DEF Finished
  <2>2. QED
    BY <2>1, HonestIdle DEF Good
<1>2. CASE /\ \A x \in DOMAIN q.answer : q.answer[x].state = "ACCEPTED"
           /\ current[q.base] /\ Movable(s.cohort[q.source], at) /\ CanTake(s, r, q, FALSE, at)
  <2>1. t = Close(Moved(s, r), r, "ACCEPTED")
    BY <1>2 DEF Finished
  <2>2. CanAgree(s, X, now, r, at)
    BY <1>2 DEF CanAgree
  <2>3. /\ Good(t, X, weekly, now) /\ Honest(s, t) /\ \E d : Outcome(s, t, r, d)
    BY <1>2, <2>1, <2>2, Struck DEF Honest
  <2>4. \A o \in Requests \ {r} : t.request[o] = s.request[o]
    BY <2>2, <2>3, OutEvolves
  <2>5. QED
    BY <2>2, <2>3, <2>4
<1>3. CASE /\ \A x \in DOMAIN q.answer : q.answer[x].state = "ACCEPTED"
           /\ ~(current[q.base] /\ Movable(s.cohort[q.source], at) /\ CanTake(s, r, q, FALSE, at))
  <2>1. t = Close(s, r, "STALE")
    BY <1>3 DEF Finished
  <2>2. Good(t, X, weekly, now) /\ Honest(s, t) /\ Rewrites(s, t, r)
    BY <2>1, Quits DEF Open, Closed, Honest
  <2>3. QED
    BY <2>2 DEF Rewrites
<1>4. QED
  BY <1>1, <1>2, <1>3

(* Settling a request by a clock reading that may be old.                     *)
LEMMA SettledGood ==
    ASSUME NEW s, NEW X, NEW now \in Int, Good(s, X, weekly, now),
           NEW r \in Requests \ X, Unused(s.cohort) # {},
           NEW at \in Int, at <= now, NEW t, t = Settled(s, r, at)
    PROVE  /\ Good(t, X, weekly, now) /\ Honest(s, t)
           /\ \A o \in Requests \ {r} : t.request[o] = s.request[o]
<1> DEFINE q == s.request[r]
           assumed == [x \in DOMAIN q.answer |->
                         IF x \in Silent(q, at)
                         THEN [q.answer[x] EXCEPT !.state = "ACCEPTED", !.by = "TIMEOUT"]
                         ELSE q.answer[x]]
           u == Saying(q, assumed)
<1>1. Typed(s) /\ q \in RequestRows
  BY DEF Good, Typed
<1>2. CASE q.status = "SPLIT_REQUESTED"
  <2>1. t = Close(s, r, SplitFate(s, q, at))
    BY <1>2 DEF Settled
  <2>2. SplitFate(s, q, at) \in Closed \cup {"SPLIT_REQUESTED"}
    BY <1>2 DEF SplitFate, Closed
  <2>3. Good(t, X, weekly, now) /\ Honest(s, t) /\ Rewrites(s, t, r)
    BY <1>2, <2>1, <2>2, Quits DEF Open, Honest
  <2>4. QED
    BY <2>3 DEF Rewrites
<1>3. CASE q.status = "PENDING"
  <2>1. CASE ~current[q.base] \/ q.cutoff <= at
    <3>1. t = Close(s, r, "STALE") \/ t = Close(s, r, "EXPIRED")
      BY <1>3, <2>1 DEF Settled
    <3>2. Good(t, X, weekly, now) /\ Honest(s, t) /\ Rewrites(s, t, r)
      BY <1>3, <3>1, Quits DEF Open, Closed, Honest
    <3>3. QED
      BY <3>2 DEF Rewrites
  <2>2. CASE ~(~current[q.base] \/ q.cutoff <= at)
    <3>1. t = Finished([s EXCEPT !.request[r].answer = assumed], r, at)
      BY <1>3, <2>2 DEF Settled
    <3>2. [s EXCEPT !.request[r].answer = assumed] = Heard(s, r, assumed)
      <4> HIDE DEF assumed
      <4>1. QED
        BY <1>1 DEF Heard, Typed, Saying
    <3>3. PICK P \in SUBSET Persons : q.answer \in [P -> Answers]
      BY <1>1 DEF RequestRows, Responses
    <3>4. assumed \in Responses /\ DOMAIN assumed = DOMAIN q.answer
      <4>1. \A w \in Answers : [w EXCEPT !.state = "ACCEPTED", !.by = "TIMEOUT"] \in Answers
        BY DEF Answers
      <4>2. assumed \in [P -> Answers]
        BY <3>3, <4>1
      <4>3. QED
        BY <3>3, <4>2 DEF Responses
    <3>5. Told(u, now)
      <4>1. Told(q, now)
        BY <1>1, <1>3 DEF Good, Negotiated
      <4>2. /\ u.made = q.made /\ u.cutoff = q.cutoff /\ u.answer = assumed /\ u.n = q.n
        BY <1>1 DEF RequestRows, Saying
      <4>3. ASSUME NEW x \in DOMAIN assumed
            PROVE  LET w == assumed[x] IN
                   /\ w.sent # Never => q.made <= w.sent
                   /\ w.due # Never => w.sent # Never /\ w.due = w.sent + Response /\ w.due < q.cutoff
                   /\ w.by = "TIMEOUT" => w.sent # Never /\ w.sent + Response <= now
                                          /\ w.sent + Response < q.cutoff
        <5> DEFINE v == q.answer[x]
        <5>1. /\ v.sent # Never => q.made <= v.sent
              /\ v.due # Never => v.sent # Never /\ v.due = v.sent + Response /\ v.due < q.cutoff
              /\ v.by = "TIMEOUT" => v.sent # Never /\ v.sent + Response <= now
                                     /\ v.sent + Response < q.cutoff
          BY <4>1, <4>3 DEF Told
        <5>2. v \in Answers
          BY <3>3, <4>3
        <5>3. CASE x \notin Silent(q, at)
          BY Zenon, <4>3, <5>1, <5>3
        <5>4. CASE x \in Silent(q, at)
          <6>1. assumed[x] = [v EXCEPT !.state = "ACCEPTED", !.by = "TIMEOUT"]
            BY <4>3, <5>4
          <6>2. assumed[x].sent = v.sent /\ assumed[x].due = v.due
            BY <5>2, <6>1 DEF Answers
          <6>3. v.due # Never /\ v.due <= at /\ v.due \in Int /\ v.sent \in Int
            BY <5>2, <5>4, Ids DEF Silent, Answers, Never
          <6> HIDE DEF v, assumed
          <6>4. v.sent # Never /\ v.sent + Response <= now /\ v.sent + Response < q.cutoff
            BY <5>1, <6>3
          <6>5. QED
            BY <5>1, <6>2, <6>4
        <5>5. QED
          BY Zenon, <5>3, <5>4
      <4>4. QED
        BY ZenonT(60), <4>1, <4>2, <4>3 DEF Told
    <3> DEFINE v == Heard(s, r, assumed)
    <3>6. /\ Good(v, X, weekly, now) /\ Honest(s, v) /\ Rewrites(s, v, r)
          /\ v.request[r].status = "PENDING"
      <4> HIDE DEF assumed
      <4>1. QED
        BY SMTT(60), <1>3, <3>4, <3>5, Voiced
    <3>7. Unused(v.cohort) # {} /\ t = Finished(v, r, at)
      BY Zenon, <3>1, <3>2, <3>6 DEF Rewrites
    <3> HIDE DEF v
    <3>8. /\ Good(t, X, weekly, now) /\ Honest(v, t)
          /\ \A o \in Requests \ {r} : t.request[o] = v.request[o]
      BY <3>6, <3>7, FinishedGood
    <3>9. Honest(s, t)
      BY <3>6, <3>8, HonestTwice DEF Good
    <3>10. QED
      BY <3>6, <3>8, <3>9 DEF Rewrites
  <2>3. QED
    BY <2>1, <2>2
<1>4. CASE q.status \notin {"SPLIT_REQUESTED", "PENDING"}
  <2>1. t = s
    BY <1>4 DEF Settled
  <2>2. QED
    BY <1>1, <2>1, HonestIdle
<1>5. QED
  BY <1>2, <1>3, <1>4

------------------------------------------------------------------------------
(* A request that is being written: its row is there, its offer is not.       *)
Drafted(s, X, r, wk, now) ==
    /\ r \in Requests \ X /\ s.request[r].status = "PENDING" /\ Fresh(s, r)
    /\ Typed(s) /\ Rooted(s, X) /\ Planned(s, X, wk, now) /\ Seated(s) /\ OnePerPlace(s)
    /\ Negotiated(s, X \cup {r}, now) /\ Disjoint(s, X)
    /\ Apart(s) /\ Reserved(s, X \cup {r}) /\ WeeklyFree(s, X \cup {r}, wk, now)

LEMMA LeastOf ==
    ASSUME NEW T \in SUBSET Nat, T # {}
    PROVE  \A m \in T : Min(T) <= m
<1>1. \E n \in T : \A m \in T : n <= m
  BY LeastNatural
<1>2. QED
  BY <1>1, Zenon DEF Min

(* Setting a request aside loses nothing.                                     *)
LEMMA Wider ==
    ASSUME NEW s, NEW X, NEW Y, NEW wk, NEW now, Good(s, X, wk, now), X \subseteq Y
    PROVE  Good(s, Y, wk, now)
<1>1. Rooted(s, Y)
  BY DEF Good, Rooted
<1>2. Planned(s, Y, wk, now)
  BY DEF Good, Planned
<1>3. Negotiated(s, Y, now)
  BY DEF Good, Negotiated
<1>4. Disjoint(s, Y)
  BY DEF Good, Disjoint, Live
<1>5. Reserved(s, Y)
  BY DEF Good, Reserved
<1>6. WeeklyFree(s, Y, wk, now)
  BY DEF Good, WeeklyFree
<1>7. QED
  BY <1>1, <1>2, <1>3, <1>4, <1>5, <1>6 DEF Good

LEMMA Draft ==
    ASSUME NEW s, NEW X, NEW wk, NEW now, Good(s, X, wk, now),
           NEW r \in Requests \ X, s.request[r].status = "PENDING"
    PROVE  Drafted(s, X, r, wk, now)
<1>1. Good(s, X \cup {r}, wk, now)
  BY Wider
<1>2. Fresh(s, r)
  BY DEF Good, Negotiated, Open
<1>3. QED
  BY <1>1, <1>2 DEF Drafted, Good

LEMMA AudienceIn ==
    ASSUME NEW s, NEW X, Rooted(s, X), Typed(s), NEW r \in Requests, s.request[r].status # "NONE"
    PROVE  Audience(s, s.request[r]) \subseteq Persons
<1>1. Known(s, s.request[r].plan)
  BY DEF Rooted, Known
<1>2. Tutor(s, s.request[r].plan) \in Persons
  BY <1>1, Tutored
<1>3. s.request[r].people \subseteq Persons
  <2>1. \A p \in Pairings : RosterOf[p] \subseteq Persons /\ JoinersOf[p] \subseteq Persons
    BY PairingsAssumption
  <2>2. Learners \subseteq Persons
    BY <2>1 DEF Learners
  <2>3. QED
    BY <2>2 DEF Typed, RequestRows
<1>4. QED
  BY <1>2, <1>3 DEF Audience, Party

(* Writing the row of a new request.                                          *)
With(s, r, q) == [s EXCEPT !.request[r] = q]

(* The row q asks for something its people can ask for.                       *)
Proposes(s, X, r, q) ==
    /\ r \in Requests \ X /\ s.request[r].status = "NONE"
    /\ q \in RequestRows /\ q.status = "PENDING"
    /\ q.plan \in Plans /\ q.base = Base(s, q.plan) /\ q.source \in Cohorts /\ q.people # {}
    /\ s.cohort[q.source].status = "SCHEDULED" /\ s.cohort[q.source].plan = q.plan
    /\ \A l \in q.people : s.seat[q.plan][l] = q.source
    /\ q.parent # None => /\ q.parent \in X /\ s.request[q.parent].status # "NONE"
                          /\ s.request[q.parent].plan = q.plan
                          /\ s.request[q.parent].source = q.source
                          /\ s.request[q.parent].kind = q.kind
                          /\ \A l \in q.people : s.seat[q.parent][l] \notin Cohorts
    /\ \A o \in Live(s, X) : s.request[o].plan = q.plan => s.request[o].people \cap q.people = {}

(* A new request is written before its first offer.                           *)
LEMMA Written ==
    ASSUME NEW s, NEW X, NEW wk, NEW now \in Int, Good(s, X, wk, now),
           NEW r, NEW q, Proposes(s, X, r, q), NEW t, t = With(s, r, q)
    PROVE  /\ Drafted(t, X, r, wk, now) /\ Honest(s, t) /\ Rewrites(s, t, r)
           /\ t.request[r] = q
<1>0. /\ r \in Requests \ X /\ s.request[r].status = "NONE"
      /\ q \in RequestRows /\ q.status = "PENDING"
      /\ q.plan \in Plans /\ q.base = Base(s, q.plan) /\ q.source \in Cohorts /\ q.people # {}
      /\ s.cohort[q.source].status = "SCHEDULED" /\ s.cohort[q.source].plan = q.plan
  BY DEF Proposes
<1>seats. \A l \in q.people : s.seat[q.plan][l] = q.source
  BY DEF Proposes
<1>parent. q.parent # None => /\ q.parent \in X /\ s.request[q.parent].status # "NONE"
                          /\ s.request[q.parent].plan = q.plan
                          /\ s.request[q.parent].source = q.source
                          /\ s.request[q.parent].kind = q.kind
                          /\ \A l \in q.people : s.seat[q.parent][l] \notin Cohorts
  BY DEF Proposes
<1>live. \A o \in Live(s, X) : s.request[o].plan = q.plan => s.request[o].people \cap q.people = {}
  BY DEF Proposes
<1> USE <1>0, <1>seats, <1>parent, <1>live
<1>1. /\ Typed(s) /\ Rooted(s, X) /\ Planned(s, X, wk, now) /\ Seated(s) /\ OnePerPlace(s)
      /\ Negotiated(s, X, now) /\ Disjoint(s, X)
      /\ Apart(s) /\ Reserved(s, X) /\ WeeklyFree(s, X, wk, now)
  BY DEF Good
<1>2. t = [cohort |-> s.cohort, seat |-> s.seat, request |-> [s.request EXCEPT ![r] = q]]
  BY <1>1 DEF Typed, With
<1>3. /\ t.cohort = s.cohort /\ t.seat = s.seat /\ Typed(t)
      /\ \A o \in Requests \ {r} : t.request[o] = s.request[o]
      /\ t.request[r] = q
  <2>1. [s.request EXCEPT ![r] = q] \in [Requests -> RequestRows]
    BY <1>1 DEF Typed
  <2>2. QED
    BY <1>1, <1>2, <2>1 DEF Typed
<1>4. Stands(s, t) /\ Agreed(s, t) /\ Booked(t) = Booked(s)
      /\ (\A c : Roster(t, c) = Roster(s, c)) /\ (\A w : Twins(t, w) = Twins(s, w))
  BY <1>3, Unmoved
<1>5. Evolves(s, t)
  <2>1. \A o \in Requests : s.request[o].n \in Int
    BY <1>1, Ids DEF Typed, RequestRows
  <2>2. QED
    BY <1>3, <2>1 DEF Evolves, Numbered
<1>6. Known(s, q.plan) /\ q.plan # r
  BY <1>1 DEF Planned, Known
<1>7. \A o \in Requests : s.request[o].status # "NONE" => o # r
  OBVIOUS
<1>8. \A o \in Requests \ {r} : s.request[o].status # "NONE" =>
         Audience(t, s.request[o]) = Audience(s, s.request[o])
  BY <1>1, <1>3, <1>5, AudienceKept
<1>9. Rooted(t, X)
  <2>1. SUFFICES ASSUME NEW o \in Requests, t.request[o].status # "NONE"
                 PROVE  LET h == t.request[o] IN
                        /\ h.plan \in Plans /\ h.base \in Pairings /\ h.source \in Cohorts
                        /\ h.people # {}
                        /\ h.base = Base(t, h.plan)
                        /\ h.plan \in Requests => t.request[h.plan].status # "NONE"
                        /\ h.parent # None => LET p == t.request[h.parent] IN
                              /\ p.status = "SPLIT" \/ h.parent \in X
                              /\ p.status # "NONE"
                              /\ p.plan = h.plan /\ p.source = h.source /\ p.kind = h.kind
    BY DEF Rooted
  <2>2. CASE o = r
    <3>1. Base(t, q.plan) = Base(s, q.plan) /\ Known(t, q.plan)
      BY <1>5, <1>6, BaseKept
    <3>2. Base(s, q.plan) \in Pairings
      BY <1>1, <1>6, Tutored
    <3>3. q.parent # None => q.parent \in Requests /\ q.parent # r
      BY DEF RequestRows
    <3>4. QED
      BY <1>3, <2>2, <3>1, <3>2, <3>3 DEF Known
  <2>3. CASE o # r
    <3> DEFINE h == s.request[o]
    <3>1. t.request[o] = h /\ h.status # "NONE"
      BY <1>3, <2>1, <2>3
    <3>2. /\ h.plan \in Plans /\ h.base \in Pairings /\ h.source \in Cohorts
          /\ h.people # {}
          /\ h.base = Base(s, h.plan)
          /\ h.plan \in Requests => s.request[h.plan].status # "NONE"
          /\ h.parent # None => LET p == s.request[h.parent] IN
                              /\ p.status = "SPLIT" \/ h.parent \in X
                              /\ p.status # "NONE"
                              /\ p.plan = h.plan /\ p.source = h.source /\ p.kind = h.kind
      BY <1>1, <3>1 DEF Rooted
    <3>3. Known(s, h.plan)
      BY <3>2 DEF Known
    <3>4. Base(t, h.plan) = Base(s, h.plan) /\ Known(t, h.plan)
      BY <1>5, <3>3, BaseKept
    <3>5. h.parent # None => h.parent \in Requests
      BY <1>1 DEF Typed, RequestRows
    <3>6. h.parent # None => t.request[h.parent] = s.request[h.parent]
      BY <1>3, <3>2, <3>5
    <3>7. QED
      BY <3>1, <3>2, <3>4, <3>6 DEF Known
  <2>4. QED
    BY <2>2, <2>3
<1>10. Planned(t, X, wk, now)
  BY <1>1, <1>3, <1>7 DEF Planned
<1>11. Seated(t) /\ OnePerPlace(t)
  BY <1>1, <1>3 DEF Seated, OnePerPlace
<1>12. \A o \in Requests : s.request[o].status # "NONE" => Target(t, o) = Target(s, o)
  BY <1>3 DEF Target
<1>13. Negotiated(t, X \cup {r}, now)
  <2>0. Blank(t)
    BY <1>1, <1>3 DEF Negotiated, Blank
  <2>1. SUFFICES ASSUME NEW o \in Requests \ (X \cup {r}), t.request[o].status # "NONE"
                 PROVE  /\ DOMAIN t.request[o].answer = Audience(t, t.request[o])
                        /\ Told(t.request[o], now)
                        /\ t.request[o].status \in Open =>
                              /\ Fresh(t, o)
                              /\ t.request[o].cutoff <= t.cohort[t.request[o].source].at
    BY <2>0 DEF Negotiated
  <2>2. t.request[o] = s.request[o] /\ s.request[o].status # "NONE"
    BY <1>3, <2>1
  <2>3. /\ DOMAIN s.request[o].answer = Audience(s, s.request[o])
        /\ Told(s.request[o], now)
        /\ s.request[o].status \in Open =>
              /\ Fresh(s, o)
              /\ s.request[o].cutoff <= s.cohort[s.request[o].source].at
    BY <1>1, <2>1, <2>2 DEF Negotiated
  <2>4. Audience(t, t.request[o]) = Audience(s, s.request[o]) /\ Target(t, o) = Target(s, o)
    BY <1>8, <1>12, <2>1, <2>2
  <2>5. QED
    BY <1>3, <2>2, <2>3, <2>4 DEF Fresh
<1>14. Disjoint(t, X)
  <2>1. \A o \in Live(t, X) \ {r} : o \in Live(s, X) /\ t.request[o] = s.request[o]
    BY <1>3 DEF Live, OpenRequests
  <2>2. QED
    BY <1>1, <1>3, <2>1 DEF Disjoint
<1>15. \A o \in Holds(t) \ (X \cup {r}) :
          o \in Holds(s) \ X /\ Audience(t, t.request[o]) = Audience(s, s.request[o])
          /\ t.request[o] = s.request[o]
  BY <1>3, <1>8 DEF Holds
<1>16. \A c \in Booked(s) : Lies(t, c) = Lies(s, c)
  <2>1. SUFFICES ASSUME NEW c \in Booked(s) PROVE Lies(t, c) = Lies(s, c)
    OBVIOUS
  <2>2. c \in Cohorts /\ s.cohort[c].status # "NONE"
    BY DEF Booked
  <2>3. Tutor(t, t.cohort[c].plan) = Tutor(s, s.cohort[c].plan)
    BY <1>1, <1>3, <1>5, <2>2, LiesKept
  <2>4. QED
    BY <1>3, <1>4, <2>3 DEF Lies, Party
<1>17. Apart(t)
  BY <1>1, <1>3, <1>4, <1>16 DEF Apart
<1>18. Reserved(t, X \cup {r})
  BY <1>1, <1>3, <1>4, <1>15, <1>16 DEF Reserved
<1>19. WeeklyFree(t, X \cup {r}, wk, now)
  BY ZenonT(60), <1>1, <1>3, <1>4, <1>15, <1>16 DEF WeeklyFree
<1>20. Fresh(t, r)
  <2>1. q.kind = "EXTRA" /\ q.parent = None => \A l \in q.people : s.seat[r][l] \notin Cohorts
    <3>1. \A c \in Cohorts : s.cohort[c].status # "NONE" => s.cohort[c].plan # r
      BY <1>1 DEF Planned
    <3>2. q.people \subseteq Learners /\ r \in Plans
      BY DEF RequestRows, Plans
    <3>3. QED
      BY <1>1, <3>1, <3>2 DEF Seated
  <2>2. QED
    BY <1>3, <2>1 DEF Fresh, Target
<1>21. QED
  BY <1>3, <1>4, <1>5, <1>9, <1>10, <1>11, <1>13, <1>14, <1>17, <1>18, <1>19, <1>20
     DEF Drafted, Honest, Rewrites

(* Putting an offer on the table.                                             *)
Offers(s, r, w, place, now) ==
    /\ place \in Instants \X (Rooms \cup {Online}) /\ w.at = place[1] /\ w.room = place[2]
    /\ SameParty(s.request[r], w) /\ s.request[r].n < MaxOffers
    /\ CanTake(s, r, w, FALSE, now)

(* An offer is made only where its people are free.                           *)
LEMMA OfferedGood ==
    ASSUME NEW s, NEW X, NEW now \in Instants, NEW r, Drafted(s, X, r, weekly, now),
           NEW place, NEW w, Offers(s, r, w, place, now),
           NEW author, NEW matched, NEW t, t = Offered(s, r, author, matched, place, now)
    PROVE  /\ Good(t, X, weekly, now) /\ Honest(s, t) /\ Rewrites(s, t, r)
           /\ t.request[r].status = "PENDING" /\ SameParty(s.request[r], t.request[r])
           /\ t.request[r].n = s.request[r].n + 1
<1> DEFINE q == s.request[r]
           own == Audience(s, q)
           cutoff == Min({s.cohort[q.source].at, place[1]})
           said == [x \in own |->
                          IF x = author
                          THEN [NoAnswer EXCEPT !.state = "ACCEPTED", !.by = "AUTHOR"]
                          ELSE IF x = matched
                          THEN [NoAnswer EXCEPT !.state = "ACCEPTED", !.by = "MATCHED"]
                          ELSE NoAnswer]
           u == [q EXCEPT !.n = q.n + 1, !.at = place[1], !.room = place[2], !.made = now,
                          !.cutoff = cutoff, !.answer = said]
<1>0. /\ place \in Instants \X (Rooms \cup {Online}) /\ w.at = place[1] /\ w.room = place[2]
      /\ SameParty(s.request[r], w) /\ s.request[r].n < MaxOffers
      /\ CanTake(s, r, w, FALSE, now)
  BY DEF Offers
<1> USE <1>0
<1>1. /\ Typed(s) /\ Rooted(s, X) /\ Planned(s, X, weekly, now) /\ Seated(s) /\ OnePerPlace(s)
      /\ Negotiated(s, X \cup {r}, now) /\ Disjoint(s, X)
      /\ Apart(s) /\ Reserved(s, X \cup {r}) /\ WeeklyFree(s, X \cup {r}, weekly, now)
      /\ r \in Requests /\ r \notin X /\ q.status = "PENDING" /\ Fresh(s, r) /\ q \in RequestRows
      /\ now \in Int
  BY Ids DEF Drafted, Typed
<1>2. q.source \in Cohorts /\ q.plan \in Plans /\ s.cohort[q.source].at \in Instants
      /\ s.cohort[q.source].plan = q.plan /\ s.cohort[q.source].status # "NONE"
  <2>1. q.source \in Cohorts /\ q.plan \in Plans
    BY <1>1 DEF Rooted
  <2>2. s.cohort[q.source] \in CohortRows
    BY <1>1, <2>1 DEF Typed
  <2>3. QED
    BY <1>1, <2>1, <2>2 DEF CohortRows, Fresh
<1>3. place[1] \in Instants /\ place[2] \in Rooms \cup {Online}
  OBVIOUS
<1>4. cutoff \in Instants /\ cutoff <= s.cohort[q.source].at
  <2>1. {s.cohort[q.source].at, place[1]} \in SUBSET Nat
    BY <1>2, <1>3, Ids
  <2>2. cutoff \in {s.cohort[q.source].at, place[1]}
    BY <2>1, LeastIn
  <2>3. cutoff <= s.cohort[q.source].at
    BY <2>1, LeastOf
  <2>4. QED
    BY <1>2, <1>3, <2>2, <2>3
<1>5. own \subseteq Persons
  BY <1>1, AudienceIn
<1>6. said \in Responses /\ DOMAIN said = own
      /\ \A x \in own : said[x].sent = Never /\ said[x].due = Never /\ said[x].by # "TIMEOUT"
  <2>1. \A x \in own : said[x] \in Answers
                       /\ said[x].sent = Never /\ said[x].due = Never /\ said[x].by # "TIMEOUT"
    BY DEF NoAnswer, Answers
  <2>2. said \in [own -> Answers]
    BY <2>1
  <2>3. QED
    BY <1>5, <2>1, <2>2 DEF Responses
<1>7. q.n + 1 \in 0 .. MaxOffers /\ q.n \in Nat
  BY <1>1, Ids DEF RequestRows
<1>8. /\ u \in RequestRows /\ SameParty(q, u) /\ u.status = q.status
      /\ u.n = q.n + 1 /\ u.at = place[1] /\ u.room = place[2] /\ u.made = now
      /\ u.cutoff = cutoff /\ u.answer = said
  <2> HIDE DEF said, cutoff
  <2>1. QED
    BY ZenonT(60), <1>1, <1>3, <1>4, <1>6, <1>7 DEF RequestRows, SameParty
<1>9. t = [s EXCEPT !.request[r] = u]
  BY DEF Offered
<1>10. /\ t.cohort = s.cohort /\ t.seat = s.seat /\ Typed(t)
       /\ \A o \in Requests \ {r} : t.request[o] = s.request[o]
       /\ t.request[r] = u
  <2> HIDE DEF u, q
  <2>1. t = [cohort |-> s.cohort, seat |-> s.seat, request |-> [s.request EXCEPT ![r] = u]]
    BY <1>1, <1>9 DEF Typed
  <2>2. [s.request EXCEPT ![r] = u] \in [Requests -> RequestRows]
    BY <1>1, <1>8 DEF Typed
  <2>3. QED
    BY <1>1, <2>1, <2>2 DEF Typed
<1> HIDE DEF u, said, cutoff
<1>11. Stands(s, t) /\ Agreed(s, t) /\ Booked(t) = Booked(s) /\ Shrinks(s, t, now)
       /\ (\A c : Roster(t, c) = Roster(s, c)) /\ (\A z : Twins(t, z) = Twins(s, z))
  BY <1>10, Unmoved
<1>12. Evolves(s, t) /\ NothingNew(s, t)
  <2>1. \A o \in Requests : s.request[o].n \in Int
    BY <1>1, Ids DEF Typed, RequestRows
  <2>2. \A o \in Requests : Numbered(s.request[o], t.request[o])
    BY <1>8, <1>10, <2>1 DEF Numbered
  <2>3. QED
    BY <1>1, <1>8, <1>10, <2>2 DEF Evolves, NothingNew, SameParty, Closed
<1>13. \A o \in Requests : s.request[o].status # "NONE" =>
         Audience(t, t.request[o]) = Audience(s, s.request[o])
  BY <1>1, <1>12, AudienceKept
<1>14. Rooted(t, X)
  BY <1>1, <1>12, RootedKept DEF NothingNew
<1>15. Planned(t, X, weekly, now)
  BY <1>1, <1>8, <1>10 DEF Planned
<1>16. Seated(t) /\ OnePerPlace(t)
  BY <1>1, <1>10 DEF Seated, OnePerPlace
<1>17. \A o \in Requests : SameParty(s.request[o], t.request[o])
                           /\ t.request[o].status = s.request[o].status
                           /\ Target(t, o) = Target(s, o)
  BY <1>8, <1>10 DEF SameParty, Target
<1>18. Disjoint(t, X)
  BY SMTT(60), <1>1, <1>17 DEF Disjoint, Live, OpenRequests, SameParty
<1>19. ASSUME NEW o \in Requests, Fresh(s, o) PROVE Fresh(t, o)
  BY <1>10, <1>17, <1>19 DEF Fresh, SameParty
<1>20. Negotiated(t, X, now)
  <2>0. Blank(t)
    BY <1>1, <1>8, <1>10 DEF Negotiated, Blank
  <2>1. SUFFICES ASSUME NEW o \in Requests \ X, t.request[o].status # "NONE"
                 PROVE  /\ DOMAIN t.request[o].answer = Audience(t, t.request[o])
                        /\ Told(t.request[o], now)
                        /\ t.request[o].status \in Open =>
                              /\ Fresh(t, o)
                              /\ t.request[o].cutoff <= t.cohort[t.request[o].source].at
    BY <2>0 DEF Negotiated
  <2>2. CASE o = r
    <3>1. Told(u, now)
      BY <1>1, <1>6, <1>7, <1>8 DEF Told
    <3>2. DOMAIN u.answer = Audience(t, t.request[r])
      BY <1>1, <1>6, <1>8, <1>13
    <3>3. QED
      BY <1>1, <1>4, <1>8, <1>10, <1>19, <2>2, <3>1, <3>2 DEF SameParty
  <2>3. CASE o # r
    <3>1. t.request[o] = s.request[o] /\ s.request[o].status # "NONE"
      BY <1>10, <2>1, <2>3
    <3>2. /\ DOMAIN s.request[o].answer = Audience(s, s.request[o])
          /\ Told(s.request[o], now)
          /\ s.request[o].status \in Open =>
                /\ Fresh(s, o)
                /\ s.request[o].cutoff <= s.cohort[s.request[o].source].at
      BY <1>1, <2>1, <2>3, <3>1 DEF Negotiated
    <3>3. Audience(t, t.request[o]) = Audience(s, s.request[o])
      BY <1>13, <3>1
    <3>4. QED
      BY <1>10, <1>19, <3>1, <3>2, <3>3
  <2>4. QED
    BY <2>2, <2>3
<1>21. \A c \in Booked(s) : Lies(t, c) = Lies(s, c)
  <2>1. SUFFICES ASSUME NEW c \in Booked(s) PROVE Lies(t, c) = Lies(s, c)
    OBVIOUS
  <2>2. c \in Cohorts /\ s.cohort[c].status # "NONE"
    BY DEF Booked
  <2>3. Tutor(t, t.cohort[c].plan) = Tutor(s, s.cohort[c].plan)
    BY <1>1, <1>10, <1>12, <2>2, LiesKept
  <2>4. QED
    BY <1>10, <1>11, <2>3 DEF Lies, Party
<1>22. Apart(t)
  BY <1>1, <1>10, <1>11, <1>21 DEF Apart
<1> HIDE DEF own
<1>23. /\ u.at = w.at /\ u.room = w.room /\ SameParty(u, w)
       /\ own = Party(s, w.plan, w.people) /\ Audience(t, u) = own
  BY <1>1, <1>8, <1>10, <1>13 DEF SameParty, Audience, own
<1>24. /\ \A c \in Booked(s) \ Twins(s, w) : s.cohort[c].at = u.at =>
            \/ c = w.source
            \/ ~Clash(u.room, own, s.cohort[c].room, Lies(s, c))
       /\ \A o \in Holds(s) \ {r} : s.request[o].at = u.at =>
            \/ Sibling(w, s.request[o])
            \/ ~Clash(u.room, own, s.request[o].room, Audience(s, s.request[o]))
       /\ ClearOfWeekly(w, own)
  BY <1>23 DEF CanTake, Lies
<1>25. Twins(s, w) = Twins(t, u) /\ (\A h : Sibling(w, h) = Sibling(u, h))
  BY <1>10, <1>23 DEF Twins, Home, Sibling, SameParty
<1>26. \A a, x, b, y : Clash(a, x, b, y) = Clash(b, y, a, x)
  BY DEF Clash
<1>27. \A g, h : Sibling(g, h) => Sibling(h, g)
  BY DEF Sibling
<1>28. \A o \in Holds(t) \ {r} : o \in Holds(s) \ {r} /\ t.request[o] = s.request[o]
                                 /\ Audience(t, t.request[o]) = Audience(s, s.request[o])
  BY <1>10, <1>13 DEF Holds
<1>29. Reserved(t, X)
  <2>1. ASSUME NEW c \in Booked(t) \ (Twins(t, u) \cup {u.source}), t.cohort[c].at = u.at
        PROVE  ~Clash(u.room, Audience(t, u), t.cohort[c].room, Lies(t, c))
    BY <1>10, <1>11, <1>21, <1>23, <1>24, <1>25, <2>1 DEF SameParty
  <2>2. ASSUME NEW o \in (Holds(t) \ X) \ {r}, t.request[o].at = u.at
        PROVE  Sibling(u, t.request[o])
               \/ ~Clash(u.room, Audience(t, u), t.request[o].room, Audience(t, t.request[o]))
    BY <1>23, <1>24, <1>25, <1>28, <2>2
  <2>3. ASSUME NEW o \in (Holds(t) \ X) \ {r},
               NEW c \in Booked(t) \ (Twins(t, t.request[o]) \cup {t.request[o].source}),
               t.cohort[c].at = t.request[o].at
        PROVE  ~Clash(t.request[o].room, Audience(t, t.request[o]), t.cohort[c].room, Lies(t, c))
    BY <1>1, <1>10, <1>11, <1>21, <1>28, <2>3 DEF Reserved
  <2>4. ASSUME NEW o \in (Holds(t) \ X) \ {r}, NEW h \in (Holds(t) \ X) \ {r}, o # h,
               t.request[h].at = t.request[o].at
        PROVE  \/ Sibling(t.request[o], t.request[h])
               \/ ~Clash(t.request[o].room, Audience(t, t.request[o]),
                         t.request[h].room, Audience(t, t.request[h]))
    BY <1>1, <1>28, <2>4 DEF Reserved
  <2>5. SUFFICES ASSUME NEW o \in Holds(t) \ X
                 PROVE  /\ \A c \in Booked(t) \ (Twins(t, t.request[o]) \cup {t.request[o].source}) :
                              t.cohort[c].at = t.request[o].at =>
                                ~Clash(t.request[o].room, Audience(t, t.request[o]),
                                       t.cohort[c].room, Lies(t, c))
                        /\ \A h \in (Holds(t) \ X) \ {o} : t.request[h].at = t.request[o].at =>
                              \/ Sibling(t.request[o], t.request[h])
                              \/ ~Clash(t.request[o].room, Audience(t, t.request[o]),
                                        t.request[h].room, Audience(t, t.request[h]))
    BY DEF Reserved
  <2>6. CASE o = r
    BY <1>10, <2>1, <2>2, <2>6
  <2>7. CASE o # r
    <3>1. ASSUME NEW h \in (Holds(t) \ X) \ {o}, t.request[h].at = t.request[o].at
          PROVE  \/ Sibling(t.request[o], t.request[h])
                 \/ ~Clash(t.request[o].room, Audience(t, t.request[o]),
                           t.request[h].room, Audience(t, t.request[h]))
      <4>1. CASE h = r
        BY <1>10, <1>26, <1>27, <2>2, <2>7, <3>1, <4>1
      <4>2. CASE h # r
        BY <2>4, <2>7, <3>1, <4>2
      <4>3. QED
        BY <4>1, <4>2
    <3>2. QED
      BY <2>3, <2>7, <3>1
  <2>8. QED
    BY <2>6, <2>7
<1>30. WeeklyFree(t, X, weekly, now)
  <2>1. ASSUME NEW p \in Ahead(weekly, now), u.at = SlotOf[p]
        PROVE  ~Clash(RoomOf[p], OwnWeek(p), u.room, Audience(t, u))
    <3>1. q.plan \in Pairings => weekly[q.plan] = "PUBLISHED"
      BY <1>1, <1>2 DEF Planned
    <3>2. p # w.plan
      BY <3>1 DEF Ahead, SameParty
    <3>3. ~Clash(u.room, own, RoomOf[p], OwnWeek(p))
      BY <1>23, <1>24, <2>1, <3>2 DEF ClearOfWeekly, Ahead, OwnWeek
    <3>4. QED
      BY <1>23, <1>26, <3>3
  <2>2. ASSUME NEW p \in Ahead(weekly, now)
        PROVE  /\ \A c \in Booked(t) : t.cohort[c].at = SlotOf[p] =>
                     ~Clash(RoomOf[p], OwnWeek(p), t.cohort[c].room, Lies(t, c))
               /\ \A o \in (Holds(t) \ X) \ {r} : t.request[o].at = SlotOf[p] =>
                     ~Clash(RoomOf[p], OwnWeek(p), t.request[o].room, Audience(t, t.request[o]))
    BY <1>1, <1>10, <1>11, <1>21, <1>28, <2>2 DEF WeeklyFree, Ahead, OwnWeek
  <2>3. QED
    BY <1>10, <2>1, <2>2 DEF WeeklyFree, Ahead, OwnWeek
<1>31. Good(t, X, weekly, now)
  BY <1>10, <1>14, <1>15, <1>16, <1>18, <1>20, <1>22, <1>29, <1>30 DEF Good
<1>32. QED
  BY <1>1, <1>8, <1>10, <1>11, <1>12, <1>31 DEF Honest, Rewrites

------------------------------------------------------------------------------
(* Splitting a request: the fold over its people.                             *)
LEMMA Minimal ==
    ASSUME NEW S, IsFiniteSet(S), NEW T \in SUBSET SUBSET S, T # {}
    PROVE  \E x \in T : \A y \in T : y \subseteq x => y = x
<1>1. T \subseteq FiniteSubsetsOf(S)
  BY FS_Subset DEF FiniteSubsetsOf
<1>2. \E x \in T : \A y \in T : ~(<<y, x>> \in StrictSubsetOrdering(S))
  BY <1>1, FS_StrictSubsetOrderingWellFounded, WFMin
<1>3. QED
  BY <1>2 DEF StrictSubsetOrdering

Pick(S) == CHOOSE x \in S : TRUE
Start(s) == [ok |-> TRUE, s |-> s]
(* The function that folds the children of a split over the subsets of D.     *)
Folds(f, r, a, D) == f = [S \in D |-> IF S = {} THEN a ELSE Child(Pick(S), r, f[S \ {Pick(S)}])]
Small(S, n) == {T \in SUBSET S : Cardinality(T) <= n}

(* It exists, by induction over the size of the subsets (WFMin) ...           *)
LEMMA FoldsExist ==
    ASSUME NEW S, IsFiniteSet(S), NEW r, NEW a
    PROVE  \A n \in Nat : \E f : Folds(f, r, a, Small(S, n))
<1> DEFINE Bad == {n \in Nat : ~\E f : Folds(f, r, a, Small(S, n))}
<1>1. SUFFICES ASSUME Bad # {} PROVE FALSE
  OBVIOUS
<1>2. PICK n \in Bad : \A m \in Bad : n <= m
  BY <1>1, LeastNatural
<1>3. n # 0
  <2>1. \A T \in Small(S, 0) : T = {}
    BY FS_EmptySet, FS_Subset, FS_CardinalityType DEF Small
  <2>2. Folds([T \in Small(S, 0) |-> a], r, a, Small(S, 0))
    BY <2>1 DEF Folds
  <2>3. QED
    BY <2>2
<1>4. n - 1 \in Nat /\ n - 1 \notin Bad
  BY <1>2, <1>3
<1>5. PICK f : Folds(f, r, a, Small(S, n - 1))
  BY <1>4
<1> DEFINE g == [T \in Small(S, n) |-> IF T = {} THEN a ELSE Child(Pick(T), r, f[T \ {Pick(T)}])]
<1>6. Small(S, n - 1) \subseteq Small(S, n)
  BY <1>4, FS_Subset, FS_CardinalityType DEF Small
<1>7. \A T \in Small(S, n - 1) : g[T] = f[T]
  BY <1>5, <1>6 DEF Folds
<1>8. \A T \in Small(S, n) : T # {} => T \ {Pick(T)} \in Small(S, n - 1)
  <2>1. SUFFICES ASSUME NEW T \in Small(S, n), T # {}
                 PROVE  T \ {Pick(T)} \in Small(S, n - 1)
    OBVIOUS
  <2>2. Pick(T) \in T /\ IsFiniteSet(T)
    BY <2>1, FS_Subset DEF Pick, Small
  <2>3. Cardinality(T \ {Pick(T)}) = Cardinality(T) - 1
    BY <2>2, FS_RemoveElement
  <2>4. QED
    BY <1>4, <2>2, <2>3, FS_CardinalityType DEF Small
<1>9. Folds(g, r, a, Small(S, n))
  <2>1. \A T \in Small(S, n) : T # {} => g[T \ {Pick(T)}] = f[T \ {Pick(T)}]
    BY <1>7, <1>8
  <2>2. QED
    BY <2>1 DEF Folds
<1>10. QED
  BY <1>2, <1>9

Children(S, r, a) == FoldSet(LAMBDA l, acc : Child(l, r, acc), a, S)

(* ... and FoldSet is its value.                                              *)
LEMMA FoldFcn ==
    ASSUME NEW S, IsFiniteSet(S), NEW r, NEW a
    PROVE  \E f : Children(S, r, a) = f[S] /\ Folds(f, r, a, SUBSET S)
<1> DEFINE G == CHOOSE f : f = [T \in SUBSET S |-> IF T = {} THEN a
                           ELSE Child(CHOOSE x \in T : TRUE, r, f[T \ {CHOOSE x \in T : TRUE}])]
<1>1. Children(S, r, a) = G[S]
  BY DEF Children, FoldSet, MapThenFoldSet
<1>2. Small(S, Cardinality(S)) = SUBSET S
  BY FS_Subset, FS_CardinalityType DEF Small
<1>3. \E f : Folds(f, r, a, SUBSET S)
  <2>1. Cardinality(S) \in Nat
    BY FS_CardinalityType
  <2>2. \E f : Folds(f, r, a, Small(S, Cardinality(S)))
    BY <2>1, FoldsExist
  <2>3. QED
    BY <1>2, <2>2
<1>4. Folds(G, r, a, SUBSET S)
  BY <1>3 DEF Folds, Pick
<1>5. QED
  BY <1>1, <1>4

(* The people of S still wait for the request of their own.                   *)
Splitting(o, s, r, S) == LET q == o.request[r] IN
    /\ Good(s, {r}, weekly, clock) /\ Honest(o, s) /\ s.request[r] = q
    /\ q.status = "SPLIT_REQUESTED"
    /\ S \subseteq q.people /\ IsFiniteSet(S)
    /\ Cardinality(Unused(s.request)) >= Cardinality(S)
    /\ \A h \in Live(s, {r}) : s.request[h].plan = q.plan => s.request[h].people \cap S = {}
    /\ S # {} => s.cohort[q.source].status = "SCHEDULED" /\ s.cohort[q.source].plan = q.plan
    /\ \A l \in S : s.seat[q.plan][l] = q.source /\ s.seat[r][l] \notin Cohorts

LEMMA FreeIds ==
    ASSUME NEW s, Typed(s)
    PROVE  /\ Unused(s.request) = {i \in Requests : s.request[i].status = "NONE"}
           /\ Unused(s.request) \in SUBSET Nat /\ IsFiniteSet(Unused(s.request))
           /\ Unused(s.cohort) = {c \in Cohorts : s.cohort[c].status = "NONE"}
           /\ Unused(s.cohort) \in SUBSET Nat
<1>1. Unused(s.request) = {i \in Requests : s.request[i].status = "NONE"}
      /\ Unused(s.cohort) = {c \in Cohorts : s.cohort[c].status = "NONE"}
  BY DEF Typed, Unused
<1>2. IsFiniteSet(Requests)
  <2>1. MaxRequests \in Nat
    BY BoundsAssumption
  <2>2. QED
    BY <2>1, FS_Interval DEF Requests
<1>3. IsFiniteSet(Unused(s.request))
  BY <1>1, <1>2, FS_Subset
<1>4. QED
  BY <1>1, <1>3, Ids

(* A child is written, or the split fails.                                    *)
LEMMA ChildRecord ==
    ASSUME NEW l, NEW r, NEW k, k = [ok |-> k.ok, s |-> k.s], k.ok \in BOOLEAN,
           NEW v, v = Child(l, r, k)
    PROVE  v = [ok |-> v.ok, s |-> v.s] /\ v.ok \in BOOLEAN /\ (v.ok => k.ok)
<1> DEFINE q == k.s.request[r]
           i == Min(Unused(k.s.request))
           w == [NoRequest EXCEPT !.status = "PENDING", !.kind = q.kind, !.plan = q.plan,
                               !.base = q.base, !.source = q.source, !.people = {l},
                               !.parent = r, !.at = q.at, !.room = q.room]
           s == [k.s EXCEPT !.request[i] = w]
           tutor == Tutor(s, q.plan)
           matched == IF q.answer[tutor].state = "ACCEPTED" /\ q.answer[l].state = "ACCEPTED" THEN l ELSE tutor
           t == Finished(Offered(s, i, tutor, matched, <<q.at, q.room>>, clock), i, clock)
           fails == ~k.ok \/ ~CanTake(s, i, w, FALSE, clock) \/ Unused(k.s.cohort) = {}
<1>1. v = IF fails THEN [k EXCEPT !.ok = FALSE] ELSE [ok |-> TRUE, s |-> t]
  BY Zenon DEF Child
<1>2. ~k.ok => fails
  OBVIOUS
<1> HIDE DEF t, fails
<1>3. CASE fails
  <2>1. v = [k EXCEPT !.ok = FALSE]
    BY <1>1, <1>3
  <2>2. PICK a, b : k = [ok |-> a, s |-> b]
    OBVIOUS
  <2>3. [[ok |-> a, s |-> b] EXCEPT !.ok = FALSE] = [ok |-> FALSE, s |-> b]
    <3> DEFINE e == [[ok |-> a, s |-> b] EXCEPT !.ok = FALSE]
    <3>1. e \in [ok : {FALSE}, s : {b}]
      OBVIOUS
    <3> HIDE DEF e
    <3>2. e = [ok |-> FALSE, s |-> b]
      BY <3>1
    <3>3. QED
      BY <3>2 DEF e
  <2>4. v = [ok |-> FALSE, s |-> b]
    BY Zenon, <2>1, <2>2, <2>3
  <2>5. QED
    BY <2>4
<1>4. CASE ~fails
  <2>1. v = [ok |-> TRUE, s |-> t]
    BY <1>1, <1>4
  <2>2. QED
    BY <1>2, <1>4, <2>1
<1>5. QED
  BY <1>3, <1>4

(* One child more.                                                            *)
LEMMA ChildSplit ==
    ASSUME NEW o, Typed(o), NEW r \in Requests, NEW S, NEW l \in S, clock \in Instants,
           NEW y, Splitting(o, y, r, S),
           NEW v, v = Child(l, r, [ok |-> TRUE, s |-> y]), v.ok
    PROVE  Splitting(o, v.s, r, S \ {l})
<1> DEFINE k == [ok |-> TRUE, s |-> y]
           q == y.request[r]
           i == Min(Unused(y.request))
           w == [NoRequest EXCEPT !.status = "PENDING", !.kind = q.kind, !.plan = q.plan,
                               !.base = q.base, !.source = q.source, !.people = {l},
                               !.parent = r, !.at = q.at, !.room = q.room]
           s == [y EXCEPT !.request[i] = w]
           tutor == Tutor(s, q.plan)
           matched == IF q.answer[tutor].state = "ACCEPTED" /\ q.answer[l].state = "ACCEPTED" THEN l ELSE tutor
           place == <<q.at, q.room>>
           t == Offered(s, i, tutor, matched, place, clock)
           z == Finished(t, i, clock)
<1>1. v = IF ~k.ok \/ ~CanTake(s, i, w, FALSE, clock) \/ Unused(y.cohort) = {} THEN [k EXCEPT !.ok = FALSE]
          ELSE [ok |-> TRUE, s |-> z]
  <2>1. k.s = y
    OBVIOUS
  <2>2. Child(l, r, k) = IF ~k.ok \/ ~CanTake([k.s EXCEPT !.request[Min(Unused(k.s.request))] =
                                              [NoRequest EXCEPT !.status = "PENDING", !.kind = q.kind, !.plan = q.plan,
                               !.base = q.base, !.source = q.source, !.people = {l},
                               !.parent = r, !.at = q.at, !.room = q.room]], i, w, FALSE, clock) \/ Unused(y.cohort) = {} THEN [k EXCEPT !.ok = FALSE]
          ELSE [ok |-> TRUE, s |-> z]
    BY <2>1, Zenon DEF Child
  <2>3. QED
    BY <2>1, <2>2, Zenon
<1> HIDE DEF k, i, w, z, s
<1>2. CanTake(s, i, w, FALSE, clock) /\ Unused(y.cohort) # {} /\ v.s = z
  <2>1. k.ok = TRUE /\ ([k EXCEPT !.ok = FALSE]).ok = FALSE
    BY DEF k
  <2>2. CASE ~k.ok \/ ~CanTake(s, i, w, FALSE, clock) \/ Unused(y.cohort) = {}
    <3>1. v = [k EXCEPT !.ok = FALSE]
      BY <1>1, <2>2
    <3>2. QED
      BY <2>1, <3>1
  <2>3. CASE ~(~k.ok \/ ~CanTake(s, i, w, FALSE, clock) \/ Unused(y.cohort) = {})
    <3>1. v = [ok |-> TRUE, s |-> z]
      BY <1>1, <2>3, Zenon
    <3>2. v.s = z
      BY <3>1
    <3>3. QED
      BY <2>3, <3>2
  <2>4. QED
    BY <2>2, <2>3
<1>3. /\ Good(y, {r}, weekly, clock) /\ Honest(o, y) /\ q = o.request[r]
      /\ q.status = "SPLIT_REQUESTED" /\ S \subseteq q.people /\ IsFiniteSet(S)
      /\ Cardinality(Unused(y.request)) >= Cardinality(S)
      /\ y.cohort[q.source].status = "SCHEDULED" /\ y.cohort[q.source].plan = q.plan
  BY DEF Splitting
<1>live. \A h \in Live(y, {r}) : y.request[h].plan = q.plan => y.request[h].people \cap S = {}
  BY DEF Splitting
<1>seats. \A x \in S : y.seat[q.plan][x] = q.source /\ y.seat[r][x] \notin Cohorts
  BY DEF Splitting
<1>4. Typed(y) /\ Rooted(y, {r}) /\ q \in RequestRows /\ clock \in Int /\ q.status # "NONE"
  BY <1>3, Ids DEF Good, Typed
<1>5. /\ q.plan \in Plans /\ q.base \in Pairings /\ q.source \in Cohorts /\ q.base = Base(y, q.plan)
      /\ q.people \subseteq Learners
  BY <1>4 DEF Rooted, RequestRows
<1>6. /\ Unused(y.request) = {x \in Requests : y.request[x].status = "NONE"}
      /\ Unused(y.request) \in SUBSET Nat /\ IsFiniteSet(Unused(y.request))
  BY <1>4, FreeIds
<1>7. Unused(y.request) # {}
  <2>1. Cardinality(S) \in Nat /\ S # {}
    BY <1>3, FS_CardinalityType
  <2>2. Cardinality(S) # 0
    BY <1>3, <2>1, FS_EmptySet
  <2>3. Cardinality(Unused(y.request)) # 0
    BY <1>3, <2>1, <2>2
  <2>4. QED
    BY <2>3, FS_EmptySet
<1>8. i \in Unused(y.request) /\ i \in Requests \ {r} /\ y.request[i].status = "NONE"
  <2>1. i \in Unused(y.request)
    BY <1>6, <1>7, LeastIn DEF i
  <2>2. QED
    BY <1>4, <1>6, <2>1
<1>9. /\ w \in RequestRows /\ w.status = "PENDING" /\ w.kind = q.kind /\ w.plan = q.plan
      /\ w.base = q.base /\ w.source = q.source /\ w.people = {l} /\ w.parent = r
      /\ w.at = q.at /\ w.room = q.room /\ w.n = 0
  <2>1. <<>> \in Responses
    <3>1. <<>> \in [{} -> Answers]
      OBVIOUS
    <3>2. QED
      BY <3>1 DEF Responses
  <2>2. 0 \in 0 .. MaxOffers /\ 0 \in Instants /\ 1 \in 1 .. 3
    BY Ids
  <2>3. l \in Learners
    BY <1>3, <1>5
  <2>4. q.kind \in {"RESCHEDULE", "EXTRA"} /\ q.at \in Instants /\ q.room \in Rooms \cup {Online}
    BY <1>4 DEF RequestRows
  <2> HIDE DEF q
  <2>5. QED
    BY ZenonT(60), <1>5, <2>1, <2>2, <2>3, <2>4 DEF w, NoRequest, RequestRows, Open
<1>10. s = With(y, i, w)
  BY DEF With, s
<1>11. /\ Drafted(s, {r}, i, weekly, clock) /\ Honest(y, s) /\ Rewrites(y, s, i)
       /\ s.request[i] = w
  <2>1. w.parent # None => /\ w.parent \in {r} /\ y.request[w.parent].status # "NONE"
                              /\ y.request[w.parent].plan = w.plan
                              /\ y.request[w.parent].source = w.source
                              /\ y.request[w.parent].kind = w.kind
                              /\ \A x \in w.people : y.seat[w.parent][x] \notin Cohorts
    BY <1>seats, <1>4, <1>9
  <2>2. \A h \in Live(y, {r}) : y.request[h].plan = w.plan => y.request[h].people \cap w.people = {}
    <3>1. w.plan = q.plan /\ w.people \subseteq S
      BY <1>9
    <3> HIDE DEF q
    <3>2. QED
      BY <1>live, <3>1
  <2>3. \A x \in w.people : y.seat[w.plan][x] = w.source
    BY <1>seats, <1>9
  <2>4. w.plan \in Plans /\ w.base = Base(y, w.plan) /\ w.source \in Cohorts /\ w.people # {}
        /\ y.cohort[w.source].status = "SCHEDULED" /\ y.cohort[w.source].plan = w.plan
    BY <1>3, <1>5, <1>9
  <2>5. Good(y, {r}, weekly, clock) /\ i \in Requests \ {r} /\ y.request[i].status = "NONE"
        /\ clock \in Int /\ w \in RequestRows /\ w.status = "PENDING"
    BY <1>3, <1>4, <1>8, <1>9
  <2> HIDE DEF q
  <2>6. QED
    <3>1. Proposes(y, {r}, i, w)
      BY <2>1, <2>2, <2>3, <2>4, <2>5 DEF Proposes
    <3>2. QED
      BY <1>10, <2>5, <3>1, Written
<1>12. place \in Instants \X (Rooms \cup {Online}) /\ w.at = place[1] /\ w.room = place[2]
  BY <1>4, <1>9 DEF RequestRows
<1> HIDE DEF place, matched, tutor
<1>13. /\ Good(t, {r}, weekly, clock) /\ Honest(s, t) /\ Rewrites(s, t, i)
       /\ t.request[i].status = "PENDING" /\ SameParty(w, t.request[i])
  <2> HIDE DEF t
  <2>1. SameParty(w, w) /\ w.n < MaxOffers
    BY <1>9, Ids DEF SameParty
  <2>2. QED
    <3>1. w = s.request[i] /\ Drafted(s, {r}, i, weekly, clock)
      BY <1>11
    <3>2. Offers(s, i, w, place, clock)
      BY <1>2, <1>12, <2>1, <3>1 DEF Offers
    <3>3. /\ Good(t, {r}, weekly, clock) /\ Honest(s, t) /\ Rewrites(s, t, i)
          /\ t.request[i].status = "PENDING" /\ SameParty(s.request[i], t.request[i])
      <4>1. t = Offered(s, i, tutor, matched, place, clock)
        BY DEF t
      <4>2. QED
        BY <3>1, <3>2, <4>1, OfferedGood
    <3>4. QED
      BY <3>1, <3>3
<1> HIDE DEF t
<1>14. t.cohort = y.cohort /\ t.seat = y.seat
       /\ \A h \in Requests \ {i} : t.request[h] = y.request[h]
  BY <1>11, <1>13 DEF Rewrites
<1>15. /\ Good(z, {r}, weekly, clock) /\ Honest(t, z)
       /\ \A h \in Requests \ {i} : z.request[h] = t.request[h]
       /\ \/ z.cohort = t.cohort /\ z.seat = t.seat
          \/ CanAgree(t, {r}, clock, i, clock) /\ \E d : Outcome(t, z, i, d)
  <2>1. Unused(t.cohort) # {}
    BY <1>2, <1>14
  <2>2. QED
    BY <1>4, <1>8, <1>13, <2>1, FinishedGood DEF z
<1>16. Honest(o, z)
  <2>1. Typed(s) /\ Typed(t) /\ Typed(z)
    BY <1>11, <1>13, <1>15 DEF Drafted, Good
  <2>2. Honest(y, t)
    BY <1>4, <1>11, <1>13, <2>1, HonestTwice
  <2>3. Honest(y, z)
    BY <1>4, <1>15, <2>1, <2>2, HonestTwice
  <2>4. QED
    BY <1>3, <1>4, <2>1, <2>3, HonestTwice
<1>17. \A h \in Requests \ {i} : z.request[h] = y.request[h]
  BY <1>14, <1>15
<1>18. z.request[r] = q
  BY <1>8, <1>17
<1>19. z.request[i].status # "NONE" /\ z.request[i].people = {l}
  <2>1. t.request[i].people = {l} /\ t.request[i].status # "NONE"
    BY <1>9, <1>13 DEF SameParty
  <2>2. QED
    BY <1>8, <1>15, <2>1 DEF Honest, Evolves
<1>20. Cardinality(Unused(z.request)) >= Cardinality(S \ {l}) /\ IsFiniteSet(S \ {l})
  <2>1. Unused(z.request) = {x \in Requests : z.request[x].status = "NONE"}
    BY <1>15, FreeIds DEF Good
  <2>2. Unused(z.request) = Unused(y.request) \ {i}
    BY <1>6, <1>17, <1>19, <2>1
  <2>3. Cardinality(Unused(z.request)) = Cardinality(Unused(y.request)) - 1
    <3> DEFINE U == Unused(y.request)
    <3>1. IsFiniteSet(U) /\ i \in U
      BY <1>6, <1>8
    <3> HIDE DEF U
    <3>2. Cardinality(U \ {i}) = Cardinality(U) - 1
      BY <3>1, FS_RemoveElement
    <3>3. QED
      BY <2>2, <3>2 DEF U
  <2>4. Cardinality(S \ {l}) = Cardinality(S) - 1 /\ IsFiniteSet(S \ {l})
    BY <1>3, FS_RemoveElement
  <2>5. Cardinality(S) \in Nat /\ Cardinality(Unused(y.request)) \in Nat
    BY <1>3, <1>6, FS_CardinalityType
  <2>6. QED
    BY <1>3, <2>3, <2>4, <2>5
<1>21. \A h \in Live(z, {r}) : z.request[h].plan = q.plan => z.request[h].people \cap (S \ {l}) = {}
  <2>1. \A h \in Live(z, {r}) \ {i} : h \in Live(y, {r}) /\ z.request[h] = y.request[h]
    BY <1>17 DEF Live, OpenRequests
  <2> HIDE DEF q
  <2>2. ASSUME NEW h \in Live(z, {r}) \ {i}, z.request[h].plan = q.plan
        PROVE  z.request[h].people \cap S = {}
    BY <1>live, <2>1, <2>2
  <2>3. z.request[i].people \cap (S \ {l}) = {}
    BY <1>19
  <2>4. QED
    BY <2>2, <2>3
<1>22. /\ S \ {l} # {} => z.cohort[q.source].status = "SCHEDULED" /\ z.cohort[q.source].plan = q.plan
       /\ \A x \in S \ {l} : z.seat[q.plan][x] = q.source /\ z.seat[r][x] \notin Cohorts
  <2>1. CASE z.cohort = t.cohort /\ z.seat = t.seat
    BY SMTT(60), <1>3, <1>seats, <1>14, <2>1
  <2>2. CASE S \ {l} # {} /\ CanAgree(t, {r}, clock, i, clock) /\ \E d : Outcome(t, z, i, d)
    <3>1. PICK d : Outcome(t, z, i, d)
      BY <2>2
    <3>2. t.request[i].people = {l}
      BY <1>9, <1>13 DEF SameParty
    <3>3. z.cohort[q.source] = t.cohort[q.source]
          /\ \A x \in S \ {l} : z.seat[q.plan][x] = q.source
      <4>1. S \ {l} \in SUBSET Learners
        BY <1>3, <1>5
      <4>2. /\ t.cohort[q.source].status # "NONE" /\ t.cohort[q.source].plan = q.plan
            /\ \A x \in S \ {l} : t.seat[q.plan][x] = q.source
        BY <1>3, <1>seats, <1>14
      <4>3. (S \ {l}) \cap t.request[i].people = {}
        BY <3>2
      <4> DEFINE R == S \ {l}
                 e == q.source
                 pl == q.plan
      <4>4. e \in Cohorts /\ pl \in Plans
        BY <1>5
      <4>5. /\ R \in SUBSET Learners /\ R # {} /\ R \cap t.request[i].people = {}
            /\ t.cohort[e].status # "NONE" /\ t.cohort[e].plan = pl /\ \A x \in R : t.seat[pl][x] = e
        BY <2>2, <4>1, <4>2, <4>3
      <4> HIDE DEF R, e, pl, q
      <4>6. z.cohort[e] = t.cohort[e] /\ \A x \in R : z.seat[pl][x] = e
        BY <2>2, <3>1, <4>4, <4>5, Bystanders
      <4>7. QED
        BY <4>6 DEF R, e, pl
    <3>4. \A x \in S \ {l} : z.seat[r][x] = t.seat[r][x]
      BY <1>3, <1>5, <3>1, <3>2 DEF Outcome, Plans
    <3>5. QED
      BY <1>3, <1>seats, <1>14, <3>3, <3>4
  <2>3. CASE S \ {l} = {}
    BY SMTT(60), <2>3
  <2>4. QED
    BY <1>15, <2>1, <2>2, <2>3
<1>23. Splitting(o, z, r, S \ {l})
  BY ZenonT(60), <1>3, <1>15, <1>16, <1>18, <1>20, <1>21, <1>22 DEF Splitting
<1>24. QED
  BY <1>2, <1>23

(* The children of all learners of the group.                                 *)
LEMMA Split ==
    ASSUME NEW o, Typed(o), NEW r \in Requests, clock \in Instants,
           NEW S, S = o.request[r].people, Splitting(o, o, r, S),
           NEW t, t = Children(S, r, Start(o)), t.ok
    PROVE  Splitting(o, t.s, r, {})
<1>1. IsFiniteSet(S)
  BY DEF Splitting
<1>2. PICK f : t = f[S] /\ Folds(f, r, Start(o), SUBSET S)
  BY <1>1, FoldFcn
<1> DEFINE Fine(T) == /\ f[T] = [ok |-> f[T].ok, s |-> f[T].s] /\ f[T].ok \in BOOLEAN
                      /\ f[T].ok => Splitting(o, f[T].s, r, S \ T)
           Bad == {T \in SUBSET S : ~Fine(T)}
<1>3. Bad = {}
  <2>1. SUFFICES ASSUME Bad # {} PROVE FALSE
    OBVIOUS
  <2>2. PICK T \in Bad : \A U \in Bad : U \subseteq T => U = T
    <3>1. Bad \in SUBSET SUBSET S
      OBVIOUS
    <3> HIDE DEF Bad
    <3>2. QED
      BY <1>1, <2>1, <3>1, Minimal
  <2>3. T \in SUBSET S
    BY <2>2
  <2>4. CASE T = {}
    <3>1. f[T] = Start(o)
      BY <1>2, <2>3, <2>4 DEF Folds
    <3>2. Start(o) = [ok |-> TRUE, s |-> Start(o).s] /\ Start(o).s = o
      BY DEF Start
    <3>3. S \ T = S
      BY <2>4
    <3>4. Fine(T)
      <4>1. f[T].ok = TRUE /\ f[T] = [ok |-> TRUE, s |-> o] /\ f[T].s = o
        BY <3>1 DEF Start
      <4>2. f[T] = [ok |-> f[T].ok, s |-> f[T].s] /\ f[T].ok \in BOOLEAN
        BY <4>1
      <4>3. Splitting(o, f[T].s, r, S \ T)
        BY <3>3, <4>1
      <4>4. QED
        BY <4>2, <4>3
    <3>5. QED
      BY <2>2, <3>4
  <2>5. CASE T # {}
    <3> DEFINE l == Pick(T)
               U == T \ {l}
    <3>1. l \in T
      BY <2>5 DEF Pick
    <3>2. U \in SUBSET S /\ U \notin Bad
      BY <2>2, <2>3, <3>1
    <3>3. f[T] = Child(l, r, f[U])
      BY <1>2, <2>3, <2>5 DEF Folds
    <3>4. /\ f[U] = [ok |-> f[U].ok, s |-> f[U].s] /\ f[U].ok \in BOOLEAN
          /\ f[U].ok => Splitting(o, f[U].s, r, S \ U)
      BY <3>2
    <3>5. l \in S \ U /\ (S \ U) \ {l} = S \ T
      BY <2>3, <3>1
    <3> HIDE DEF U, l
    <3>6. /\ f[T] = [ok |-> f[T].ok, s |-> f[T].s] /\ f[T].ok \in BOOLEAN
          /\ f[T].ok => f[U].ok
      BY <3>3, <3>4, ChildRecord
    <3>7. ASSUME f[T].ok PROVE Splitting(o, f[T].s, r, S \ T)
      <4>1. f[U] = [ok |-> TRUE, s |-> f[U].s]
        BY <3>4, <3>6, <3>7
      <4>2. Splitting(o, f[U].s, r, S \ U)
        BY <3>4, <3>6, <3>7
      <4>3. f[T] = Child(l, r, [ok |-> TRUE, s |-> f[U].s])
        BY <3>3, <4>1, Zenon
      <4>4. Splitting(o, f[T].s, r, (S \ U) \ {l})
        BY <3>5, <3>7, <4>2, <4>3, ChildSplit
      <4>5. QED
        BY <3>5, <4>4
    <3>8. QED
      BY <2>2, <3>6, <3>7
  <2>6. QED
    BY <2>4, <2>5
<1>4. Fine(S)
  BY <1>3
<1>5. S \ S = {}
  OBVIOUS
<1>6. QED
  BY <1>2, <1>4, <1>5

------------------------------------------------------------------------------
(* The steps of the specification.                                            *)
Lawful(s, t) ==
    /\ Evolves(s, t) /\ Stands(s, t)
    /\ \A pl \in Plans, l \in Learners :
          s.seat[pl][l] \in Cohorts /\ t.seat[pl][l] \in Cohorts =>
             Spot(t, t.seat[pl][l]) = Spot(s, s.seat[pl][l]) \/ Settles(s, t, pl, l)

(* The invariant: its part for the clock and the pairings, the rows, the      *)
(* notices under way, the sweep and the suggestions.                          *)
Types ==
    /\ clock \in Instants
    /\ weekly \in [Pairings -> {"DRAFT", "CONFIRMED", "PUBLISHED"}]
    /\ current \in [Pairings -> BOOLEAN]
    /\ edits \in 0 .. MaxEdits /\ faults \in 0 .. MaxFaults

Rows == Good(Db, {}, weekly, clock)

Mails ==
    /\ post \subseteq [request : Requests, n : 1 .. MaxOffers, to : Persons, at : Instants]
    /\ \A m \in post : Posted(request[m.request], m, clock)

Sweeps ==
    /\ sweep \in [at : Instants \cup {Never}, todo : SUBSET Requests]
    /\ sweep.at = Never <=> sweep.todo = {}
    /\ sweep.at <= clock

Hints == IsFiniteSet(hint) /\ Cardinality(hint) <= MaxHints

IInv == Types /\ Rows /\ Mails /\ Sweeps /\ Hints

LEMMA HonestLawful ==
    ASSUME NEW s, NEW t, Honest(s, t)
    PROVE  Lawful(s, t)
BY DEF Honest, Lawful, Agreed

(* An offer keeps its number, so a notice under way never becomes one of a    *)
(* later offer.                                                               *)
LEMMA MailsKept ==
    ASSUME IInv, Evolves(Db, Db'), post' \subseteq post, clock' \in Int, clock <= clock',
           Typed(Db')
    PROVE  Mails'
<1>1. Typed(Db) /\ clock \in Int /\ Mails
  BY Ids DEF IInv, Rows, Good, Types
<1>2. SUFFICES ASSUME NEW m \in post PROVE Posted(request'[m.request], m, clock')
  BY <1>1 DEF Mails
<1> DEFINE q == request[m.request]
           u == request'[m.request]
<1>3. m.request \in Requests /\ m.n \in Int /\ m.at \in Int /\ Posted(q, m, clock)
  <2>1. m \in [request : Requests, n : 1 .. MaxOffers, to : Persons, at : Instants]
    BY <1>1, <1>2 DEF Mails
  <2>2. m.request \in Requests /\ m.n \in 1 .. MaxOffers /\ m.at \in Instants
    BY <2>1
  <2>3. Posted(q, m, clock)
    BY <1>1, <1>2 DEF Mails
  <2>4. m.n \in Int /\ m.at \in Int
    <3>1. Instants \subseteq Int /\ MaxOffers \in Int
      BY Ids
    <3>2. m.n \in 1 .. MaxOffers /\ m.at \in Instants
      BY <2>2
    <3>3. \A k : k \in 1 .. MaxOffers => k \in Int
      BY <3>1
    <3>4. QED
      BY <3>1, <3>2, <3>3
  <2>5. QED
    BY <2>2, <2>3, <2>4
<1>4. q.n \in Int /\ u.n \in Int /\ q.made \in Int
  <2>1. request \in [Requests -> RequestRows] /\ request' \in [Requests -> RequestRows]
    BY <1>1 DEF Typed, Db
  <2>2. q \in RequestRows /\ u \in RequestRows
    BY <1>3, <2>1
  <2>3. q.n \in 0 .. MaxOffers /\ u.n \in 0 .. MaxOffers /\ q.made \in Instants
    BY <2>2 DEF RequestRows
  <2>4. Instants \subseteq Int /\ MaxOffers \in Int
    BY Ids
  <2>5. \A k : k \in 0 .. MaxOffers => k \in Int
    BY <2>4
  <2> HIDE DEF q, u
  <2>6. QED
    BY <2>3, <2>4, <2>5
<1>5. q.status # "NONE"
  BY <1>3 DEF Posted
<1>6. u.status # "NONE" /\ Numbered(q, u)
  BY <1>3, <1>5 DEF Evolves, Db
<1>7. m.at <= clock'
  BY <1>1, <1>3 DEF Posted
<1>8. m.n <= u.n
  BY <1>3, <1>4, <1>6 DEF Posted, Numbered
<1>9. m.n = u.n => u.made <= m.at /\ m.to \in DOMAIN u.answer
  BY <1>3, <1>4, <1>6 DEF Posted, Numbered
<1>10. QED
  BY <1>6, <1>7, <1>8, <1>9 DEF Posted

LEMMA HintsKept ==
    ASSUME Hints, hint' \subseteq hint
    PROVE  Hints'
<1>1. IsFiniteSet(hint') /\ Cardinality(hint') <= Cardinality(hint)
  BY FS_Subset DEF Hints
<1>2. MaxHints \in Nat
  BY BoundsAssumption
<1>3. Cardinality(hint') \in Nat /\ Cardinality(hint) \in Nat
  BY <1>1, FS_CardinalityType DEF Hints
<1>4. QED
  BY <1>1, <1>2, <1>3 DEF Hints

(* A transaction writes the rows t.                                           *)
LEMMA Committed ==
    ASSUME IInv, NEW t, Good(t, {}, weekly', clock'), Lawful(Db, t),
           cohort' = t.cohort, seat' = t.seat, request' = t.request,
           hint' \subseteq hint, post' \subseteq post, clock' \in Int, clock <= clock'
    PROVE  Rows' /\ Mails' /\ Hints' /\ Lawful(Db, Db')
<1>1. Typed(t)
  BY DEF Good
<1>2. Db' = t
  BY <1>1 DEF Db, Typed
<1>3. Rows' /\ Lawful(Db, Db')
  BY <1>2 DEF Rows
<1>4. Mails'
  BY <1>1, <1>2, MailsKept DEF Lawful
<1>5. Hints'
  BY HintsKept DEF IInv
<1>6. QED
  BY <1>3, <1>4, <1>5

------------------------------------------------------------------------------
(* One transaction that leaves the clock and the weekly times alone.          *)
Kept == IInv' /\ Lawful(Db, Db')

LEMMA Moments ==
    \A k \in Instants : k \in Nat /\ k \in Int
BY Ids

LEMMA RowNumbers ==
    ASSUME NEW q \in RequestRows
    PROVE  q.n \in Int /\ q.made \in Int /\ q.at \in Int /\ q.cutoff \in Int
<1>1. q.n \in 0 .. MaxOffers /\ q.made \in Instants /\ q.at \in Instants /\ q.cutoff \in Instants
  BY DEF RequestRows
<1>2. MaxOffers \in Int
  BY Ids
<1>3. q.n \in Int
  BY <1>1, <1>2
<1>4. QED
  BY <1>1, <1>3, Moments

LEMMA Standing ==
    ASSUME IInv
    PROVE  /\ Good(Db, {}, weekly, clock) /\ Typed(Db) /\ clock \in Instants /\ clock \in Int
           /\ request \in [Requests -> RequestRows] /\ cohort \in [Cohorts -> CohortRows]
           /\ seat \in [Plans -> [Learners -> Cohorts \cup {None, Gone}]]
           /\ Rooted(Db, {}) /\ Planned(Db, {}, weekly, clock) /\ Seated(Db) /\ OnePerPlace(Db)
           /\ Negotiated(Db, {}, clock) /\ Disjoint(Db, {})
           /\ Apart(Db) /\ Reserved(Db, {}) /\ WeeklyFree(Db, {}, weekly, clock)
           /\ Db.request = request /\ Db.cohort = cohort /\ Db.seat = seat
<1>1. Good(Db, {}, weekly, clock) /\ clock \in Instants
  BY DEF IInv, Rows, Types
<1>2. clock \in Int
  BY <1>1, Ids
<1>3. Typed(Db)
  BY <1>1 DEF Good
<1>4. Db.request = request /\ Db.cohort = cohort /\ Db.seat = seat
  BY DEF Db
<1>5. QED
  BY <1>1, <1>2, <1>3, <1>4 DEF Good, Typed

LEMMA Commits ==
    ASSUME IInv, NEW t, Good(t, {}, weekly, clock), Lawful(Db, t), Commit(t),
           UNCHANGED <<clock, weekly, current, post, edits, faults>>, Sweeps'
    PROVE  Kept
<1>1. cohort' = t.cohort /\ seat' = t.seat /\ request' = t.request /\ hint' \subseteq hint
  BY DEF Commit
<1>2. clock \in Int /\ clock' = clock /\ weekly' = weekly /\ post' = post
  BY Standing
<1>3. Good(t, {}, weekly', clock') /\ clock' \in Int /\ clock <= clock' /\ post' \subseteq post
  BY <1>2
<1>4. Rows' /\ Mails' /\ Hints' /\ Lawful(Db, Db')
  BY <1>1, <1>3, Committed
<1>5. Types'
  BY DEF IInv, Types
<1>6. QED
  BY <1>4, <1>5 DEF Kept, IInv

ByWord(q, a) ==
    /\ DOMAIN a = DOMAIN q.answer
    /\ \A p \in DOMAIN a : LET w == q.answer[p] IN
          /\ a[p].sent = w.sent /\ a[p].due = w.due
          /\ a[p].by = "TIMEOUT" => w.by = "TIMEOUT"

LEMMA ToldStill ==
    ASSUME NEW q \in RequestRows, NEW now, Told(q, now), NEW a \in Responses,
           ByWord(q, a)
    PROVE  Told(Saying(q, a), now)
<1>1. /\ Saying(q, a).n = q.n /\ Saying(q, a).made = q.made /\ Saying(q, a).cutoff = q.cutoff
      /\ Saying(q, a).answer = a
  BY DEF Saying, RequestRows
<1>2. QED
  BY <1>1 DEF Told, ByWord

(* An answer of x, as the actions write it, and as Voiced needs it.           *)
Mark(s, r, x, v) == [s EXCEPT !.request[r].answer[x].state = v]
MarkBy(s, r, x, v) == [s EXCEPT !.request[r].answer[x].by = v]
Note(q, x, v) == [q.answer EXCEPT ![x] = [q.answer[x] EXCEPT !.state = v]]
NoteBy(q, x, v) == [q.answer EXCEPT ![x] = [q.answer[x] EXCEPT !.by = v]]

LEMMA Marked ==
    ASSUME NEW s, Typed(s), NEW r \in Requests, NEW x \in DOMAIN s.request[r].answer, NEW v
    PROVE  /\ Mark(s, r, x, v) = Heard(s, r, Note(s.request[r], x, v))
           /\ MarkBy(s, r, x, v) = Heard(s, r, NoteBy(s.request[r], x, v))
<1>1. s.request \in [Requests -> RequestRows] /\ s = [cohort |-> s.cohort, seat |-> s.seat, request |-> s.request]
  BY DEF Typed
<1>2. Mark(s, r, x, v) = Heard(s, r, Note(s.request[r], x, v))
  <2> DEFINE y == [s.request[r].answer[x] EXCEPT !.state = v]
  <2> HIDE DEF y
  <2>1. QED
    BY <1>1 DEF Heard, Saying, Mark, Note, y
<1>3. MarkBy(s, r, x, v) = Heard(s, r, NoteBy(s.request[r], x, v))
  <2> DEFINE y == [s.request[r].answer[x] EXCEPT !.by = v]
  <2> HIDE DEF y
  <2>1. QED
    BY <1>1 DEF Heard, Saying, MarkBy, NoteBy, y
<1>4. QED
  BY <1>2, <1>3

LEMMA HeardTwice ==
    ASSUME NEW s, Typed(s), NEW r \in Requests, NEW a, NEW b
    PROVE  Heard(Heard(s, r, a), r, b) = Heard(s, r, b)
<1>1. s.request \in [Requests -> RequestRows] /\ s.request[r] \in RequestRows
  BY DEF Typed
<1>2. Saying(Saying(s.request[r], a), b) = Saying(s.request[r], b)
  BY <1>1 DEF Saying, RequestRows
<1>3. QED
  BY <1>1, <1>2 DEF Heard

LEMMA HeardTyped ==
    ASSUME NEW s, Typed(s), NEW r \in Requests, NEW a \in Responses
    PROVE  Typed(Heard(s, r, a)) /\ Heard(s, r, a).request[r].answer = a
<1>1. s.request \in [Requests -> RequestRows] /\ s.request[r] \in RequestRows
  BY DEF Typed
<1>2. Saying(s.request[r], a) \in RequestRows /\ Saying(s.request[r], a).answer = a
  BY <1>1 DEF Saying, RequestRows
<1>3. [s.request EXCEPT ![r] = Saying(s.request[r], a)] \in [Requests -> RequestRows]
  BY <1>1, <1>2
<1>4. QED
  BY <1>1, <1>2, <1>3 DEF Heard, Typed

(* An answer given by word.                                                   *)
Assent(s, r, x) == [s EXCEPT !.request[r].answer[x].state = "ACCEPTED",
                             !.request[r].answer[x].by = "EXPLICIT"]

LEMMA Spoken ==
    ASSUME NEW s, Typed(s), NEW r \in Requests, NEW x \in DOMAIN s.request[r].answer
    PROVE  \E a \in Responses : Assent(s, r, x) = Heard(s, r, a) /\ ByWord(s.request[r], a)
<1> DEFINE q == s.request[r]
           y == [q.answer[x] EXCEPT !.state = "ACCEPTED"]
           a == [q.answer EXCEPT ![x] = y]
           h == Heard(s, r, a)
           z == [y EXCEPT !.by = "EXPLICIT"]
           b == [a EXCEPT ![x] = z]
<1>1. q \in RequestRows
  BY DEF Typed
<1>2. PICK P \in SUBSET Persons : q.answer \in [P -> Answers]
  BY <1>1 DEF RequestRows, Responses
<1>3. y \in Answers /\ z \in Answers
  BY <1>2 DEF Answers
<1>4. z.sent = q.answer[x].sent /\ z.due = q.answer[x].due /\ z.by = "EXPLICIT"
  BY <1>2 DEF Answers
<1>5. [s EXCEPT !.request[r].answer[x].state = "ACCEPTED"] = h
  <2>1. Mark(s, r, x, "ACCEPTED") = Heard(s, r, Note(q, x, "ACCEPTED"))
    BY Marked
  <2>2. QED
    BY <2>1, Zenon DEF Mark, Note
<1>6. [s EXCEPT !.request[r].answer[x].state = "ACCEPTED",
                !.request[r].answer[x].by = "EXPLICIT"] =
      [h EXCEPT !.request[r].answer[x].by = "EXPLICIT"]
  BY Zenon, <1>5
<1> HIDE DEF y, z
<1>7. a \in Responses /\ a \in [P -> Answers] /\ a[x] = y /\ x \in P
  BY <1>2, <1>3 DEF Responses
<1>8. b \in Responses /\ b \in [P -> Answers] /\ \A p \in P : b[p] = IF p = x THEN z ELSE q.answer[p]
  BY <1>2, <1>3, <1>7 DEF Responses
<1>9. Typed(h) /\ h.request[r].answer = a
  BY <1>7, HeardTyped
<1>10. [h EXCEPT !.request[r].answer[x].by = "EXPLICIT"] = Heard(h, r, b)
  <2> HIDE DEF h
  <2>1. x \in DOMAIN h.request[r].answer
    BY <1>7, <1>9
  <2>2. MarkBy(h, r, x, "EXPLICIT") = Heard(h, r, NoteBy(h.request[r], x, "EXPLICIT"))
    BY <1>9, <2>1, Marked
  <2>3. NoteBy(h.request[r], x, "EXPLICIT") = b
    BY <1>7, <1>9 DEF NoteBy, z
  <2>4. QED
    BY <2>2, <2>3, Zenon DEF MarkBy
<1>11. Heard(h, r, b) = Heard(s, r, b)
  BY HeardTwice
<1>12. [s EXCEPT !.request[r].answer[x].state = "ACCEPTED",
                !.request[r].answer[x].by = "EXPLICIT"] = Heard(s, r, b)
  BY <1>6, <1>10, <1>11, Zenon
<1>13. DOMAIN b = DOMAIN q.answer /\ \A p \in DOMAIN b : LET w == q.answer[p] IN
                    /\ b[p].sent = w.sent /\ b[p].due = w.due
                    /\ b[p].by = "TIMEOUT" => w.by = "TIMEOUT"
  BY <1>2, <1>4, <1>8
<1> HIDE DEF b
<1>14. ByWord(q, b)
  BY <1>13, Zenon DEF ByWord
<1>15. Assent(s, r, x) = Heard(s, r, b)
  BY <1>12, Zenon DEF Assent
<1>16. QED
  BY <1>8, <1>14, <1>15, Zenon
------------------------------------------------------------------------------
LEMMA SweepsKept ==
    ASSUME IInv, UNCHANGED <<clock, sweep>>
    PROVE  Sweeps'
BY DEF IInv, Sweeps

LEMMA HonestTyped ==
    ASSUME NEW s, NEW t, NEW v, NEW X, NEW wk, NEW now, NEW Y, NEW wk2, NEW now2, NEW Z, NEW wk3, NEW now3,
           Good(s, X, wk, now), Good(t, Y, wk2, now2), Good(v, Z, wk3, now3),
           Honest(s, t), Honest(t, v)
    PROVE  Honest(s, v)
BY HonestTwice DEF Good

LEMMA Accepts ==
    ASSUME IInv, NEW r \in Requests, NEW n, NEW x \in DOMAIN request[r].answer, Accept(r, x, n)
    PROVE  Kept
<1> DEFINE s == [Db EXCEPT !.request[r].answer[x].state = "ACCEPTED",
                           !.request[r].answer[x].by = "EXPLICIT"]
           t == Finished(s, r, clock)
           q == request[r]
<1>0. s = Assent(Db, r, x)
  BY Zenon DEF Assent
<1>1. /\ Good(Db, {}, weekly, clock) /\ Typed(Db) /\ clock \in Int /\ Db.request = request
      /\ Db.cohort = cohort /\ Negotiated(Db, {}, clock)
  BY Standing
<1>2. q.status = "PENDING" /\ Unused(cohort) # {} /\ Commit(t)
      /\ UNCHANGED <<clock, weekly, current, post, sweep, edits, faults>>
  BY DEF Accept, Answerable
<1>3. x \in DOMAIN Db.request[r].answer
  BY <1>1
<1> HIDE DEF t
<1> HIDE DEF s
<1>4. PICK a \in Responses : s = Heard(Db, r, a) /\ ByWord(q, a)
  BY <1>0, <1>1, <1>3, Spoken
<1>41. DOMAIN a = DOMAIN Db.request[r].answer
  BY <1>1, <1>4 DEF ByWord
<1>5. q \in RequestRows /\ Told(q, clock)
  <2>1. request \in [Requests -> RequestRows]
    BY Standing
  <2>2. QED
    BY <1>1, <1>2, <2>1 DEF Negotiated
<1>6. Told(Saying(q, a), clock)
  BY <1>1, <1>4, <1>5, ToldStill
<1>7. /\ Good(s, {}, weekly, clock) /\ Honest(Db, s) /\ Rewrites(Db, s, r)
      /\ s.request[r].status = "PENDING"
  BY <1>1, <1>2, <1>4, <1>41, <1>6, Voiced
<1>8. Unused(s.cohort) # {}
  BY <1>1, <1>2, <1>7 DEF Rewrites
<1>9. Good(t, {}, weekly, clock) /\ Honest(s, t)
  <2>1. r \in Requests \ {} /\ t = Finished(s, r, clock)
    BY DEF t
  <2>2. QED
    BY <1>1, <1>7, <1>8, <2>1, FinishedGood
<1>10. Honest(Db, t)
  BY <1>1, <1>7, <1>9, HonestTyped
<1>11. Lawful(Db, t)
  BY <1>10, HonestLawful
<1>12. QED
  BY <1>2, <1>9, <1>11, SweepsKept, Commits

LEMMA Visits ==
    ASSUME IInv, NEW r \in Requests, Visit(r)
    PROVE  Kept
<1> DEFINE t == Settled(Db, r, sweep.at)
<1>1. /\ Good(Db, {}, weekly, clock) /\ Typed(Db) /\ clock \in Int /\ Db.cohort = cohort
  BY Standing
<1>2. /\ r \in sweep.todo /\ Unused(cohort) # {} /\ Commit(t)
      /\ sweep' = [at |-> IF sweep.todo = {r} THEN Never ELSE sweep.at, todo |-> sweep.todo \ {r}]
      /\ UNCHANGED <<clock, weekly, current, post, edits, faults>>
  BY DEF Visit
<1>3. /\ sweep \in [at : Instants \cup {Never}, todo : SUBSET Requests]
      /\ sweep.at = Never <=> sweep.todo = {}
      /\ sweep.at <= clock
  BY DEF IInv, Sweeps
<1>4. sweep.at \in Int
  <2>1. sweep.at \in Instants
    BY <1>2, <1>3
  <2>2. QED
    BY <2>1, Moments
<1>5. Good(t, {}, weekly, clock) /\ Honest(Db, t)
  BY <1>1, <1>2, <1>3, <1>4, SettledGood
<1>6. Sweeps'
  <2>1. sweep' \in [at : Instants \cup {Never}, todo : SUBSET Requests]
    BY <1>2, <1>3
  <2>2. sweep'.at = Never <=> sweep'.todo = {}
    BY <1>2, <1>3
  <2>3. Never <= clock
    <3>1. clock \in Nat
      BY Standing, Ids
    <3>2. QED
      BY <3>1 DEF Never
  <2>4. sweep'.at <= clock'
    BY <1>2, <1>3, <2>3
  <2>5. QED
    BY <2>1, <2>2, <2>4 DEF Sweeps
<1> HIDE DEF t
<1>7. QED
  BY <1>2, <1>5, <1>6, HonestLawful, Commits

LEMMA AsksSeparate ==
    ASSUME IInv, NEW r \in Requests, NEW x, AskSeparate(r, x)
    PROVE  Kept
<1> DEFINE t == Close(Db, r, "SPLIT_REQUESTED")
<1>1. /\ Good(Db, {}, weekly, clock) /\ clock \in Int /\ Db.request = request
  BY Standing
<1>2. Db.request[r].status \in Open /\ Commit(t)
      /\ UNCHANGED <<clock, weekly, current, post, sweep, edits, faults>>
  BY <1>1 DEF AskSeparate, Open
<1>3. Good(t, {}, weekly, clock) /\ Honest(Db, t)
  BY <1>1, <1>2, Quits DEF Honest
<1> HIDE DEF t
<1>4. QED
  BY <1>2, <1>3, SweepsKept, HonestLawful, Commits

Rejecting(s, r, x, stage, spent) ==
    [s EXCEPT !.request[r].answer[x].state = "REJECTED",
              !.request[r].stage = stage, !.request[r].spent = spent]

Restaged(s, r, stage, spent) == [s EXCEPT !.request[r].stage = stage, !.request[r].spent = spent]
Restage(q, stage, spent) == [q EXCEPT !.stage = stage, !.spent = spent]

LEMMA Restages ==
    ASSUME NEW s, Typed(s), NEW r \in Requests, NEW stage \in 1 .. 3, NEW spent \in SUBSET Persons,
           NEW t, t = Restaged(s, r, stage, spent)
    PROVE  /\ Rewrites(s, t, r)
           /\ t.request[r] = Restage(s.request[r], stage, spent)
<1> DEFINE u == Restage(s.request[r], stage, spent)
<1>1. /\ s = [cohort |-> s.cohort, seat |-> s.seat, request |-> s.request]
      /\ s.request \in [Requests -> RequestRows] /\ s.request[r] \in RequestRows
  BY DEF Typed
<1>2. u \in RequestRows
  BY <1>1 DEF Restage, RequestRows
<1>3. t = [cohort |-> s.cohort, seat |-> s.seat, request |-> [s.request EXCEPT ![r] = u]]
  BY <1>1 DEF Restaged, Restage
<1> HIDE DEF u
<1>4. [s.request EXCEPT ![r] = u] \in [Requests -> RequestRows]
  BY <1>1, <1>2
<1>5. /\ t.cohort = s.cohort /\ t.seat = s.seat /\ t.request = [s.request EXCEPT ![r] = u]
      /\ t = [cohort |-> t.cohort, seat |-> t.seat, request |-> t.request]
  BY <1>3
<1>6. Typed(t)
  BY <1>4, <1>5 DEF Typed
<1>7. t.request[r] = u /\ \A o \in Requests \ {r} : t.request[o] = s.request[o]
  BY <1>1, <1>5
<1>8. QED
  BY <1>5, <1>6, <1>7 DEF Rewrites, u

(* A rejection, whatever becomes of the stage, leaves the offer as it was.    *)
LEMMA Rejected ==
    ASSUME NEW s, NEW X, NEW wk, NEW now \in Int, Good(s, X, wk, now),
           NEW r \in Requests \ X, s.request[r].status = "PENDING",
           NEW x \in DOMAIN s.request[r].answer
    PROVE  LET t == Mark(s, r, x, "REJECTED") IN
           /\ Good(t, X, wk, now) /\ Honest(s, t) /\ Rewrites(s, t, r)
           /\ t.request[r] = Saying(s.request[r], Note(s.request[r], x, "REJECTED"))
           /\ t.request[r].status = "PENDING" /\ SameTerms(s.request[r], t.request[r])
<1> DEFINE q == s.request[r]
           a == Note(q, x, "REJECTED")
<1>1. Typed(s) /\ Negotiated(s, X, now) /\ q \in RequestRows
  BY DEF Good, Typed
<1>2. PICK P \in SUBSET Persons : q.answer \in [P -> Answers]
  BY <1>1 DEF RequestRows, Responses
<1>3. \A w \in Answers : /\ [w EXCEPT !.state = "REJECTED"] \in Answers
                         /\ [w EXCEPT !.state = "REJECTED"].sent = w.sent
                         /\ [w EXCEPT !.state = "REJECTED"].due = w.due
                         /\ [w EXCEPT !.state = "REJECTED"].by = w.by
  BY DEF Answers
<1>4. a \in [P -> Answers] /\ a \in Responses
  BY <1>2, <1>3 DEF Note, Responses
<1>5. ByWord(q, a)
  BY <1>2, <1>3 DEF Note, ByWord
<1>6. Told(q, now)
  BY <1>1 DEF Negotiated
<1> HIDE DEF a
<1>7. Told(Saying(q, a), now)
  BY <1>1, <1>4, <1>5, <1>6, ToldStill
<1>8. DOMAIN a = DOMAIN q.answer
  BY <1>5 DEF ByWord
<1> HIDE DEF q
<1>9. Mark(s, r, x, "REJECTED") = Heard(s, r, a)
  BY <1>1, Marked DEF a, q
<1>10. /\ Good(Heard(s, r, a), X, wk, now) /\ Honest(s, Heard(s, r, a))
       /\ Rewrites(s, Heard(s, r, a), r)
       /\ Heard(s, r, a).request[r] = Saying(q, a)
       /\ Heard(s, r, a).request[r].status = "PENDING"
  BY <1>4, <1>7, <1>8, Voiced DEF q
<1>11. SameTerms(q, Saying(q, a))
  BY <1>1, <1>8 DEF SameTerms, SameParty, Saying, RequestRows
<1>12. QED
  BY <1>9, <1>10, <1>11 DEF a, q

LEMMA Counters ==
    ASSUME IInv, NEW r \in Requests, NEW n, NEW x \in DOMAIN request[r].answer,
           NEW place \in Wishes, Counter(r, x, n, place)
    PROVE  Kept
<1> DEFINE q == request[r]
           stage == IF q.scope = "ONE" THEN q.stage + 1 ELSE q.stage
           spent == q.spent \cup {x}
           s == Rejecting(Db, r, x, stage, spent)
           w == [s.request[r] EXCEPT !.at = place[1], !.room = place[2]]
           t == Offered(s, r, x, x, place, clock)
           h == Mark(Db, r, x, "REJECTED")
<1>1. /\ Good(Db, {}, weekly, clock) /\ Typed(Db) /\ clock \in Int /\ clock \in Instants
      /\ Db.request = request /\ request \in [Requests -> RequestRows]
  BY SMTT(60), Standing
<1>2. /\ q.status = "PENDING" /\ n = q.n /\ n < MaxOffers /\ MayReject(q, x)
      /\ CanTake(s, r, w, FALSE, clock) /\ Commit(t)
      /\ UNCHANGED <<clock, weekly, current, post, sweep, edits, faults>>
  BY Zenon DEF Counter, Answerable, Rejecting
<1>3. q \in RequestRows
  BY <1>1
<1>4. stage \in 1 .. 3
  BY <1>2, <1>3 DEF MayReject, RequestRows
<1>5. spent \in SUBSET Persons
  BY <1>3 DEF RequestRows, Responses
<1> HIDE DEF stage, spent
<1>6. /\ Good(h, {}, weekly, clock) /\ Honest(Db, h) /\ Rewrites(Db, h, r)
      /\ h.request[r].status = "PENDING" /\ SameTerms(q, h.request[r])
  BY <1>1, <1>2, Rejected
<1>7. s = Restaged(h, r, stage, spent)
  BY Zenon DEF Rejecting, Restaged, Mark
<1> HIDE DEF s, h, q
<1> DEFINE v == h.request[r]
           u == s.request[r]
<1>8. Rewrites(h, s, r) /\ u = Restage(v, stage, spent)
  BY <1>4, <1>5, <1>6, <1>7, Restages DEF Good
<1>9. v \in RequestRows
  BY <1>6 DEF Good, Typed
<1>10. u.status = v.status /\ SameTerms(v, u) /\ u.answer = v.answer /\ u \in RequestRows
  <2>1. Restage(v, stage, spent) \in RequestRows
    BY <1>4, <1>5, <1>9 DEF Restage, RequestRows
  <2> HIDE DEF v, u
  <2>2. QED
    BY <1>8, <1>9, <2>1 DEF Restage, RequestRows, SameTerms, SameParty
<1>11. Told(u, clock)
  <2>1. Told(v, clock)
    BY <1>6 DEF Good, Negotiated
  <2>2. u.n = v.n /\ u.made = v.made /\ u.cutoff = v.cutoff /\ u.answer = v.answer
    BY <1>10 DEF SameTerms
  <2>3. QED
    BY <2>1, <2>2 DEF Told
<1> HIDE DEF v, u
<1>12. Good(s, {}, weekly, clock) /\ Honest(h, s)
  BY <1>1, <1>6, <1>8, <1>10, <1>11, Redraft DEF v, u, Honest, Open
<1>13. u.status = "PENDING" /\ Drafted(s, {}, r, weekly, clock)
  BY <1>6, <1>10, <1>12, Draft DEF v, u
<1>14. w.at = place[1] /\ w.room = place[2] /\ SameParty(u, w)
  <2>1. w = [u EXCEPT !.at = place[1], !.room = place[2]]
    BY DEF u
  <2> HIDE DEF w
  <2>2. QED
    BY <1>10, <2>1 DEF SameParty, RequestRows
<1>15. u.n < MaxOffers
  BY <1>2, <1>6, <1>10 DEF SameTerms, v, q
<1> HIDE DEF w
<1>16. place \in Instants \X (Rooms \cup {Online})
  BY PairingsAssumption
<1>17. Offers(s, r, w, place, clock)
  BY <1>2, <1>14, <1>15, <1>16 DEF Offers, u
<1>18. Good(t, {}, weekly, clock) /\ Honest(s, t)
  BY <1>1, <1>13, <1>17, OfferedGood
<1> HIDE DEF t
<1>19. Honest(Db, t)
  <2>1. Honest(Db, s)
    BY <1>1, <1>6, <1>12, HonestTyped
  <2>2. QED
    BY <1>1, <1>12, <1>18, <2>1, HonestTyped
<1>20. QED
  BY <1>2, <1>18, <1>19, SweepsKept, HonestLawful, Commits

Asks(c, kind, scope, people, place, pl, base) ==
    [NoRequest EXCEPT !.plan = pl, !.base = base,
                      !.status = "PENDING", !.kind = kind, !.scope = scope, !.source = c,
                      !.people = people, !.at = place[1], !.room = place[2]]

LEMMA AskedRow ==
    ASSUME NEW c \in Cohorts, NEW kind \in {"RESCHEDULE", "EXTRA"}, NEW scope \in {"ONE", "ALL"},
           NEW people \in SUBSET Learners, NEW place \in Instants \X (Rooms \cup {Online}),
           NEW pl \in Plans, NEW base \in Pairings
    PROVE  LET w == Asks(c, kind, scope, people, place, pl, base) IN
           /\ w.plan = pl /\ w.base = base /\ w.status = "PENDING" /\ w.kind = kind
           /\ w.scope = scope /\ w.source = c /\ w.people = people
           /\ w.at = place[1] /\ w.room = place[2]
           /\ w.parent = None /\ w.n = 0 /\ w \in RequestRows
<1> DEFINE w == Asks(c, kind, scope, people, place, pl, base)
<1>1. <<>> \in Responses
  <2>1. <<>> \in [{} -> Answers]
    OBVIOUS
  <2>2. QED
    BY <2>1 DEF Responses
<1>2. 0 \in 0 .. MaxOffers /\ 0 \in Instants /\ 1 \in 1 .. 3
  BY Ids
<1>3. PICK at \in Instants, room \in Rooms \cup {Online} : place[1] = at /\ place[2] = room
  OBVIOUS
<1>4. w \in RequestRows
  BY <1>1, <1>2, <1>3 DEF Asks, NoRequest, RequestRows, Open
<1>5. /\ w.plan = pl /\ w.base = base /\ w.status = "PENDING" /\ w.kind = kind
      /\ w.scope = scope /\ w.source = c /\ w.people = people
      /\ w.at = place[1] /\ w.room = place[2] /\ w.parent = None /\ w.n = 0
  BY DEF Asks, NoRequest
<1>6. QED
  BY <1>4, <1>5

LEMMA Proposals ==
    ASSUME IInv, NEW c \in Cohorts, NEW kind \in {"RESCHEDULE", "EXTRA"},
           NEW scope \in {"ONE", "ALL"}, NEW people, NEW place \in Wishes, NEW h,
           Propose(c, kind, scope, people, place, h)
    PROVE  Kept
<1> DEFINE r == Min(Unused(request))
           w == Wish(c, kind, scope, people, place)
           s == [Db EXCEPT !.request[r] = w]
           matched == IF h = {} THEN Tutor(Db, cohort[c].plan) ELSE (CHOOSE i \in h : TRUE).learner
           o == Offered(s, r, Tutor(s, w.plan), matched, place, clock)
           t == Finished(o, r, clock)
           k == cohort[c]
<1>1. /\ Good(Db, {}, weekly, clock) /\ Typed(Db) /\ clock \in Int /\ clock \in Instants
      /\ Db.request = request /\ Db.cohort = cohort /\ Db.seat = seat
      /\ request \in [Requests -> RequestRows] /\ cohort \in [Cohorts -> CohortRows]
      /\ Planned(Db, {}, weekly, clock) /\ Rooted(Db, {})
  BY Standing
<1>2. /\ Writable(c) /\ Unused(request) # {} /\ Unused(cohort) # {}
      /\ people \in Asked(c, scope)
      /\ ~Asking(cohort[c].plan, people)
      /\ CanTake(s, r, w, FALSE, clock)
      /\ UNCHANGED <<clock, weekly, current, post, sweep, edits, faults>>
  BY DEF Propose
<1>3. /\ cohort' = t.cohort /\ seat' = t.seat /\ request' = t.request /\ hint' \subseteq hint
  BY DEF Propose
<1>4. r \in Requests /\ request[r].status = "NONE"
  <2>1. Unused(request) = {i \in Requests : request[i].status = "NONE"} /\ Unused(request) \in SUBSET Nat
    BY <1>1, FreeIds
  <2>2. r \in Unused(request)
    BY <1>2, <2>1, LeastIn
  <2>3. QED
    BY <2>1, <2>2
<1> HIDE DEF r
<1>5. k.status = "SCHEDULED" /\ k.plan \in Plans /\ Known(Db, k.plan)
  BY <1>1, <1>2 DEF Writable, Planned, Known
<1>6. Base(Db, k.plan) \in Pairings
  BY <1>1, <1>5, Tutored
<1>7. people \subseteq Learners /\ people # {} /\ \A l \in people : seat[k.plan][l] = c
  <2>1. \A l \in Roster(Db, c) : l \in Learners /\ seat[k.plan][l] = c
    BY <1>1 DEF Roster
  <2>2. people \subseteq Roster(Db, c) /\ people # {}
    BY <1>2 DEF Asked
  <2>3. QED
    BY <2>1, <2>2
<1>8. place \in Instants \X (Rooms \cup {Online})
  BY PairingsAssumption
<1>9. /\ w.plan = k.plan /\ w.base = Base(Db, k.plan) /\ w.status = "PENDING" /\ w.kind = kind
      /\ w.scope = scope /\ w.source = c /\ w.people = people /\ w.at = place[1] /\ w.room = place[2]
      /\ w.parent = None /\ w.n = 0 /\ w \in RequestRows
  <2> DEFINE base == Base(Db, k.plan)
  <2>1. w = Asks(c, kind, scope, people, place, k.plan, base)
    BY Zenon DEF Wish, Asks
  <2> HIDE DEF w, k
  <2>2. base \in Pairings /\ people \in SUBSET Learners
    BY <1>6, <1>7
  <2>3. QED
    BY <1>5, <1>8, <2>1, <2>2, AskedRow
<1>10. \A i \in Live(Db, {}) : Db.request[i].plan = w.plan => Db.request[i].people \cap w.people = {}
  BY <1>1, <1>2, <1>9 DEF Live, Asking
<1>11. s = With(Db, r, w)
  BY Zenon DEF With
<1> HIDE DEF w, s
<1>12. Proposes(Db, {}, r, w)
  BY <1>1, <1>4, <1>5, <1>7, <1>9, <1>10 DEF Proposes
<1>13. /\ Drafted(s, {}, r, weekly, clock) /\ Honest(Db, s) /\ Rewrites(Db, s, r)
       /\ s.request[r] = w
  BY <1>1, <1>11, <1>12, Written
<1>14. Offers(s, r, w, place, clock)
  <2>1. w.n < MaxOffers
    BY <1>9, Ids
  <2>2. QED
    BY <1>2, <1>8, <1>9, <1>13, <2>1 DEF Offers, SameParty
<1> HIDE DEF matched
<1>15. /\ Good(o, {}, weekly, clock) /\ Honest(s, o) /\ Rewrites(s, o, r)
       /\ o.request[r].status = "PENDING"
  BY <1>1, <1>13, <1>14, OfferedGood
<1> HIDE DEF o
<1>16. r \in Requests \ {} /\ Unused(o.cohort) # {} /\ t = Finished(o, r, clock)
  BY <1>1, <1>2, <1>4, <1>13, <1>15 DEF Rewrites
<1> HIDE DEF t
<1>17. Good(t, {}, weekly, clock) /\ Honest(o, t)
  BY <1>1, <1>15, <1>16, FinishedGood
<1>18. Lawful(Db, t)
  <2>1. Typed(Db) /\ Typed(s) /\ Typed(o) /\ Typed(t)
    BY <1>1, <1>13, <1>15, <1>17 DEF Good, Rewrites
  <2>2. Honest(Db, o)
    BY <1>13, <1>15, <2>1, HonestTwice
  <2>3. Honest(Db, t)
    BY <1>17, <2>1, <2>2, HonestTwice
  <2>4. QED
    BY <2>3, HonestLawful
<1>19. Rows' /\ Mails' /\ Hints' /\ Lawful(Db, Db')
  <2>1. Good(t, {}, weekly', clock') /\ post' \subseteq post /\ clock' \in Int /\ clock <= clock'
    BY <1>1, <1>2, <1>17
  <2>2. QED
    BY <1>3, <1>18, <2>1, Committed
<1>20. Types' /\ Sweeps'
  BY <1>2, SweepsKept DEF IInv, Types
<1>21. QED
  BY <1>19, <1>20 DEF Kept, IInv

(* Once it is split, the request itself is in order again.                    *)
LEMMA Concluded ==
    ASSUME NEW t, NEW wk, NEW now, NEW r \in Requests, Good(t, {r}, wk, now),
           t.request[r].status = "SPLIT", Told(t.request[r], now),
           DOMAIN t.request[r].answer = Audience(t, t.request[r])
    PROVE  Good(t, {}, wk, now)
<1>1. /\ Typed(t) /\ Rooted(t, {r}) /\ Planned(t, {r}, wk, now) /\ Seated(t) /\ OnePerPlace(t)
      /\ Negotiated(t, {r}, now) /\ Disjoint(t, {r})
      /\ Apart(t) /\ Reserved(t, {r}) /\ WeeklyFree(t, {r}, wk, now)
  BY DEF Good
<1>2. Holds(t) \ {} = Holds(t) \ {r} /\ Live(t, {}) = Live(t, {r})
  BY DEF Holds, Live, OpenRequests, Open
<1>3. Rooted(t, {})
  BY <1>1 DEF Rooted
<1>4. Planned(t, {}, wk, now)
  BY <1>1 DEF Planned
<1>5. Negotiated(t, {}, now)
  BY <1>1 DEF Negotiated, Open
<1>6. Disjoint(t, {})
  BY <1>1, <1>2 DEF Disjoint
<1>7. Reserved(t, {})
  BY <1>1, <1>2 DEF Reserved
<1>8. WeeklyFree(t, {}, wk, now)
  BY <1>1, <1>2 DEF WeeklyFree
<1>9. QED
  BY <1>1, <1>3, <1>4, <1>5, <1>6, <1>7, <1>8 DEF Good

LEMMA LearnersFinite ==
    ASSUME NEW S \in SUBSET Learners
    PROVE  IsFiniteSet(S)
<1>1. /\ RosterOf \in [Pairings -> SUBSET Persons] /\ JoinersOf \in [Pairings -> SUBSET Persons]
      /\ IsFiniteSet(Persons)
  BY PairingsAssumption
<1>2. S \subseteq Persons
  BY <1>1 DEF Learners
<1>3. QED
  BY <1>1, <1>2, FS_Subset

(* Nobody sits in a lesson of a request that is still open.                   *)
LEMMA NoSeatYet ==
    ASSUME NEW s, NEW X, NEW wk, NEW now, Planned(s, X, wk, now), Seated(s),
           NEW r \in Requests \ X, s.request[r].status \in Open, NEW l \in Learners
    PROVE  s.seat[r][l] \notin Cohorts
<1>1. SUFFICES ASSUME s.seat[r][l] \in Cohorts PROVE FALSE
  OBVIOUS
<1>2. r \in Plans
  BY DEF Plans
<1>3. s.cohort[s.seat[r][l]].status # "NONE" /\ s.cohort[s.seat[r][l]].plan = r
  BY <1>1, <1>2 DEF Seated
<1>4. QED
  BY <1>1, <1>3 DEF Planned, Open

LEMMA FormalizesSplit ==
    ASSUME IInv, NEW r \in Requests, FormalizeSplit(r)
    PROVE  Kept
<1> DEFINE q == request[r]
           t == FoldSet(LAMBDA l, acc : Child(l, r, acc), [ok |-> TRUE, s |-> Db], q.people)
           v == Close(t.s, r, "SPLIT")
           S == q.people
<1>1. /\ Good(Db, {}, weekly, clock) /\ Typed(Db) /\ clock \in Int /\ clock \in Instants
      /\ Db.request = request /\ Db.cohort = cohort /\ Db.seat = seat
      /\ request \in [Requests -> RequestRows] /\ cohort \in [Cohorts -> CohortRows]
      /\ Planned(Db, {}, weekly, clock) /\ Rooted(Db, {}) /\ Negotiated(Db, {}, clock)
      /\ Disjoint(Db, {}) /\ Seated(Db)
  BY Standing
<1>2. /\ q.status = "SPLIT_REQUESTED"
      /\ cohort[q.source].at > clock
      /\ Cardinality(Unused(request)) >= Cardinality(q.people)
      /\ t.ok /\ Commit(v)
      /\ UNCHANGED <<clock, weekly, current, post, sweep, edits, faults>>
  BY DEF FormalizeSplit
<1>3. t = Children(S, r, Start(Db))
  BY Zenon DEF Children, Start
<1> HIDE DEF t
<1>4. q \in RequestRows /\ q.status \in Open /\ q.status # "NONE"
  BY <1>1, <1>2 DEF Open
<1>5. S \subseteq Learners /\ IsFiniteSet(S)
  <2>1. S \subseteq Learners
    BY <1>4 DEF RequestRows
  <2>2. QED
    BY <2>1, LearnersFinite
<1>6. Told(q, clock) /\ DOMAIN q.answer = Audience(Db, q) /\ Fresh(Db, r)
  BY <1>1, <1>4 DEF Negotiated
<1>7. cohort[q.source].status = "SCHEDULED" /\ cohort[q.source].plan = q.plan
      /\ \A l \in S : seat[q.plan][l] = q.source
  <2>1. /\ cohort[q.source].status \in {"SCHEDULED", "RECORDED"}
        /\ cohort[q.source].plan = q.plan /\ \A l \in S : seat[q.plan][l] = q.source
    BY <1>1, <1>6 DEF Fresh
  <2>2. q.source \in Cohorts
    BY <1>1, <1>4 DEF Rooted
  <2>3. cohort[q.source].at \in Int
    <3>1. cohort[q.source].at \in Instants
      BY <1>1, <2>2 DEF CohortRows
    <3>2. QED
      BY <3>1, Moments
  <2>4. cohort[q.source].status = "RECORDED" => cohort[q.source].at < clock
    BY <1>1, <2>2 DEF Planned
  <2>5. ~(cohort[q.source].at < clock)
    BY <1>1, <1>2, <2>3
  <2>6. QED
    BY <2>1, <2>4, <2>5
<1>8. Splitting(Db, Db, r, S)
  <2>1. Good(Db, {r}, weekly, clock)
    BY <1>1, Wider
  <2>2. Honest(Db, Db)
    BY <1>1, HonestIdle
  <2>3. \A h \in Live(Db, {r}) : request[h].plan = q.plan => request[h].people \cap S = {}
    <3>1. r \in Live(Db, {}) /\ Live(Db, {r}) \subseteq Live(Db, {}) \ {r}
      BY <1>1, <1>4 DEF Live, OpenRequests
    <3>2. QED
      BY <1>1, <3>1 DEF Disjoint
  <2>4. \A l \in S : seat[r][l] \notin Cohorts
    BY <1>1, <1>4, <1>5, NoSeatYet
  <2> HIDE DEF q
  <2>5. QED
    BY <1>1, <1>2, <1>5, <1>7, <2>1, <2>2, <2>3, <2>4 DEF Splitting, q
<1>9. Splitting(Db, t.s, r, {})
  BY <1>1, <1>2, <1>3, <1>8, Split
<1>10. Good(t.s, {r}, weekly, clock) /\ Honest(Db, t.s) /\ t.s.request[r] = q
  BY <1>1, <1>9 DEF Splitting
<1>11. PICK y : y = t.s
  OBVIOUS
<1> DEFINE u == [q EXCEPT !.status = "SPLIT"]
<1>12. u.status = "SPLIT" /\ SameTerms(q, u) /\ u \in RequestRows /\ Told(u, clock)
  <2>1. u.status = "SPLIT" /\ SameTerms(q, u) /\ u \in RequestRows /\ u.answer = q.answer
    BY <1>4 DEF SameTerms, SameParty, RequestRows, Closed
  <2>2. QED
    BY <1>6, <2>1 DEF Told, SameTerms
<1>13. v = Close(y, r, "SPLIT") /\ Typed(y)
  BY <1>10, <1>11 DEF Good
<1> HIDE DEF v
<1>14. Rewrites(y, v, r) /\ v.request[r] = u
  <2>1. y = [cohort |-> y.cohort, seat |-> y.seat, request |-> y.request]
        /\ y.request \in [Requests -> RequestRows] /\ y.request[r] = q
    BY <1>10, <1>11, <1>13 DEF Typed
  <2>2. v = [cohort |-> y.cohort, seat |-> y.seat, request |-> [y.request EXCEPT ![r] = u]]
    BY <1>13, <2>1 DEF Close
  <2> HIDE DEF u
  <2>3. [y.request EXCEPT ![r] = u] \in [Requests -> RequestRows]
    BY <1>12, <2>1
  <2>4. /\ v.cohort = y.cohort /\ v.seat = y.seat /\ v.request = [y.request EXCEPT ![r] = u]
        /\ v = [cohort |-> v.cohort, seat |-> v.seat, request |-> v.request]
    BY <2>2
  <2>5. Typed(v)
    BY <1>13, <2>3, <2>4 DEF Typed
  <2>6. v.request[r] = u /\ \A o \in Requests \ {r} : v.request[o] = y.request[o]
    BY <2>1, <2>4
  <2>7. QED
    BY <2>4, <2>5, <2>6 DEF Rewrites
<1> HIDE DEF u
<1>15. Good(v, {r}, weekly, clock) /\ Honest(y, v)
  <2>1. Good(y, {r}, weekly, clock) /\ y.request[r] = q
    BY <1>10, <1>11
  <2>2. Good(v, {r}, weekly, clock) /\ Evolves(y, v) /\ Stands(y, v) /\ Agreed(y, v)
    BY <1>1, <1>4, <1>12, <1>14, <2>1, Redraft DEF Closed
  <2>3. QED
    BY <2>2 DEF Honest
<1>16. Honest(Db, v)
  BY <1>1, <1>10, <1>11, <1>15, HonestTyped
<1>17. DOMAIN u.answer = Audience(v, u)
  <2>1. Audience(v, v.request[r]) = Audience(Db, Db.request[r])
    BY <1>1, <1>4, <1>16, AudienceKept DEF Honest
  <2>2. QED
    BY <1>1, <1>6, <1>12, <1>14, <2>1 DEF SameTerms
<1>18. Good(v, {}, weekly, clock)
  BY <1>12, <1>14, <1>15, <1>17, Concluded
<1>19. QED
  BY <1>2, <1>16, <1>18, SweepsKept, HonestLawful, Commits

------------------------------------------------------------------------------
(* The steps that only take away.                                             *)
Ends(q, u) ==
    u = q \/ (q.status \in Open /\ u.status \in Closed /\ SameTerms(q, u) /\ u.answer = q.answer)

(* The people of r still sit in its lesson.                                   *)
Rides(t, r) == LET q == t.request[r] IN
    /\ t.cohort[q.source].status \in {"SCHEDULED", "RECORDED"}
    /\ \A l \in q.people : t.seat[q.plan][l] = q.source

(* Lessons that end, requests that close.                                     *)
Reduces(s, t, now) ==
    /\ Typed(t) /\ Shrinks(s, t, now)
    /\ \A r \in Requests : Ends(s.request[r], t.request[r])
    /\ \A r \in Requests : t.request[r].status \in Open => Rides(t, r)
    /\ \A c \in Cohorts, l \in Learners :
          s.cohort[c].status = "RECORDED" /\ s.seat[s.cohort[c].plan][l] = c =>
             t.seat[s.cohort[c].plan][l] = c

LEMMA TargetKnown ==
    ASSUME NEW s, NEW X, Rooted(s, X), Typed(s), NEW r \in Requests, s.request[r].status # "NONE"
    PROVE  /\ Target(s, r) \in Plans /\ s.request[r].plan \in Plans /\ s.request[r].source \in Cohorts
           /\ s.request[r].people \subseteq Learners /\ s.request[r] \in RequestRows
<1>1. /\ s.request[r].plan \in Plans /\ s.request[r].source \in Cohorts
      /\ s.request[r] \in RequestRows
  BY DEF Rooted, Typed
<1>2. s.request[r].parent \in Requests \cup {None} /\ s.request[r].people \subseteq Learners
  BY <1>1 DEF RequestRows
<1>3. QED
  BY <1>1, <1>2 DEF Target, Plans

(* A step that only ends lessons and closes requests.                         *)
LEMMA ReducedGood ==
    ASSUME NEW s, NEW t, NEW wk, NEW now \in Int, NEW now2 \in Int, now <= now2,
           Good(s, {}, wk, now), Reduces(s, t, now2)
    PROVE  Good(t, {}, wk, now2) /\ Lawful(s, t)
<1>1. /\ Typed(s) /\ Rooted(s, {}) /\ Planned(s, {}, wk, now) /\ Seated(s) /\ OnePerPlace(s)
      /\ Negotiated(s, {}, now) /\ Disjoint(s, {})
  BY DEF Good
<1>2. /\ Typed(t) /\ Shrinks(s, t, now2)
      /\ \A r \in Requests : Ends(s.request[r], t.request[r])
      /\ \A r \in Requests : t.request[r].status \in Open => Rides(t, r)
  BY DEF Reduces
<1>3. \A r \in Requests : t.request[r].status \in Open => t.request[r] = s.request[r]
  BY <1>2 DEF Ends, Open, Closed
<1>4. \A r \in Requests : s.request[r] \in RequestRows
  BY <1>1 DEF Typed
<1>5. \A r \in Requests : s.request[r].n \in Int
  BY <1>4, Ids DEF RequestRows
<1>6. Evolves(s, t) /\ NothingNew(s, t)
  <2>1. \A r \in Requests : Numbered(s.request[r], t.request[r])
    BY <1>2, <1>5 DEF Ends, SameTerms, Numbered
  <2>2. \A r \in Requests : s.request[r].status \in Closed => t.request[r] = s.request[r]
    BY <1>2 DEF Ends, Open, Closed
  <2>3. \A r \in Requests : SameParty(s.request[r], t.request[r])
    BY <1>2 DEF Ends, SameTerms, SameParty
  <2>4. \A r \in Requests : s.request[r].status = "NONE" <=> t.request[r].status = "NONE"
    BY <1>2 DEF Ends, Open, Closed
  <2>5. QED
    BY <2>1, <2>2, <2>3, <2>4 DEF Evolves, NothingNew, SameParty
<1>7. \A r \in Requests : s.request[r].status # "NONE" =>
         Audience(t, t.request[r]) = Audience(s, s.request[r])
  BY <1>1, <1>6, AudienceKept
<1>8. HoldsCarried(s, t, {})
  <2>1. ASSUME NEW r \in Holds(t) PROVE r \in Holds(s) /\ Held(s, t, r)
    <3>1. t.request[r] = s.request[r] /\ s.request[r].status = "PENDING" /\ r \in Requests
      BY <1>3, <2>1 DEF Holds, Open
    <3>2. QED
      BY <1>7, <3>1 DEF Holds, Held
  <2>2. QED
    BY <2>1 DEF HoldsCarried
<1>9. /\ Rooted(t, {}) /\ Planned(t, {}, wk, now2) /\ Seated(t) /\ OnePerPlace(t)
      /\ Apart(t) /\ Reserved(t, {}) /\ WeeklyFree(t, {}, wk, now2)
  BY <1>2, <1>6, <1>8, Shrunk
<1>10. Negotiated(t, {}, now2)
  <2>0. Blank(t)
    BY <1>1, <1>2 DEF Negotiated, Blank, Ends, Closed
  <2>1. SUFFICES ASSUME NEW r \in Requests, t.request[r].status # "NONE"
                 PROVE  /\ DOMAIN t.request[r].answer = Audience(t, t.request[r])
                        /\ Told(t.request[r], now2)
                        /\ t.request[r].status \in Open =>
                              /\ Fresh(t, r)
                              /\ t.request[r].cutoff <= t.cohort[t.request[r].source].at
    BY <2>0 DEF Negotiated
  <2> DEFINE q == s.request[r]
             u == t.request[r]
  <2>2. q.status # "NONE" /\ q \in RequestRows
    BY <1>1, <1>6, <2>1 DEF NothingNew, Typed
  <2>3. DOMAIN q.answer = Audience(s, q) /\ Told(q, now)
        /\ (q.status \in Open => Fresh(s, r) /\ q.cutoff <= s.cohort[q.source].at)
    BY <1>1, <2>2 DEF Negotiated
  <2>4. u.n = q.n /\ u.made = q.made /\ u.cutoff = q.cutoff /\ u.answer = q.answer
    BY <1>2 DEF Ends, SameTerms
  <2>5. DOMAIN u.answer = Audience(t, u)
    BY <1>7, <2>2, <2>3, <2>4
  <2>6. Told(u, now2)
    <3>1. q.made \in Int
      BY <2>2, Moments DEF RequestRows
    <3>2. ASSUME NEW x \in DOMAIN q.answer PROVE q.answer[x].sent \in Int
      <4>1. PICK P \in SUBSET Persons : q.answer \in [P -> Answers]
        BY <2>2 DEF RequestRows, Responses
      <4>2. q.answer[x].sent \in Instants \cup {Never}
        BY <3>2, <4>1 DEF Answers
      <4>3. QED
        BY <4>2, Moments DEF Never
    <3>3. Response \in Int
      BY SMTT(60), Ids
    <3> HIDE DEF q, u
    <3>4. QED
      BY <2>3, <2>4, <3>1, <3>2, <3>3 DEF Told
  <2>7. ASSUME u.status \in Open
        PROVE  Fresh(t, r) /\ u.cutoff <= t.cohort[u.source].at
    <3>1. u = q /\ q.status \in Open /\ Rides(t, r)
      BY <1>2, <1>3, <2>7
    <3>2. Fresh(s, r) /\ q.cutoff <= s.cohort[q.source].at
      BY <2>3, <3>1
    <3>3. /\ Target(s, r) \in Plans /\ q.plan \in Plans /\ q.source \in Cohorts
          /\ q.people \subseteq Learners
      BY <1>1, <2>2, TargetKnown
    <3>4. Target(t, r) = Target(s, r)
      BY <3>1 DEF Target
    <3>5. t.cohort[q.source].plan = s.cohort[q.source].plan
          /\ t.cohort[q.source].at = s.cohort[q.source].at
      BY <1>2, <3>3 DEF Shrinks
    <3>6. \A l \in q.people : t.seat[Target(s, r)][l] = s.seat[Target(s, r)][l]
                              \/ t.seat[Target(s, r)][l] = Gone
      BY <1>2, <3>3 DEF Shrinks
    <3>7. q.kind = "EXTRA" => \A l \in q.people : t.seat[Target(s, r)][l] \notin Cohorts
      BY <3>2, <3>6, Ids DEF Fresh
    <3>8. QED
      BY <3>1, <3>2, <3>4, <3>5, <3>7 DEF Fresh, Rides
  <2>8. QED
    BY <2>5, <2>6, <2>7
<1>11. Disjoint(t, {})
  BY <1>1, <1>3 DEF Disjoint, Live, OpenRequests
<1>12. Good(t, {}, wk, now2)
  BY <1>2, <1>9, <1>10, <1>11 DEF Good
<1>13. Stands(s, t)
  <2>1. ASSUME NEW c \in Cohorts, s.cohort[c].status = "RECORDED", NEW l \in Learners
        PROVE  /\ t.cohort[c] = s.cohort[c]
               /\ s.seat[s.cohort[c].plan][l] = c <=> t.seat[s.cohort[c].plan][l] = c
    <3>1. s.cohort[c].plan \in Plans
      BY <1>1, <2>1 DEF Planned
    <3>2. t.cohort[c] = s.cohort[c]
      BY <1>2, <2>1 DEF Shrinks
    <3>3. t.seat[s.cohort[c].plan][l] = s.seat[s.cohort[c].plan][l] \/ t.seat[s.cohort[c].plan][l] = Gone
      BY <1>2, <3>1 DEF Shrinks
    <3>4. s.seat[s.cohort[c].plan][l] = c => t.seat[s.cohort[c].plan][l] = c
      BY <2>1 DEF Reduces
    <3>5. QED
      BY <2>1, <3>2, <3>3, <3>4, Ids
  <2>2. \A c \in Cohorts : s.cohort[c].status = "RECORDED" => t.cohort[c] = s.cohort[c]
    BY <1>2 DEF Shrinks
  <2>3. QED
    BY <2>1, <2>2 DEF Stands
<1>14. ASSUME NEW pl \in Plans, NEW l \in Learners, t.seat[pl][l] \in Cohorts
       PROVE  Spot(t, t.seat[pl][l]) = Spot(s, s.seat[pl][l])
  <2>1. t.seat[pl][l] = s.seat[pl][l]
    BY <1>2, <1>14, Ids DEF Shrinks
  <2>2. t.cohort[t.seat[pl][l]].at = s.cohort[t.seat[pl][l]].at
        /\ t.cohort[t.seat[pl][l]].room = s.cohort[t.seat[pl][l]].room
    BY <1>2, <1>14 DEF Shrinks
  <2>3. QED
    BY <2>1, <2>2 DEF Spot
<1>15. Lawful(s, t)
  BY <1>6, <1>13, <1>14 DEF Lawful
<1>16. QED
  BY <1>12, <1>15

LEMMA StillRides ==
    ASSUME IInv, NEW r \in Requests, request[r].status \in Open
    PROVE  Rides(Db, r) /\ Fresh(Db, r) /\ request[r].cutoff <= cohort[request[r].source].at
<1>1. Negotiated(Db, {}, clock) /\ Db.request = request /\ Db.cohort = cohort
  BY Standing
<1>2. Fresh(Db, r) /\ request[r].cutoff <= cohort[request[r].source].at
  BY <1>1 DEF Negotiated, Open
<1>3. QED
  BY <1>2 DEF Fresh, Rides

LEMMA Ticks ==
    ASSUME IInv, Tick
    PROVE  Kept
<1>1. /\ Good(Db, {}, weekly, clock) /\ Typed(Db) /\ clock \in Int /\ clock \in Instants
      /\ Db.request = request /\ Db.cohort = cohort /\ Db.seat = seat
  BY Standing
<1>2. clock < Last /\ clock' = clock + 1
      /\ UNCHANGED <<weekly, current, db, hint, post, sweep, edits, faults>>
  BY DEF Tick
<1>3. clock' \in Instants /\ clock' \in Int /\ clock <= clock'
  <2>1. Last \in Nat
    BY BoundsAssumption
  <2>2. QED
    BY <1>1, <1>2, <2>1 DEF Instants
<1>4. Reduces(Db, Db, clock')
  <2>1. Shrinks(Db, Db, clock')
    BY DEF Shrinks
  <2>2. \A r \in Requests : Db.request[r].status \in Open => Rides(Db, r)
    BY <1>1, StillRides
  <2>3. QED
    BY <1>1, <2>1, <2>2 DEF Reduces, Ends
<1>5. Good(Db, {}, weekly, clock') /\ Lawful(Db, Db)
  BY <1>1, <1>3, <1>4, ReducedGood
<1>6. cohort' = cohort /\ seat' = seat /\ request' = request /\ hint' = hint /\ post' = post
      /\ weekly' = weekly
  BY <1>2 DEF db
<1>7. Rows' /\ Mails' /\ Hints' /\ Lawful(Db, Db')
  <2>1. Good(Db, {}, weekly', clock')
    BY <1>5, <1>6
  <2>2. QED
    BY <1>1, <1>3, <1>5, <1>6, <2>1, Committed
<1>8. Types'
  BY <1>2, <1>3 DEF IInv, Types
<1>9. Sweeps'
  <2>1. /\ sweep \in [at : Instants \cup {Never}, todo : SUBSET Requests]
        /\ sweep.at = Never <=> sweep.todo = {}
        /\ sweep.at <= clock
    BY DEF IInv, Sweeps
  <2>2. sweep.at \in Int
    <3>1. sweep.at \in Instants \cup {Never}
      BY <2>1
    <3>2. QED
      BY <3>1, Moments DEF Never
  <2>3. sweep.at <= clock'
    BY <1>1, <1>3, <2>1, <2>2
  <2>4. sweep' = sweep
    BY <1>2
  <2>5. QED
    BY <2>1, <2>3, <2>4 DEF Sweeps
<1>10. QED
  BY <1>7, <1>8, <1>9 DEF Kept, IInv

LEMMA Records ==
    ASSUME IInv, NEW c \in Cohorts, Record(c)
    PROVE  Kept
<1> DEFINE t == [Db EXCEPT !.cohort[c].status = "RECORDED"]
           k == [cohort[c] EXCEPT !.status = "RECORDED"]
<1>1. /\ Good(Db, {}, weekly, clock) /\ Typed(Db) /\ clock \in Int
      /\ Db.request = request /\ Db.cohort = cohort /\ Db.seat = seat
      /\ cohort \in [Cohorts -> CohortRows]
  BY Standing
<1>2. /\ cohort[c].status = "SCHEDULED" /\ cohort[c].at + 1 <= clock /\ Commit(t)
      /\ UNCHANGED <<clock, weekly, current, post, sweep, edits, faults>>
  BY DEF Record, Booked, Db
<1>3. /\ k \in CohortRows /\ k.status = "RECORDED" /\ k.plan = cohort[c].plan
      /\ k.at = cohort[c].at /\ k.room = cohort[c].room
  BY <1>1 DEF CohortRows
<1>4. t = [cohort |-> [cohort EXCEPT ![c] = k], seat |-> seat, request |-> request]
  BY <1>1 DEF Db
<1> HIDE DEF t, k
<1>5. /\ t.cohort = [cohort EXCEPT ![c] = k] /\ t.seat = seat /\ t.request = request
      /\ t = [cohort |-> t.cohort, seat |-> t.seat, request |-> t.request]
  BY <1>4
<1>6. \A d \in Cohorts : t.cohort[d] = IF d = c THEN k ELSE cohort[d]
  BY <1>1, <1>5
<1>7. Typed(t)
  BY <1>1, <1>3, <1>5 DEF Typed
<1>8. cohort[c].at < clock
  <2>1. cohort[c].at \in Int
    <3>1. cohort[c].at \in Instants
      BY <1>1 DEF CohortRows
    <3>2. QED
      BY <3>1, Moments
  <2>2. QED
    BY <1>1, <1>2, <2>1
<1>9. Reduces(Db, t, clock)
  <2>1. Shrinks(Db, t, clock)
    BY <1>1, <1>2, <1>3, <1>5, <1>6, <1>8 DEF Shrinks
  <2>2. \A r \in Requests : t.request[r].status \in Open => Rides(t, r)
    <3>1. SUFFICES ASSUME NEW r \in Requests, request[r].status \in Open PROVE Rides(t, r)
      BY <1>5
    <3>2. Rides(Db, r)
      BY <3>1, StillRides
    <3>3. request[r].source \in Cohorts
      BY <1>1, <3>1, TargetKnown DEF Good, Open
    <3>4. QED
      BY <1>1, <1>3, <1>5, <1>6, <3>2, <3>3 DEF Rides
  <2>3. QED
    BY <1>1, <1>5, <1>7, <2>1, <2>2 DEF Reduces, Ends
<1>10. Good(t, {}, weekly, clock) /\ Lawful(Db, t)
  BY <1>1, <1>9, ReducedGood
<1>11. QED
  BY <1>2, <1>10, SweepsKept, Commits

LEMMA Staled ==
    ASSUME NEW q \in RequestRows, q.status \in Open, NEW x \in Closed
    PROVE  /\ [q EXCEPT !.status = x] \in RequestRows
           /\ [q EXCEPT !.status = x].status = x
           /\ Ends(q, [q EXCEPT !.status = x])
<1> DEFINE u == [q EXCEPT !.status = x]
<1>1. u \in RequestRows /\ u.status = x /\ u.answer = q.answer /\ SameTerms(q, u)
  BY DEF RequestRows, SameTerms, SameParty, Closed
<1>2. QED
  BY <1>1 DEF Ends

LEMMA Invalidates ==
    ASSUME IInv, NEW p \in Pairings, Invalidate(p)
    PROVE  Kept
<1> DEFINE lost == {c \in Cohorts : /\ cohort[c].status = "SCHEDULED" /\ cohort[c].at > clock
                                    /\ cohort[c].plan \in PlansOf(p)}
           rows == [c \in Cohorts |-> IF c \in lost
                              THEN [cohort[c] EXCEPT !.status = "CANCELLED"] ELSE cohort[c]]
           seats == [pl \in Plans |-> [l \in Learners |->
                              IF seat[pl][l] \in lost THEN Gone ELSE seat[pl][l]]]
           asked == [r \in Requests |->
                              IF request[r].status \in Open /\ request[r].plan \in PlansOf(p)
                              THEN [request[r] EXCEPT !.status = "STALE"] ELSE request[r]]
           t == [cohort |-> rows, seat |-> seats, request |-> asked]
<1>1. /\ Good(Db, {}, weekly, clock) /\ Typed(Db) /\ clock \in Int
      /\ Db.request = request /\ Db.cohort = cohort /\ Db.seat = seat
      /\ cohort \in [Cohorts -> CohortRows] /\ request \in [Requests -> RequestRows]
      /\ seat \in [Plans -> [Learners -> Cohorts \cup {None, Gone}]]
      /\ Planned(Db, {}, weekly, clock)
  BY Standing
<1>2. /\ Commit(t) /\ UNCHANGED <<clock, weekly, current, post, sweep, edits, faults>>
  BY DEF Invalidate
<1>3. \A c \in lost : /\ [cohort[c] EXCEPT !.status = "CANCELLED"] \in CohortRows
                      /\ rows[c].status = "CANCELLED" /\ rows[c].plan = cohort[c].plan
                      /\ rows[c].at = cohort[c].at /\ rows[c].room = cohort[c].room
  BY <1>1 DEF CohortRows
<1>4. rows \in [Cohorts -> CohortRows] /\ \A c \in Cohorts \ lost : rows[c] = cohort[c]
  BY <1>1, <1>3
<1>5. seats \in [Plans -> [Learners -> Cohorts \cup {None, Gone}]]
      /\ \A pl \in Plans, l \in Learners :
            seats[pl][l] = IF seat[pl][l] \in lost THEN Gone ELSE seat[pl][l]
  BY <1>1
<1>6. /\ asked \in [Requests -> RequestRows] /\ \A r \in Requests : Ends(request[r], asked[r])
      /\ \A r \in Requests : asked[r].status \in Open =>
            /\ asked[r] = request[r] /\ request[r].status \in Open
            /\ request[r].plan \notin PlansOf(p)
  <2>1. ASSUME NEW r \in Requests
        PROVE  /\ asked[r] \in RequestRows /\ Ends(request[r], asked[r])
               /\ asked[r].status \in Open => /\ asked[r] = request[r] /\ request[r].status \in Open
                                              /\ request[r].plan \notin PlansOf(p)
    <3>1. request[r] \in RequestRows
      BY <1>1
    <3>2. CASE request[r].status \in Open /\ request[r].plan \in PlansOf(p)
      <4>1. asked[r] = [request[r] EXCEPT !.status = "STALE"]
        BY <3>2
      <4>2. "STALE" \in Closed /\ "STALE" \notin Open
        BY DEF Closed, Open
      <4>3. QED
        BY <3>1, <3>2, <4>1, <4>2, Staled
    <3>3. CASE ~(request[r].status \in Open /\ request[r].plan \in PlansOf(p))
      BY <3>1, <3>3 DEF Ends
    <3>4. QED
      BY <3>2, <3>3
  <2>2. asked = [r \in Requests |-> asked[r]]
    OBVIOUS
  <2> HIDE DEF asked
  <2>3. QED
    BY <2>1, <2>2
<1> HIDE DEF rows, seats, asked
<1>7. t.cohort = rows /\ t.seat = seats /\ t.request = asked /\ Typed(t)
  BY <1>4, <1>5, <1>6 DEF Typed
<1> HIDE DEF t
<1>8. \A c \in lost : cohort[c].status = "SCHEDULED" /\ cohort[c].plan \in PlansOf(p)
  OBVIOUS
<1> HIDE DEF lost
<1>9. Reduces(Db, t, clock)
  <2>1. Shrinks(Db, t, clock)
    <3>1. ASSUME NEW c \in Cohorts
          PROVE  \/ rows[c] = cohort[c]
                 \/ /\ cohort[c].status = "SCHEDULED" /\ rows[c].status = "CANCELLED"
                    /\ rows[c].plan = cohort[c].plan /\ rows[c].at = cohort[c].at
                    /\ rows[c].room = cohort[c].room
      <4>1. CASE c \in lost
        BY <1>3, <1>8, <4>1
      <4>2. CASE c \notin lost
        BY <1>4, <4>2
      <4>3. QED
        BY <4>1, <4>2
    <3>2. \A pl \in Plans, l \in Learners : seats[pl][l] = seat[pl][l] \/ seats[pl][l] = Gone
      BY <1>5
    <3>3. QED
      BY <1>1, <1>7, <3>1, <3>2 DEF Shrinks
  <2>2. ASSUME NEW r \in Requests, asked[r].status \in Open PROVE Rides(t, r)
    <3>1. asked[r] = request[r] /\ request[r].status \in Open /\ request[r].plan \notin PlansOf(p)
      BY <1>6, <2>2
    <3>2. Rides(Db, r) /\ Fresh(Db, r)
      BY <3>1, StillRides
    <3>3. request[r].source \in Cohorts /\ request[r].plan \in Plans /\ request[r].people \subseteq Learners
      BY <1>1, <3>1, TargetKnown DEF Good, Open
    <3>4. request[r].source \notin lost
      BY <1>1, <1>8, <3>1, <3>2 DEF Fresh
    <3>5. QED
      BY <1>1, <1>4, <1>5, <1>7, <3>1, <3>2, <3>3, <3>4 DEF Rides
  <2>3. ASSUME NEW c \in Cohorts, NEW l \in Learners, cohort[c].status = "RECORDED",
               seat[cohort[c].plan][l] = c
        PROVE  seats[cohort[c].plan][l] = c
    <3>1. cohort[c].plan \in Plans
      BY <1>1, <2>3 DEF Planned
    <3>2. c \notin lost
      BY <1>8, <2>3
    <3>3. QED
      BY <1>5, <2>3, <3>1, <3>2
  <2>4. QED
    BY <1>1, <1>6, <1>7, <2>1, <2>2, <2>3 DEF Reduces
<1>10. Good(t, {}, weekly, clock) /\ Lawful(Db, t)
  BY <1>1, <1>9, ReducedGood
<1>11. QED
  BY <1>2, <1>10, SweepsKept, Commits

LEMMA Releases ==
    ASSUME IInv, NEW p \in Pairings, NEW l \in Learners, Release(p, l)
    PROVE  Kept
<1> DEFINE ahead == {pl \in PlansOf(p) : /\ seat[pl][l] \in Cohorts
                                         /\ cohort[seat[pl][l]].at > clock
                                         /\ cohort[seat[pl][l]].status # "RECORDED"}
           left == {seat[pl][l] : pl \in ahead}
           empty == {c \in left : Roster(Db, c) \subseteq {l}}
           rows == [c \in Cohorts |-> IF c \in left /\ Roster(Db, c) \subseteq {l}
                              THEN [cohort[c] EXCEPT !.status = "CANCELLED"] ELSE cohort[c]]
           seats == [pl \in Plans |-> IF pl \in ahead
                              THEN [seat[pl] EXCEPT ![l] = Gone] ELSE seat[pl]]
           asked == [r \in Requests |->
                              IF /\ request[r].status \in Open /\ request[r].plan \in ahead
                                 /\ l \in request[r].people
                              THEN [request[r] EXCEPT !.status = "STALE"] ELSE request[r]]
           t == [cohort |-> rows, seat |-> seats, request |-> asked]
<1>1. /\ Good(Db, {}, weekly, clock) /\ Typed(Db) /\ clock \in Int
      /\ Db.request = request /\ Db.cohort = cohort /\ Db.seat = seat
      /\ cohort \in [Cohorts -> CohortRows] /\ request \in [Requests -> RequestRows]
      /\ seat \in [Plans -> [Learners -> Cohorts \cup {None, Gone}]]
      /\ Planned(Db, {}, weekly, clock) /\ Seated(Db) /\ Rooted(Db, {})
  BY SMTT(60), Standing
<1>2. /\ Commit(t) /\ UNCHANGED <<clock, weekly, current, post, sweep, edits, faults>>
  BY Zenon DEF Release
<1>3. \A pl \in ahead : /\ pl \in Plans /\ seat[pl][l] \in Cohorts
                        /\ cohort[seat[pl][l]].status # "RECORDED"
  BY DEF PlansOf
<1>4. \A c \in left : /\ c \in Cohorts /\ cohort[c].plan \in ahead /\ seat[cohort[c].plan][l] = c
                      /\ cohort[c].status \in {"SCHEDULED", "CANCELLED"}
  <2>1. SUFFICES ASSUME NEW pl \in ahead
                 PROVE  LET c == seat[pl][l] IN
                        /\ c \in Cohorts /\ cohort[c].plan = pl
                        /\ cohort[c].status \in {"SCHEDULED", "CANCELLED"}
    OBVIOUS
  <2>2. cohort[seat[pl][l]].status # "NONE" /\ cohort[seat[pl][l]].plan = pl
    BY <1>1, <1>3 DEF Seated
  <2>3. cohort[seat[pl][l]] \in CohortRows
    BY <1>1, <1>3
  <2>4. QED
    BY <1>3, <2>2, <2>3 DEF CohortRows
<1>5. \A c \in Cohorts : [cohort[c] EXCEPT !.status = "CANCELLED"] \in CohortRows
  BY <1>1 DEF CohortRows
<1>6. /\ rows \in [Cohorts -> CohortRows]
      /\ \A c \in Cohorts \ empty : rows[c] = cohort[c]
      /\ \A c \in empty : rows[c] = [cohort[c] EXCEPT !.status = "CANCELLED"]
  <2>1. \A c \in Cohorts \ empty : rows[c] = cohort[c]
    OBVIOUS
  <2>2. \A c \in empty : rows[c] = [cohort[c] EXCEPT !.status = "CANCELLED"]
    BY <1>4
  <2>3. rows \in [Cohorts -> CohortRows]
    BY <1>1, <1>5
  <2>4. QED
    BY <2>1, <2>2, <2>3
<1> HIDE DEF left
<1>7. seats \in [Plans -> [Learners -> Cohorts \cup {None, Gone}]]
      /\ \A pl \in Plans, k \in Learners :
            seats[pl][k] = IF pl \in ahead /\ k = l THEN Gone ELSE seat[pl][k]
  <2> HIDE DEF ahead
  <2>1. QED
    BY <1>1
<1> HIDE DEF ahead
<1>8. /\ asked \in [Requests -> RequestRows] /\ \A r \in Requests : Ends(request[r], asked[r])
      /\ \A r \in Requests : asked[r].status \in Open =>
            /\ asked[r] = request[r] /\ request[r].status \in Open
            /\ request[r].plan \in ahead => l \notin request[r].people
  <2> DEFINE ends(r) == /\ request[r].status \in Open /\ request[r].plan \in ahead
                        /\ l \in request[r].people
  <2>1. ASSUME NEW r \in Requests
        PROVE  /\ asked[r] \in RequestRows /\ Ends(request[r], asked[r])
               /\ asked[r].status \in Open => /\ asked[r] = request[r] /\ request[r].status \in Open
                                              /\ request[r].plan \in ahead => l \notin request[r].people
    <3>1. request[r] \in RequestRows
      BY <1>1
    <3>2. CASE ends(r)
      <4>1. asked[r] = [request[r] EXCEPT !.status = "STALE"]
        BY <3>2
      <4>2. "STALE" \in Closed /\ "STALE" \notin Open
        BY DEF Closed, Open
      <4>3. QED
        BY <3>1, <3>2, <4>1, <4>2, Staled
    <3>3. CASE ~ends(r)
      BY <3>1, <3>3 DEF Ends
    <3>4. QED
      BY <3>2, <3>3
  <2>2. asked = [r \in Requests |-> asked[r]]
    OBVIOUS
  <2> HIDE DEF asked
  <2>3. QED
    BY <2>1, <2>2
<1> HIDE DEF rows, seats, asked
<1>9. t.cohort = rows /\ t.seat = seats /\ t.request = asked /\ Typed(t)
  BY <1>6, <1>7, <1>8 DEF Typed
<1> HIDE DEF t
<1>10. \A c \in empty : c \in left /\ Roster(Db, c) \subseteq {l}
  OBVIOUS
<1> HIDE DEF empty
<1>11. Shrinks(Db, t, clock)
  <2>1. ASSUME NEW c \in Cohorts
        PROVE  \/ rows[c] = cohort[c]
               \/ /\ cohort[c].status = "SCHEDULED" /\ rows[c].status = "CANCELLED"
                  /\ rows[c].plan = cohort[c].plan /\ rows[c].at = cohort[c].at
                  /\ rows[c].room = cohort[c].room
    <3>1. CASE c \in empty
      <4>1. cohort[c] \in CohortRows /\ rows[c] = [cohort[c] EXCEPT !.status = "CANCELLED"]
        BY <1>1, <1>6, <3>1
      <4>2. cohort[c].status = "SCHEDULED" \/ cohort[c].status = "CANCELLED"
        BY <1>4, <1>10, <3>1
      <4>3. QED
        BY <4>1, <4>2 DEF CohortRows
    <3>2. CASE c \notin empty
      BY <1>6, <3>2
    <3>3. QED
      BY <3>1, <3>2
  <2>2. \A pl \in Plans, k \in Learners : seats[pl][k] = seat[pl][k] \/ seats[pl][k] = Gone
    BY <1>7
  <2>3. QED
    BY <1>1, <1>9, <2>1, <2>2 DEF Shrinks
<1>12. ASSUME NEW r \in Requests, asked[r].status \in Open PROVE Rides(t, r)
  <2> DEFINE q == request[r]
  <2>1. asked[r] = q /\ q.status \in Open /\ (q.plan \in ahead => l \notin q.people)
    BY <1>8, <1>12
  <2>2. Rides(Db, r) /\ Fresh(Db, r)
    BY <2>1, StillRides
  <2>3. q.source \in Cohorts /\ q.plan \in Plans /\ q.people \subseteq Learners
    BY <1>1, <2>1, TargetKnown DEF Open
  <2>4. q.people # {} /\ cohort[q.source].plan = q.plan /\ cohort[q.source].status # "NONE"
        /\ \A k \in q.people : seat[q.plan][k] = q.source
    BY <1>1, <2>1, <2>2 DEF Rooted, Fresh, Open
  <2>5. q.people \subseteq Roster(Db, q.source)
    BY <1>1, <2>3, <2>4 DEF Roster
  <2>6. q.source \notin empty
    BY <1>4, <1>10, <2>1, <2>4, <2>5
  <2>7. \A k \in q.people : seats[q.plan][k] = q.source
    BY <1>7, <2>1, <2>3, <2>4
  <2>8. QED
    BY <1>1, <1>6, <1>9, <2>1, <2>2, <2>3, <2>6, <2>7 DEF Rides
<1>13. ASSUME NEW c \in Cohorts, NEW k \in Learners, cohort[c].status = "RECORDED",
              seat[cohort[c].plan][k] = c
       PROVE  seats[cohort[c].plan][k] = c
  <2>1. cohort[c].plan \in Plans
    BY <1>1, <1>13 DEF Planned
  <2>2. ~(cohort[c].plan \in ahead /\ k = l)
    BY <1>3, <1>13
  <2>3. QED
    BY <1>7, <1>13, <2>1, <2>2
<1>14. Reduces(Db, t, clock)
  BY <1>1, <1>8, <1>9, <1>11, <1>12, <1>13 DEF Reduces
<1>15. Good(t, {}, weekly, clock) /\ Lawful(Db, t)
  BY <1>1, <1>14, ReducedGood
<1>16. QED
  BY <1>2, <1>15, SweepsKept, Commits

(* Nothing is due: an open offer is not at its cutoff.                        *)
LEMMA NotDue ==
    ASSUME IInv, NEW r \in Requests, request[r].status = "PENDING", Settled(Db, r, clock) = Db
    PROVE  cohort[request[r].source].status = "SCHEDULED"
<1> DEFINE q == request[r]
<1>1. /\ Typed(Db) /\ clock \in Int /\ Db.request = request /\ Db.cohort = cohort
      /\ cohort \in [Cohorts -> CohortRows] /\ request \in [Requests -> RequestRows]
      /\ Planned(Db, {}, weekly, clock) /\ Rooted(Db, {})
  BY Standing
<1>2. Fresh(Db, r) /\ q.cutoff <= cohort[q.source].at
  BY StillRides DEF Open
<1>3. q.source \in Cohorts /\ q \in RequestRows
  BY <1>1, TargetKnown
<1>4. q.cutoff \in Int /\ cohort[q.source].at \in Int
  <2>1. q.cutoff \in Instants /\ cohort[q.source].at \in Instants
    BY <1>1, <1>3 DEF RequestRows, CohortRows
  <2>2. QED
    BY <2>1, Moments
<1>5. ~(q.cutoff <= clock)
  <2>1. SUFFICES ASSUME q.cutoff <= clock PROVE FALSE
    OBVIOUS
  <2>2. Settled(Db, r, clock) = Close(Db, r, "STALE") \/ Settled(Db, r, clock) = Close(Db, r, "EXPIRED")
    BY <1>1, <2>1, Zenon DEF Settled
  <2>3. \A x : Close(Db, r, x).request[r].status = x
    <3>1. Db = [cohort |-> cohort, seat |-> seat, request |-> request]
      BY DEF Db
    <3>2. ASSUME NEW x PROVE Close(Db, r, x).request = [request EXCEPT ![r] = [request[r] EXCEPT !.status = x]]
      BY <3>1 DEF Close
    <3>3. \A x : [request[r] EXCEPT !.status = x].status = x
      BY <1>3 DEF RequestRows
    <3>4. QED
      BY ZenonT(60), <1>1, <3>2, <3>3
  <2>4. QED
    BY <1>1, <2>2, <2>3
<1>6. cohort[q.source].status = "RECORDED" => cohort[q.source].at < clock
  BY <1>1, <1>3 DEF Planned
<1>7. cohort[q.source].status # "RECORDED"
  BY <1>1, <1>2, <1>4, <1>5, <1>6
<1>8. QED
  BY <1>1, <1>2, <1>7 DEF Fresh

(* The last refusal of an individual request: the lesson of its learner is    *)
(* dropped.                                                                   *)
Dropped(s, q, status) ==
    [s EXCEPT !.seat[q.plan] = [l \in Learners |-> IF l \in q.people THEN Gone ELSE @[l]],
              !.cohort[q.source].status = status]

Droppable(s, q, status) ==
    /\ Typed(s) /\ q.plan \in Plans /\ q.source \in Cohorts
    /\ status \in {"SCHEDULED", "CANCELLED"}

LEMMA Drops ==
    ASSUME NEW s, NEW q, NEW status, Droppable(s, q, status),
           NEW t, t = Dropped(s, q, status)
    PROVE  /\ Typed(t) /\ t.request = s.request
           /\ \A c \in Cohorts \ {q.source} : t.cohort[c] = s.cohort[c]
           /\ t.cohort[q.source].status = status /\ t.cohort[q.source].plan = s.cohort[q.source].plan
           /\ t.cohort[q.source].at = s.cohort[q.source].at
           /\ t.cohort[q.source].room = s.cohort[q.source].room
           /\ t.cohort[q.source].moved = s.cohort[q.source].moved
           /\ \A pl \in Plans, l \in Learners :
                 t.seat[pl][l] = IF pl = q.plan /\ l \in q.people THEN Gone ELSE s.seat[pl][l]
<1> DEFINE k == [s.cohort[q.source] EXCEPT !.status = status]
           row == [l \in Learners |-> IF l \in q.people THEN Gone ELSE s.seat[q.plan][l]]
<1>0. /\ Typed(s) /\ q.plan \in Plans /\ q.source \in Cohorts
      /\ status \in {"SCHEDULED", "CANCELLED"}
  BY DEF Droppable
<1> USE <1>0
<1>1. /\ s = [cohort |-> s.cohort, seat |-> s.seat, request |-> s.request]
      /\ s.cohort \in [Cohorts -> CohortRows]
      /\ s.seat \in [Plans -> [Learners -> Cohorts \cup {None, Gone}]]
      /\ s.request \in [Requests -> RequestRows]
  BY DEF Typed
<1>2. /\ k \in CohortRows /\ k.status = status /\ k.plan = s.cohort[q.source].plan
      /\ k.at = s.cohort[q.source].at /\ k.room = s.cohort[q.source].room
      /\ k.moved = s.cohort[q.source].moved
  BY <1>1 DEF CohortRows
<1>3. row \in [Learners -> Cohorts \cup {None, Gone}]
  BY <1>1
<1>4. t = [cohort |-> [s.cohort EXCEPT ![q.source] = k], seat |-> [s.seat EXCEPT ![q.plan] = row],
           request |-> s.request]
  BY <1>1 DEF Dropped
<1>5. \A l \in Learners : row[l] = IF l \in q.people THEN Gone ELSE s.seat[q.plan][l]
  OBVIOUS
<1> HIDE DEF k, row
<1>6. /\ t.cohort = [s.cohort EXCEPT ![q.source] = k] /\ t.seat = [s.seat EXCEPT ![q.plan] = row]
      /\ t.request = s.request
      /\ t = [cohort |-> t.cohort, seat |-> t.seat, request |-> t.request]
  BY <1>4
<1>7. t.cohort \in [Cohorts -> CohortRows] /\ t.seat \in [Plans -> [Learners -> Cohorts \cup {None, Gone}]]
  BY <1>1, <1>2, <1>3, <1>6
<1>8. Typed(t)
  BY <1>1, <1>6, <1>7 DEF Typed
<1>9. t.cohort[q.source] = k /\ \A c \in Cohorts \ {q.source} : t.cohort[c] = s.cohort[c]
  BY <1>1, <1>6
<1>10. \A pl \in Plans : t.seat[pl] = IF pl = q.plan THEN row ELSE s.seat[pl]
  BY <1>1, <1>6
<1>11. \A pl \in Plans, l \in Learners :
                 t.seat[pl][l] = IF pl = q.plan /\ l \in q.people THEN Gone ELSE s.seat[pl][l]
  BY <1>5, <1>10
<1>12. QED
  BY <1>2, <1>6, <1>8, <1>9, <1>11

LEMMA Closes ==
    ASSUME NEW s, Typed(s), NEW r \in Requests, s.request[r].status \in Open, NEW x \in Closed,
           NEW t, t = Close(s, r, x)
    PROVE  /\ Rewrites(s, t, r) /\ Ends(s.request[r], t.request[r])
           /\ t.request[r].status = x
<1> DEFINE u == [s.request[r] EXCEPT !.status = x]
<1>1. /\ s = [cohort |-> s.cohort, seat |-> s.seat, request |-> s.request]
      /\ s.request \in [Requests -> RequestRows] /\ s.request[r] \in RequestRows
      /\ s.cohort \in [Cohorts -> CohortRows]
      /\ s.seat \in [Plans -> [Learners -> Cohorts \cup {None, Gone}]]
  BY DEF Typed
<1>2. u \in RequestRows /\ u.status = x /\ Ends(s.request[r], u)
  BY <1>1, Staled
<1>3. t = [cohort |-> s.cohort, seat |-> s.seat, request |-> [s.request EXCEPT ![r] = u]]
  BY <1>1 DEF Close
<1> HIDE DEF u
<1>4. /\ t.cohort = s.cohort /\ t.seat = s.seat /\ t.request = [s.request EXCEPT ![r] = u]
      /\ t = [cohort |-> t.cohort, seat |-> t.seat, request |-> t.request]
  BY <1>3
<1>5. t.request \in [Requests -> RequestRows] /\ t.request[r] = u
      /\ \A o \in Requests \ {r} : t.request[o] = s.request[o]
  BY <1>1, <1>2, <1>4
<1>6. Typed(t)
  BY <1>1, <1>4, <1>5 DEF Typed
<1>7. QED
  BY <1>2, <1>4, <1>5, <1>6 DEF Rewrites

(* An answer first, then a lawful step.                                       *)
AnsweredFirst(s, y, t, r) ==
    /\ Typed(s) /\ Rewrites(s, y, r) /\ Honest(s, y) /\ Typed(y) /\ Typed(t) /\ r \in Requests
    /\ s.request[r].status = "PENDING" /\ y.request[r].status = "PENDING"

LEMMA LawfulAfter ==
    ASSUME NEW s, NEW y, NEW t, NEW r, AnsweredFirst(s, y, t, r), Lawful(y, t)
    PROVE  Lawful(s, t)
<1>1. /\ Typed(s) /\ Rewrites(s, y, r) /\ Honest(s, y) /\ Typed(y) /\ Typed(t) /\ r \in Requests
      /\ s.request[r].status = "PENDING" /\ y.request[r].status = "PENDING"
  BY DEF AnsweredFirst
<1> USE <1>1
<1>2. y.cohort = s.cohort /\ y.seat = s.seat /\ \A o \in Requests \ {r} : y.request[o] = s.request[o]
  BY DEF Rewrites
<1>3. Evolves(s, y) /\ Evolves(y, t)
  BY DEF Honest, Lawful
<1>4. Evolves(s, t)
  <2>1. \A o \in Requests : s.request[o].n \in Int /\ y.request[o].n \in Int /\ t.request[o].n \in Int
    <3>1. \A o \in Requests : /\ s.request[o] \in RequestRows /\ y.request[o] \in RequestRows
                              /\ t.request[o] \in RequestRows
      BY <1>1 DEF Typed
    <3>2. QED
      BY <3>1, RowNumbers
  <2>2. ASSUME NEW o \in Requests, s.request[o].status # "NONE"
        PROVE  Numbered(s.request[o], t.request[o])
    <3>1. y.request[o].status # "NONE" /\ Numbered(s.request[o], y.request[o])
      BY <1>3, <2>2 DEF Evolves
    <3>2. Numbered(y.request[o], t.request[o])
      BY <1>3, <3>1 DEF Evolves
    <3>3. QED
      BY <2>1, <3>1, <3>2 DEF Numbered
  <2>3. QED
    BY <1>3, <2>2 DEF Evolves
<1>5. Stands(s, t)
  BY <1>2 DEF Lawful, Stands
<1>6. ASSUME NEW pl \in Plans, NEW l \in Learners,
             s.seat[pl][l] \in Cohorts, t.seat[pl][l] \in Cohorts
      PROVE  Spot(t, t.seat[pl][l]) = Spot(s, s.seat[pl][l]) \/ Settles(s, t, pl, l)
  <2>1. Spot(t, t.seat[pl][l]) = Spot(y, y.seat[pl][l]) \/ Settles(y, t, pl, l)
    BY <1>2, <1>6 DEF Lawful
  <2>2. Spot(y, y.seat[pl][l]) = Spot(s, s.seat[pl][l])
    BY <1>2 DEF Spot
  <2>3. Settles(y, t, pl, l) => Settles(s, t, pl, l)
    <3>1. \A o \in Requests : y.request[o].status # "ACCEPTED" => s.request[o].status # "ACCEPTED"
      BY <1>2
    <3>2. QED
      BY <3>1 DEF Settles
  <2>4. QED
    BY <2>1, <2>2, <2>3
<1>7. QED
  BY <1>4, <1>5, <1>6 DEF Lawful

LEMMA Refuses ==
    ASSUME IInv, NEW r \in Requests, NEW n, NEW x \in DOMAIN request[r].answer, Refuse(r, x, n)
    PROVE  Kept
<1> DEFINE q == request[r]
           s == Mark(Db, r, x, "REJECTED")
           status == IF Roster(Db, q.source) \subseteq q.people THEN "CANCELLED" ELSE "SCHEDULED"
           y == Dropped(s, q, status)
           t == Close(IF q.kind = "EXTRA" THEN s ELSE y, r, "CANCELLED")
<1>1. /\ Good(Db, {}, weekly, clock) /\ Typed(Db) /\ clock \in Int
      /\ Db.request = request /\ Db.cohort = cohort /\ Db.seat = seat
      /\ cohort \in [Cohorts -> CohortRows] /\ request \in [Requests -> RequestRows]
      /\ Planned(Db, {}, weekly, clock) /\ Rooted(Db, {}) /\ Disjoint(Db, {})
  BY Standing
<1>2. /\ q.status = "PENDING" /\ Settled(Db, r, clock) = Db /\ Commit(t)
      /\ UNCHANGED <<clock, weekly, current, post, sweep, edits, faults>>
  BY Zenon DEF Refuse, Answerable, Mark, Dropped
<1>3. /\ q \in RequestRows /\ q.plan \in Plans /\ q.source \in Cohorts /\ q.people \subseteq Learners
      /\ q.status # "NONE" /\ q.status \in Open
  BY <1>1, <1>2, TargetKnown DEF Open
<1>4. status \in {"SCHEDULED", "CANCELLED"}
  OBVIOUS
<1>5. /\ Good(s, {}, weekly, clock) /\ Honest(Db, s) /\ Rewrites(Db, s, r)
      /\ s.request[r].status = "PENDING" /\ SameTerms(q, s.request[r])
  BY <1>1, <1>2, Rejected
<1> HIDE DEF s, t
<1>6. /\ Typed(s) /\ s.cohort = cohort /\ s.seat = seat /\ \A o \in Requests \ {r} : s.request[o] = request[o]
  BY <1>1, <1>5 DEF Rewrites
<1>7. CASE q.kind = "EXTRA"
  <2>1. t = Close(s, r, "CANCELLED")
    BY <1>7 DEF t
  <2>2. "CANCELLED" \in Closed \cup {"SPLIT_REQUESTED"} /\ r \in Requests \ {} /\ s.request[r].status \in Open
    BY <1>5 DEF Closed, Open
  <2>3. Good(t, {}, weekly, clock) /\ Honest(s, t)
    BY <1>1, <1>5, <2>1, <2>2, Quits DEF Honest
  <2>4. Honest(Db, t)
    BY <1>1, <1>5, <2>3, HonestTyped
  <2>5. QED
    BY <1>2, <2>3, <2>4, SweepsKept, HonestLawful, Commits
<1>8. CASE q.kind # "EXTRA"
  <2>1. t = Close(y, r, "CANCELLED")
    BY <1>8, Zenon DEF t
  <2>2. cohort[q.source].status = "SCHEDULED" /\ Fresh(Db, r)
    BY <1>2, <1>3, NotDue, StillRides
  <2> DEFINE seated(pl, l) == IF pl = q.plan /\ l \in q.people THEN Gone ELSE seat[pl][l]
  <2>3. /\ Typed(y) /\ y.request = s.request
        /\ \A c \in Cohorts \ {q.source} : y.cohort[c] = cohort[c]
        /\ y.cohort[q.source].status = status /\ y.cohort[q.source].plan = cohort[q.source].plan
        /\ y.cohort[q.source].at = cohort[q.source].at
        /\ y.cohort[q.source].room = cohort[q.source].room
        /\ y.cohort[q.source].moved = cohort[q.source].moved
        /\ \A pl \in Plans, l \in Learners : y.seat[pl][l] = seated(pl, l)
    <3>1. y = Dropped(s, q, status)
      OBVIOUS
    <3> HIDE DEF y, status, q
    <3>2. /\ Typed(y) /\ y.request = s.request
          /\ \A c \in Cohorts \ {q.source} : y.cohort[c] = s.cohort[c]
          /\ y.cohort[q.source].status = status /\ y.cohort[q.source].plan = s.cohort[q.source].plan
          /\ y.cohort[q.source].at = s.cohort[q.source].at
          /\ y.cohort[q.source].room = s.cohort[q.source].room
          /\ y.cohort[q.source].moved = s.cohort[q.source].moved
          /\ \A pl \in Plans, l \in Learners :
                 y.seat[pl][l] = IF pl = q.plan /\ l \in q.people THEN Gone ELSE s.seat[pl][l]
      <4>1. Droppable(s, q, status)
        BY <1>3, <1>4, <1>6 DEF Droppable
      <4>2. QED
        BY <3>1, <4>1, Drops
    <3>3. QED
      BY <1>6, <3>2
  <2> HIDE DEF y, q
  <2>4. /\ Rewrites(y, t, r) /\ Ends(s.request[r], t.request[r]) /\ t.request[r].status = "CANCELLED"
    BY <1>5, <2>1, <2>3, Closes DEF Open, Closed
  <2>5. /\ Typed(t) /\ t.cohort = y.cohort /\ t.seat = y.seat
        /\ \A o \in Requests \ {r} : t.request[o] = request[o]
    BY <1>6, <2>3, <2>4 DEF Rewrites
  <2>6. \A o \in Requests : Ends(s.request[o], t.request[o])
    BY <1>6, <2>4, <2>5 DEF Ends
  <2>7. y.cohort[q.source] = [cohort[q.source] EXCEPT !.status = status]
    <3>1. y.cohort[q.source] \in CohortRows /\ cohort[q.source] \in CohortRows
      BY <1>1, <1>3, <2>3 DEF Typed
    <3> HIDE DEF status
    <3>2. QED
      BY <2>3, <3>1 DEF CohortRows
  <2>8. status = "SCHEDULED" => y.cohort[q.source] = cohort[q.source]
    <3>1. y.cohort[q.source] \in CohortRows /\ cohort[q.source] \in CohortRows
      BY <1>1, <1>3, <2>3 DEF Typed
    <3> HIDE DEF status
    <3>2. QED
      BY <2>2, <2>3, <3>1 DEF CohortRows
  <2>9. Shrinks(s, t, clock)
    <3>1. ASSUME NEW c \in Cohorts
          PROVE  \/ t.cohort[c] = s.cohort[c]
                 \/ /\ s.cohort[c].status = "SCHEDULED" /\ t.cohort[c].status = "CANCELLED"
                    /\ t.cohort[c].plan = s.cohort[c].plan /\ t.cohort[c].at = s.cohort[c].at
                    /\ t.cohort[c].room = s.cohort[c].room
      <4>1. CASE c = q.source
        BY <1>4, <1>6, <2>2, <2>3, <2>5, <2>8, <4>1
      <4>2. CASE c # q.source
        BY <1>6, <2>3, <2>5, <4>2
      <4>3. QED
        BY <4>1, <4>2
    <3>2. \A pl \in Plans, l \in Learners : t.seat[pl][l] = s.seat[pl][l] \/ t.seat[pl][l] = Gone
      BY <1>6, <2>3, <2>5
    <3>3. QED
      BY <3>1, <3>2 DEF Shrinks
  <2>10. ASSUME NEW o \in Requests, t.request[o].status \in Open PROVE Rides(t, o)
    <3> DEFINE h == request[o]
    <3>1. o # r /\ t.request[o] = h /\ h.status \in Open /\ h.status # "NONE"
      BY <2>4, <2>5, <2>10 DEF Open
    <3>2. Rides(Db, o) /\ Fresh(Db, o)
      BY <3>1, StillRides
    <3>3. h.plan \in Plans /\ h.source \in Cohorts /\ h.people \subseteq Learners /\ h.people # {}
      BY <1>1, <3>1, TargetKnown DEF Rooted
    <3>4. /\ cohort[h.source].plan = h.plan /\ cohort[h.source].status \in {"SCHEDULED", "RECORDED"}
          /\ \A l \in h.people : seat[h.plan][l] = h.source
      BY <1>1, <3>2 DEF Fresh
    <3>5. h.plan = q.plan => h.people \cap q.people = {}
      <4>1. o \in Live(Db, {}) /\ r \in Live(Db, {})
        BY <1>1, <1>3, <3>1 DEF Live, OpenRequests, q
      <4>2. QED
        BY <1>1, <3>1, <4>1 DEF Disjoint, q
    <3>6. \A l \in h.people : t.seat[h.plan][l] = h.source
      BY <2>3, <2>5, <3>3, <3>4, <3>5
    <3>7. t.cohort[h.source].status \in {"SCHEDULED", "RECORDED"}
      <4>1. CASE h.source # q.source
        BY <2>3, <2>5, <3>3, <3>4, <4>1
      <4>2. CASE h.source = q.source
        <5>1. h.plan = q.plan
          BY <1>1, <2>2, <3>4, <4>2 DEF Fresh, q
        <5>2. h.people \subseteq Roster(Db, q.source)
          BY <1>1, <3>3, <3>4, <4>2 DEF Roster
        <5>3. ~(Roster(Db, q.source) \subseteq q.people)
          BY <3>3, <3>5, <5>1, <5>2
        <5>4. QED
          BY <2>3, <2>5, <4>2, <5>3
      <4>3. QED
        BY <4>1, <4>2
    <3>8. QED
      BY <3>1, <3>6, <3>7 DEF Rides
  <2>11. ASSUME NEW c \in Cohorts, NEW l \in Learners, cohort[c].status = "RECORDED",
                seat[cohort[c].plan][l] = c
         PROVE  t.seat[cohort[c].plan][l] = c
    <3>1. cohort[c].plan \in Plans
      BY <1>1, <2>11 DEF Planned
    <3>2. ~(cohort[c].plan = q.plan /\ l \in q.people)
      BY <1>1, <2>2, <2>11 DEF Fresh, q
    <3>3. QED
      BY <2>3, <2>5, <2>11, <3>1, <3>2
  <2>12. Reduces(s, t, clock)
    BY <1>6, <2>5, <2>6, <2>9, <2>10, <2>11 DEF Reduces
  <2>13. Good(t, {}, weekly, clock) /\ Lawful(s, t)
    BY <1>1, <1>5, <2>12, ReducedGood
  <2>14. Lawful(Db, t)
    <3>1. AnsweredFirst(Db, s, t, r)
      BY <1>1, <1>2, <1>5, <1>6, <2>5 DEF AnsweredFirst, q
    <3>2. QED
      BY <2>13, <3>1, LawfulAfter
  <2>15. QED
    BY <1>2, <2>13, <2>14, SweepsKept, Commits
<1>9. QED
  BY <1>7, <1>8

------------------------------------------------------------------------------
(* Notices, sweeps and suggestions.                                           *)
LEMMA Idle ==
    ASSUME IInv, UNCHANGED <<clock, weekly, db>>
    PROVE  /\ Rows' /\ Lawful(Db, Db')
           /\ post' \subseteq post => Mails'
           /\ hint' \subseteq hint => Hints'
<1>1. Db' = Db /\ clock' = clock /\ weekly' = weekly /\ cohort' = cohort /\ seat' = seat
      /\ request' = request
  BY DEF Db, db
<1>2. Rows'
  BY <1>1 DEF IInv, Rows
<1>3. Lawful(Db, Db)
  BY Standing, HonestIdle, HonestLawful
<1>4. Lawful(Db, Db')
  BY <1>1, <1>3
<1>5. post' \subseteq post => Mails'
  BY <1>1 DEF IInv, Mails
<1>6. hint' \subseteq hint => Hints'
  BY HintsKept DEF IInv
<1>7. QED
  BY <1>2, <1>4, <1>5, <1>6

LEMMA Edits ==
    ASSUME IInv, NEW p \in Pairings, Edit(p)
    PROVE  Kept
<1>1. /\ edits < MaxEdits /\ edits' = edits + 1
      /\ current' = [current EXCEPT ![p] = ~current[p]]
      /\ UNCHANGED <<clock, weekly, db, hint, post, sweep, faults>>
  BY DEF Edit
<1>2. edits' \in 0 .. MaxEdits
  <2>1. MaxEdits \in Nat
    BY BoundsAssumption
  <2>2. edits \in 0 .. MaxEdits
    BY DEF IInv, Types
  <2>3. QED
    BY <1>1, <2>1, <2>2
<1>3. current' \in [Pairings -> BOOLEAN]
  BY <1>1 DEF IInv, Types
<1>4. Types'
  BY <1>1, <1>2, <1>3 DEF IInv, Types
<1>5. QED
  BY <1>1, <1>4, Idle, SweepsKept DEF Kept, IInv

LEMMA FaultCounted ==
    ASSUME IInv, faults < MaxFaults, faults' = faults + 1,
           UNCHANGED <<clock, weekly, current, edits>>
    PROVE  Types'
<1>1. faults' \in 0 .. MaxFaults
  <2>1. MaxFaults \in Nat
    BY BoundsAssumption
  <2>2. faults \in 0 .. MaxFaults
    BY DEF IInv, Types
  <2>3. QED
    BY <2>1, <2>2
<1>2. QED
  BY <1>1 DEF IInv, Types

LEMMA Loses ==
    ASSUME IInv, NEW m \in post, Lose(m)
    PROVE  Kept
<1>1. /\ faults < MaxFaults /\ faults' = faults + 1 /\ post' \subseteq post
      /\ UNCHANGED <<clock, weekly, current, db, hint, sweep, edits>>
  BY DEF Lose
<1>2. QED
  BY <1>1, FaultCounted, Idle, SweepsKept DEF Kept, IInv

LEMMA TypesKept ==
    ASSUME IInv, UNCHANGED <<clock, weekly, current, edits, faults>>
    PROVE  Types'
BY DEF IInv, Types

LEMMA StartsSweep ==
    ASSUME IInv, StartSweep
    PROVE  Kept
<1>1. /\ OpenRequests(Db) # {} /\ sweep' = [at |-> clock, todo |-> OpenRequests(Db)]
      /\ UNCHANGED <<clock, weekly, current, db, hint, post, edits, faults>>
  BY DEF StartSweep
<1>2. clock \in Instants /\ clock \in Nat
  BY Standing, Moments
<1>3. OpenRequests(Db) \in SUBSET Requests
  BY DEF OpenRequests
<1>4. clock # Never /\ clock <= clock
  BY <1>2 DEF Never
<1>5. Sweeps'
  BY <1>1, <1>2, <1>3, <1>4 DEF Sweeps
<1>6. QED
  BY <1>1, <1>5, Idle, TypesKept DEF Kept, IInv

LEMMA AbandonsSweep ==
    ASSUME IInv, AbandonSweep
    PROVE  Kept
<1>1. /\ faults < MaxFaults /\ faults' = faults + 1 /\ sweep' = [at |-> Never, todo |-> {}]
      /\ UNCHANGED <<clock, weekly, current, db, hint, post, edits>>
  BY DEF AbandonSweep
<1>2. Never <= clock
  <2>1. clock \in Nat
    BY Standing, Moments
  <2>2. QED
    BY <2>1 DEF Never
<1>3. Sweeps'
  BY <1>1, <1>2 DEF Sweeps
<1>4. QED
  BY <1>1, <1>3, FaultCounted, Idle DEF Kept, IInv

LEMMA Suggests ==
    ASSUME IInv, NEW c \in Cohorts, NEW l \in Learners, NEW place \in Wishes, Suggest(c, l, place)
    PROVE  Kept
<1> DEFINE h == [cohort |-> c, learner |-> l, place |-> place]
<1>1. /\ Cardinality(hint) < MaxHints /\ hint' = hint \cup {h}
      /\ UNCHANGED <<clock, weekly, current, db, post, sweep, edits, faults>>
  BY DEF Suggest
<1>2. IsFiniteSet(hint) /\ Cardinality(hint) \in Nat
  BY FS_CardinalityType DEF IInv, Hints
<1> HIDE DEF h
<1>3. IsFiniteSet(hint') /\ Cardinality(hint') <= Cardinality(hint) + 1
  <2>1. IsFiniteSet(hint \cup {h}) /\ (Cardinality(hint \cup {h}) = Cardinality(hint)
                                       \/ Cardinality(hint \cup {h}) = Cardinality(hint) + 1)
    BY <1>2, FS_AddElement
  <2>2. QED
    BY <1>1, <1>2, <2>1
<1>4. MaxHints \in Nat
  BY BoundsAssumption
<1>5. Cardinality(hint') \in Nat
  BY <1>3, FS_CardinalityType
<1>6. Hints'
  BY <1>1, <1>2, <1>3, <1>4, <1>5 DEF Hints
<1>7. QED
  BY <1>1, <1>6, Idle, TypesKept, SweepsKept DEF Kept, IInv

LEMMA Mailed ==
    ASSUME IInv, NEW r \in Requests, NEW x \in DOMAIN request[r].answer, Mail(r, x)
    PROVE  Kept
<1> DEFINE q == request[r]
           m == [request |-> r, n |-> q.n, to |-> x, at |-> clock]
<1>1. /\ q.status = "PENDING" /\ post' = post \cup {m}
      /\ UNCHANGED <<clock, weekly, current, db, hint, sweep, edits, faults>>
  BY DEF Mail
<1>2. /\ clock \in Instants /\ clock \in Int /\ request \in [Requests -> RequestRows]
      /\ Negotiated(Db, {}, clock) /\ Db.request = request
  BY Standing
<1>3. q \in RequestRows /\ q.status # "NONE"
  BY <1>1, <1>2
<1>4. Told(q, clock)
  BY <1>2, <1>3 DEF Negotiated
<1>5. 1 <= q.n /\ q.made <= clock
  BY <1>4 DEF Told
<1>6. q.n \in 1 .. MaxOffers
  <2>1. q.n \in 0 .. MaxOffers
    BY <1>3 DEF RequestRows
  <2>2. MaxOffers \in Nat
    BY Ids
  <2> HIDE DEF q
  <2>3. QED
    BY <1>5, <2>1, <2>2
<1>7. x \in Persons
  <2>1. PICK P \in SUBSET Persons : q.answer \in [P -> Answers]
    BY <1>3 DEF RequestRows, Responses
  <2>2. QED
    BY <2>1
<1>8. m \in [request : Requests, n : 1 .. MaxOffers, to : Persons, at : Instants]
  <2> HIDE DEF q
  <2>1. QED
    BY <1>2, <1>6, <1>7
<1>9. Posted(q, m, clock)
  <2>1. m.at = clock /\ m.n = q.n /\ m.to = x
    OBVIOUS
  <2>2. q.n <= q.n /\ clock <= clock
    BY <1>2, <1>3, RowNumbers
  <2>3. m.to \in DOMAIN q.answer
    BY <2>1
  <2> HIDE DEF m, q
  <2>4. QED
    BY <1>3, <1>5, <2>1, <2>2, <2>3 DEF Posted
<1>10. m.request = r
  OBVIOUS
<1>11. request' = request /\ clock' = clock
  BY <1>1 DEF db
<1>12. Mails'
  <2> HIDE DEF m
  <2>1. /\ post \subseteq [request : Requests, n : 1 .. MaxOffers, to : Persons, at : Instants]
        /\ \A k \in post : Posted(request[k.request], k, clock)
    BY DEF IInv, Mails
  <2>2. post' \subseteq [request : Requests, n : 1 .. MaxOffers, to : Persons, at : Instants]
    BY <1>1, <1>8, <2>1
  <2>3. \A k \in post' : Posted(request'[k.request], k, clock')
    BY <1>1, <1>9, <1>10, <1>11, <2>1
  <2>4. QED
    BY <2>2, <2>3 DEF Mails
<1>13. QED
  BY <1>1, <1>12, Idle, TypesKept, SweepsKept DEF Kept, IInv

(* The provider's time and the deadline that follows from it.                 *)
Stamp(f, r, x, v, w) == [f EXCEPT ![r].answer[x].sent = v, ![r].answer[x].due = w]
Stamped(q, x, v, w) == [q.answer EXCEPT ![x] = [q.answer[x] EXCEPT !.sent = v, !.due = w]]

Restated(f, r, a) == [f EXCEPT ![r] = Saying(f[r], a)]

LEMMA Stamps ==
    ASSUME NEW f \in [Requests -> RequestRows], NEW r \in Requests,
           NEW x \in DOMAIN f[r].answer, NEW v \in Instants, NEW w \in Instants \cup {Never}
    PROVE  Stamp(f, r, x, v, w) = Restated(f, r, Stamped(f[r], x, v, w))
<1> DEFINE q == f[r]
           y == [q.answer[x] EXCEPT !.sent = v]
           a == [q.answer EXCEPT ![x] = y]
           z == [y EXCEPT !.due = w]
           g == [f EXCEPT ![r] = Saying(q, a)]
           b == [a EXCEPT ![x] = z]
<1>1. q \in RequestRows
  OBVIOUS
<1>2. PICK P \in SUBSET Persons : q.answer \in [P -> Answers]
  BY <1>1 DEF RequestRows, Responses
<1>3. [f EXCEPT ![r].answer[x].sent = v] = g
  <2> HIDE DEF y
  <2>1. QED
    BY DEF Saying, y
<1>4. y \in Answers
  BY <1>2 DEF Answers
<1> HIDE DEF y
<1>5. a \in [P -> Answers] /\ a[x] = y /\ x \in P
  BY <1>2, <1>4
<1>6. Saying(q, a) \in RequestRows /\ Saying(q, a).answer = a
  <2>1. a \in Responses
    BY <1>5 DEF Responses
  <2> HIDE DEF a
  <2>2. QED
    BY <1>1, <2>1 DEF Saying, RequestRows
<1>7. Stamp(f, r, x, v, w) = [g EXCEPT ![r].answer[x].due = w]
  BY <1>3 DEF Stamp
<1> HIDE DEF a
<1>8. g \in [Requests -> RequestRows] /\ g[r] = Saying(q, a) /\ g[r].answer = a
  BY <1>6
<1>9. [g EXCEPT ![r].answer[x].due = w] = [g EXCEPT ![r] = Saying(g[r], b)]
  <2> HIDE DEF g
  <2>1. [g EXCEPT ![r].answer[x].due = w] = [g EXCEPT ![r] = [g[r] EXCEPT !.answer = [g[r].answer EXCEPT ![x] = [g[r].answer[x] EXCEPT !.due = w]]]]
    BY <1>8
  <2>2. g[r].answer[x] = y /\ g[r].answer = a
    BY <1>5, <1>8
  <2>3. QED
    BY <2>1, <2>2 DEF Saying
<1>10. Saying(g[r], b) = Saying(q, b)
  <2> HIDE DEF b, g
  <2>1. Saying(Saying(q, a), b) = Saying(q, b)
    BY <1>1 DEF Saying, RequestRows
  <2>2. QED
    BY <1>8, <2>1
<1>11. [g EXCEPT ![r] = Saying(q, b)] = [f EXCEPT ![r] = Saying(q, b)]
  OBVIOUS
<1>12. b = Stamped(q, x, v, w)
  BY <1>2, <1>5 DEF Stamped, a, y
<1>13. QED
  BY <1>7, <1>9, <1>10, <1>11, <1>12, Zenon DEF Restated

LEMMA Deliveries ==
    ASSUME IInv, NEW m \in post, Delivered(m)
    PROVE  Kept
<1> DEFINE r == m.request
           q == request[r]
           x == m.to
           due == m.at + Response
           w == IF due < q.cutoff THEN due ELSE Never
<1>1. /\ Good(Db, {}, weekly, clock) /\ Typed(Db) /\ clock \in Int /\ Db.request = request
      /\ Db.cohort = cohort /\ Db.seat = seat /\ Negotiated(Db, {}, clock)
      /\ request \in [Requests -> RequestRows]
  BY Standing
<1>2. /\ post' \subseteq post
      /\ UNCHANGED <<clock, weekly, current, cohort, seat, hint, sweep, edits, faults>>
      /\ ~Wanted(q, m) => request' = request
      /\ Wanted(q, m) => request' = Stamp(request, r, x, m.at, w)
  BY Zenon DEF Delivered, Stamp
<1>3. r \in Requests /\ m.at \in Instants /\ Posted(q, m, clock)
  <2>1. m \in [request : Requests, n : 1 .. MaxOffers, to : Persons, at : Instants]
    BY DEF IInv, Mails
  <2>2. Posted(q, m, clock)
    BY DEF IInv, Mails
  <2>3. QED
    BY <2>1, <2>2
<1>4. CASE ~Wanted(q, m)
  <2>1. UNCHANGED <<clock, weekly, db>>
    BY <1>2, <1>4 DEF db
  <2>2. post' \subseteq post /\ hint' \subseteq hint
    BY <1>2
  <2>3. Rows' /\ Lawful(Db, Db') /\ Mails' /\ Hints'
    BY <2>1, <2>2, Idle
  <2>4. QED
    BY <1>2, <2>3, TypesKept, SweepsKept DEF Kept, IInv
<1>5. CASE Wanted(q, m)
  <2>1. /\ q.status = "PENDING" /\ q.n = m.n /\ q.answer[x].sent = Never
    BY <1>5 DEF Wanted
  <2>2. q.made <= m.at /\ x \in DOMAIN q.answer /\ m.at <= clock
    BY <1>3, <2>1 DEF Posted
  <2>3. q \in RequestRows /\ q.cutoff \in Instants /\ m.at \in Int /\ q.made \in Int /\ q.cutoff \in Int
    <3>1. q \in RequestRows
      BY <1>1, <1>3
    <3>2. QED
      BY <1>3, <3>1, RowNumbers, Moments DEF RequestRows
  <2>4. Response \in Nat
    BY Ids
  <2>5. m.at # Never
    BY <1>3, Ids
  <2>6. w \in Instants \cup {Never} /\ (w # Never => w = m.at + Response /\ w < q.cutoff)
    <3>1. CASE due < q.cutoff
      <4>1. due \in Instants
        <5>1. m.at \in 0 .. Last /\ q.cutoff \in 0 .. Last /\ Last \in Nat
          BY <1>3, <2>3, BoundsAssumption DEF Instants
        <5> HIDE DEF q
        <5>2. due \in 0 .. Last
          BY <2>4, <3>1, <5>1
        <5>3. QED
          BY <5>2 DEF Instants
      <4>2. w = due
        BY <3>1
      <4>3. QED
        BY <3>1, <4>1, <4>2
    <3>2. CASE ~(due < q.cutoff)
      BY <3>2
    <3>3. QED
      BY <3>1, <3>2
  <2> HIDE DEF w
  <2> DEFINE a == Stamped(q, x, m.at, w)
  <2>7. PICK P \in SUBSET Persons : q.answer \in [P -> Answers]
    BY <2>3 DEF RequestRows, Responses
  <2> DEFINE z == [q.answer[x] EXCEPT !.sent = m.at, !.due = w]
  <2>8. z \in Answers /\ z.sent = m.at /\ z.due = w /\ z.by = q.answer[x].by
    BY ZenonT(60), <1>3, <2>2, <2>6, <2>7 DEF Answers
  <2> HIDE DEF z
  <2>9. a \in [P -> Answers] /\ \A p \in P : a[p] = IF p = x THEN z ELSE q.answer[p]
    BY <2>2, <2>7, <2>8 DEF Stamped, z
  <2>10. a \in Responses /\ DOMAIN a = DOMAIN q.answer /\ DOMAIN a = P
    BY <2>7, <2>9 DEF Responses
  <2> HIDE DEF a
  <2>11. Told(q, clock)
    BY <1>1, <1>3, <2>1 DEF Negotiated
  <2>12. Told(Saying(q, a), clock)
    <3>1. /\ Saying(q, a).n = q.n /\ Saying(q, a).made = q.made /\ Saying(q, a).cutoff = q.cutoff
          /\ Saying(q, a).answer = a
      BY <2>3 DEF Saying, RequestRows
    <3>2. q.answer[x].by # "TIMEOUT"
      BY <2>1, <2>2, <2>11 DEF Told
    <3>3. ASSUME NEW p \in P
          PROVE  /\ a[p].sent # Never => q.made <= a[p].sent
                 /\ a[p].due # Never => /\ a[p].sent # Never /\ a[p].due = a[p].sent + Response
                                        /\ a[p].due < q.cutoff
                 /\ a[p].by = "TIMEOUT" => /\ a[p].sent # Never /\ a[p].sent + Response <= clock
                                           /\ a[p].sent + Response < q.cutoff
      <4>1. CASE p = x
        BY <2>2, <2>5, <2>6, <2>8, <2>9, <3>2, <4>1
      <4>2. CASE p # x
        BY <2>7, <2>9, <2>11, <4>2 DEF Told
      <4>3. QED
        BY <4>1, <4>2
    <3>4. QED
      BY <2>10, <2>11, <3>1, <3>3 DEF Told
  <2> DEFINE t == Heard(Db, r, a)
  <2>13. Good(t, {}, weekly, clock) /\ Honest(Db, t)
    BY <1>1, <1>3, <2>1, <2>10, <2>12, Voiced
  <2>14. request' = t.request /\ cohort' = t.cohort /\ seat' = t.seat
    <3>1. request' = Stamp(request, r, x, m.at, w)
      BY <1>2, <1>5
    <3>2. Stamp(request, r, x, m.at, w) = [request EXCEPT ![r] = Saying(q, a)]
      <4> HIDE DEF r, x
      <4>1. x \in DOMAIN request[r].answer /\ request \in [Requests -> RequestRows]
            /\ r \in Requests /\ m.at \in Instants /\ w \in Instants \cup {Never}
        BY <1>1, <1>3, <2>2, <2>6
      <4>2. Stamp(request, r, x, m.at, w) = Restated(request, r, Stamped(request[r], x, m.at, w))
        BY <4>1, Stamps
      <4>3. QED
        BY <4>2, Zenon DEF a, Restated
    <3>3. t.request = [request EXCEPT ![r] = Saying(q, a)] /\ t.cohort = cohort /\ t.seat = seat
      BY <1>1 DEF Heard
    <3>4. QED
      BY <1>2, <3>1, <3>2, <3>3
  <2> HIDE DEF t
  <2>15. Good(t, {}, weekly', clock') /\ Lawful(Db, t) /\ hint' \subseteq hint /\ post' \subseteq post
         /\ clock' \in Int /\ clock <= clock'
    BY <1>1, <1>2, <2>13, HonestLawful
  <2>16. Rows' /\ Mails' /\ Hints' /\ Lawful(Db, Db')
    BY <2>14, <2>15, Committed
  <2>17. QED
    BY <1>2, <2>16, TypesKept, SweepsKept DEF Kept, IInv
<1>6. QED
  BY <1>4, <1>5

------------------------------------------------------------------------------
(* The steps that fill a lesson: c of the weekly plan p takes in w.people.    *)
Seats(s, t, c, p) ==
    /\ c \in Cohorts /\ p \in Pairings /\ Typed(t) /\ t.request = s.request
    /\ \A d \in Cohorts \ {c} : t.cohort[d] = s.cohort[d]
    /\ t.cohort[c].status \in {"SCHEDULED", "CANCELLED"} /\ t.cohort[c].plan = p
    /\ s.cohort[c].status = "NONE" \/ t.cohort[c] = s.cohort[c]
    /\ \A pl \in Plans, l \in Learners :
          \/ t.seat[pl][l] = s.seat[pl][l]
          \/ pl = p /\ s.seat[pl][l] \notin Cohorts /\ t.seat[pl][l] \in {None, Gone, c}
    /\ \A d \in Cohorts \ {c} :
          ~(/\ s.cohort[d].status = "SCHEDULED" /\ s.cohort[d].plan = p
            /\ s.cohort[d].at = t.cohort[c].at /\ s.cohort[d].room = t.cohort[c].room)

(* Who is taken in is in w, and w was found free.                             *)
Takes(s, t, c, p, w) ==
    /\ w.plan = p /\ w.source = c /\ w.parent = None /\ w.kind = "RESCHEDULE"
    /\ t.cohort[c].status = "SCHEDULED" =>
          /\ w.at = t.cohort[c].at /\ w.room = t.cohort[c].room
          /\ \E shares \in BOOLEAN : CanTake(s, None, w, shares, clock)
    /\ \A l \in Learners : t.seat[p][l] = c /\ s.seat[p][l] # c => l \in w.people

(* The weekly times after a publication.                                      *)
Publishes(wk) ==
    /\ \A p \in Pairings : weekly[p] = "PUBLISHED" => wk[p] = "PUBLISHED"
    /\ Ahead(wk, clock) \subseteq Ahead(weekly, clock)

LEMMA Filled ==
    ASSUME NEW s, Good(s, {}, weekly, clock), NEW t, NEW c, NEW p, Seats(s, t, c, p),
           NEW wk, wk[p] = "PUBLISHED", Publishes(wk)
    PROVE  /\ Lawful(s, t) /\ Honest(s, t)
           /\ Rooted(t, {}) /\ Planned(t, {}, wk, clock) /\ Seated(t) /\ OnePerPlace(t)
           /\ Negotiated(t, {}, clock) /\ Disjoint(t, {}) /\ HoldsCarried(s, t, {})
<1>1. /\ c \in Cohorts /\ p \in Pairings /\ Typed(t) /\ t.request = s.request
      /\ \A d \in Cohorts \ {c} : t.cohort[d] = s.cohort[d]
      /\ t.cohort[c].status \in {"SCHEDULED", "CANCELLED"} /\ t.cohort[c].plan = p
      /\ s.cohort[c].status = "NONE" \/ t.cohort[c] = s.cohort[c]
  BY DEF Seats
<1>2. \A pl \in Plans, l \in Learners :
          \/ t.seat[pl][l] = s.seat[pl][l]
          \/ pl = p /\ s.seat[pl][l] \notin Cohorts /\ t.seat[pl][l] \in {None, Gone, c}
  BY DEF Seats
<1>3. /\ Typed(s) /\ Rooted(s, {}) /\ Planned(s, {}, weekly, clock) /\ Seated(s) /\ OnePerPlace(s)
      /\ Negotiated(s, {}, clock) /\ Disjoint(s, {})
  BY DEF Good
<1>4. \A d \in Cohorts : s.cohort[d].status # "NONE" => t.cohort[d] = s.cohort[d]
  BY <1>1
<1>5. \A pl \in Plans, l \in Learners : s.seat[pl][l] \in Cohorts => t.seat[pl][l] = s.seat[pl][l]
  BY <1>2
<1>6. Evolves(s, t)
  <2>1. \A r \in Requests : s.request[r].n \in Int
    <3>1. \A r \in Requests : s.request[r] \in RequestRows
      BY <1>3 DEF Typed
    <3>2. QED
      BY <3>1, RowNumbers
  <2>2. \A r \in Requests : Numbered(s.request[r], t.request[r])
    BY <1>1, <2>1 DEF Numbered
  <2>3. QED
    BY <1>1, <2>2 DEF Evolves
<1>7. Rooted(t, {})
  BY <1>1, <1>3, <1>6, RootedKept
<1>8. Planned(t, {}, wk, clock)
  <2>1. SUFFICES ASSUME NEW d \in Cohorts, t.cohort[d].status # "NONE"
                 PROVE  LET k == t.cohort[d] IN
                        /\ k.plan \in Plans
                        /\ k.plan \in Pairings => wk[k.plan] = "PUBLISHED"
                        /\ k.plan \in Requests =>
                              /\ t.request[k.plan].status # "NONE"
                              /\ t.request[k.plan].status \in {"ACCEPTED", "SPLIT"} \/ k.plan \in {}
                        /\ k.status = "RECORDED" => k.at < clock
    BY DEF Planned
  <2>2. CASE d = c
    BY <1>1, <2>2, Ids DEF Plans
  <2>3. CASE d # c
    BY <1>1, <1>3, <2>1, <2>3 DEF Planned, Publishes
  <2>4. QED
    BY <2>2, <2>3
<1>9. Seated(t)
  <2>1. SUFFICES ASSUME NEW pl \in Plans, NEW l \in Learners, t.seat[pl][l] \in Cohorts
                 PROVE  t.cohort[t.seat[pl][l]].status # "NONE" /\ t.cohort[t.seat[pl][l]].plan = pl
    BY DEF Seated
  <2>2. CASE t.seat[pl][l] = s.seat[pl][l]
    BY <1>3, <1>4, <2>1, <2>2 DEF Seated
  <2>3. CASE t.seat[pl][l] # s.seat[pl][l]
    <3>1. pl = p /\ t.seat[pl][l] = c
      BY <1>2, <2>1, <2>3, Ids
    <3>2. QED
      BY <1>1, <3>1
  <2>4. QED
    BY <2>2, <2>3
<1>10. OnePerPlace(t)
  <2>1. \A d \in Cohorts \ {c} :
          ~(/\ t.cohort[d].status = "SCHEDULED" /\ t.cohort[d].plan = p
            /\ t.cohort[d].at = t.cohort[c].at /\ t.cohort[d].room = t.cohort[c].room)
    BY <1>1 DEF Seats
  <2>2. QED
    BY <1>1, <1>3, <2>1 DEF OnePerPlace
<1>11. \A r \in Requests : s.request[r].status # "NONE" =>
         Audience(t, t.request[r]) = Audience(s, s.request[r])
  BY SMTT(60), <1>3, <1>6, AudienceKept
<1>12. ASSUME NEW r \in Requests, s.request[r].status \in Open, Fresh(s, r)
       PROVE  Fresh(t, r) /\ t.cohort[s.request[r].source].at = s.cohort[s.request[r].source].at
  <2> DEFINE q == s.request[r]
  <2>1. /\ Target(s, r) \in Plans /\ q.plan \in Plans /\ q.source \in Cohorts
        /\ q.people \subseteq Learners /\ q \in RequestRows
    BY <1>3, <1>12, TargetKnown DEF Open
  <2>2. t.cohort[q.source] = s.cohort[q.source]
    BY <1>4, <1>12, <2>1 DEF Fresh
  <2>3. \A l \in q.people : t.seat[q.plan][l] = q.source
    BY <1>5, <1>12, <2>1 DEF Fresh
  <2>4. q.kind = "EXTRA" => \A l \in q.people : t.seat[Target(s, r)][l] \notin Cohorts
    <3>1. SUFFICES ASSUME q.kind = "EXTRA", NEW l \in q.people
                   PROVE  t.seat[Target(s, r)][l] \notin Cohorts
      OBVIOUS
    <3>2. Target(s, r) \in Requests
      <4>1. q.parent \in Requests \cup {None}
        BY <2>1 DEF RequestRows
      <4>2. QED
        BY <3>1, <4>1 DEF Target
    <3>3. Target(s, r) # p
      BY <1>1, <3>2, Ids
    <3>4. QED
      BY <1>2, <1>12, <2>1, <3>1, <3>3 DEF Fresh
  <2>5. Target(t, r) = Target(s, r)
    BY <1>1 DEF Target
  <2>6. QED
    BY <1>1, <1>12, <2>2, <2>3, <2>4, <2>5 DEF Fresh
<1>13. Negotiated(t, {}, clock)
  BY <1>1, <1>3, <1>11, <1>12 DEF Negotiated, Blank
<1>14. Disjoint(t, {})
  BY <1>1, <1>3 DEF Disjoint, Live, OpenRequests
<1>15. HoldsCarried(s, t, {})
  BY <1>1, <1>11 DEF HoldsCarried, Holds, Held
<1>16. Stands(s, t)
  <2>1. ASSUME NEW d \in Cohorts, s.cohort[d].status = "RECORDED"
        PROVE  /\ t.cohort[d] = s.cohort[d]
               /\ \A l \in Learners : s.seat[s.cohort[d].plan][l] = d <=> t.seat[s.cohort[d].plan][l] = d
    <3>1. t.cohort[d] = s.cohort[d] /\ d # c
      BY <1>1, <2>1
    <3>2. s.cohort[d].plan \in Plans
      BY <1>3, <2>1 DEF Planned
    <3>3. ASSUME NEW l \in Learners
          PROVE  s.seat[s.cohort[d].plan][l] = d <=> t.seat[s.cohort[d].plan][l] = d
      BY <1>2, <3>1, <3>2, Ids
    <3>4. QED
      BY <3>1, <3>3
  <2>2. QED
    BY <2>1 DEF Stands
<1>17. Agreed(s, t)
  <2>1. ASSUME NEW pl \in Plans, NEW l \in Learners, s.seat[pl][l] \in Cohorts
        PROVE  t.seat[pl][l] \in Cohorts /\ Spot(t, t.seat[pl][l]) = Spot(s, s.seat[pl][l])
    <3>1. t.seat[pl][l] = s.seat[pl][l]
      BY <1>5, <2>1
    <3>2. t.cohort[s.seat[pl][l]] = s.cohort[s.seat[pl][l]]
      BY <1>3, <1>4, <2>1 DEF Seated
    <3>3. QED
      BY <2>1, <3>1, <3>2 DEF Spot
  <2>2. QED
    BY <2>1 DEF Agreed
<1>18. Honest(s, t)
  BY <1>6, <1>16, <1>17 DEF Honest
<1>19. QED
  BY <1>7, <1>8, <1>9, <1>10, <1>13, <1>14, <1>15, <1>18, HonestLawful

(* Publishing a pairing and joining one.                                      *)
LEMMA Welcomed ==
    ASSUME NEW s, Good(s, {}, weekly, clock), NEW t, NEW c, NEW p, NEW w,
           Seats(s, t, c, p), Takes(s, t, c, p, w),
           NEW wk, wk[p] = "PUBLISHED", Publishes(wk)
    PROVE  Good(t, {}, wk, clock) /\ Lawful(s, t)
<1> DEFINE own == Party(s, p, w.people)
<1>1. /\ Lawful(s, t) /\ Honest(s, t)
      /\ Rooted(t, {}) /\ Planned(t, {}, wk, clock) /\ Seated(t) /\ OnePerPlace(t)
      /\ Negotiated(t, {}, clock) /\ Disjoint(t, {}) /\ HoldsCarried(s, t, {})
  BY Filled
<1>2. /\ c \in Cohorts /\ p \in Pairings /\ Typed(t) /\ t.request = s.request
      /\ \A d \in Cohorts \ {c} : t.cohort[d] = s.cohort[d]
      /\ t.cohort[c].plan = p
      /\ s.cohort[c].status = "NONE" \/ t.cohort[c] = s.cohort[c]
  BY DEF Seats
<1>3. \A pl \in Plans, l \in Learners :
          \/ t.seat[pl][l] = s.seat[pl][l]
          \/ pl = p /\ s.seat[pl][l] \notin Cohorts /\ t.seat[pl][l] \in {None, Gone, c}
  BY DEF Seats
<1>4. /\ w.plan = p /\ w.source = c /\ w.parent = None /\ w.kind = "RESCHEDULE"
      /\ \A l \in Learners : t.seat[p][l] = c /\ s.seat[p][l] # c => l \in w.people
  BY DEF Takes
<1>5. /\ Typed(s) /\ Rooted(s, {}) /\ Planned(s, {}, weekly, clock) /\ Seated(s) /\ OnePerPlace(s)
      /\ Apart(s) /\ Reserved(s, {}) /\ WeeklyFree(s, {}, weekly, clock)
  BY DEF Good
<1>6. Evolves(s, t)
  BY <1>1 DEF Honest
<1>7. Known(s, p) /\ Tutor(t, p) = Tutor(s, p) /\ p \in Plans
  <2>1. Known(s, p)
    BY <1>2, Ids DEF Known, Plans
  <2>2. QED
    BY <1>6, <2>1, BaseKept DEF Known
<1>8. \A d \in Cohorts \ {c} : Roster(t, d) = Roster(s, d)
  <2>1. SUFFICES ASSUME NEW d \in Cohorts \ {c} PROVE Roster(t, d) = Roster(s, d)
    OBVIOUS
  <2>2. t.cohort[d] = s.cohort[d]
    BY <1>2
  <2>3. CASE s.cohort[d].status = "NONE"
    BY <2>2, <2>3 DEF Roster
  <2>4. CASE s.cohort[d].status # "NONE"
    <3>1. s.cohort[d].plan \in Plans
      BY <1>5, <2>4 DEF Planned
    <3>2. \A l \in Learners : s.seat[s.cohort[d].plan][l] = d <=> t.seat[s.cohort[d].plan][l] = d
      <4>1. ASSUME NEW l \in Learners
            PROVE  s.seat[s.cohort[d].plan][l] = d <=> t.seat[s.cohort[d].plan][l] = d
        BY <1>3, <3>1, Ids
      <4>2. QED
        BY <4>1
    <3>3. QED
      BY <2>2, <3>2 DEF Roster
  <2>5. QED
    BY <2>3, <2>4
<1>9. ASSUME NEW d \in Booked(t) \ {c} PROVE Carried(s, t, d)
  <2>1. d \in Cohorts /\ t.cohort[d].status = "SCHEDULED" /\ Roster(t, d) # {}
    BY DEF Booked
  <2>2. t.cohort[d] = s.cohort[d] /\ Roster(t, d) = Roster(s, d)
    BY <1>2, <1>8, <2>1
  <2>3. Tutor(t, t.cohort[d].plan) = Tutor(s, s.cohort[d].plan)
    BY <1>5, <1>6, <2>1, <2>2, LiesKept
  <2>4. QED
    BY <2>1, <2>2, <2>3 DEF Carried, Booked, Lies, Party
<1>10. ASSUME c \in Booked(t) PROVE Grown(s, t, c, own)
  <2>1. t.cohort[c].status = "SCHEDULED"
    BY <1>10 DEF Booked
  <2>2. Roster(t, c) = {l \in Learners : t.seat[p][l] = c}
    BY <1>2, <2>1 DEF Roster
  <2>3. Lies(t, c) = {Tutor(s, p)} \cup Roster(t, c)
    BY <1>2, <1>7 DEF Lies, Party
  <2>4. own = {Tutor(s, p)} \cup w.people
    BY DEF Party
  <2>5. CASE \A l \in Learners : s.seat[p][l] # c
    <3>1. Roster(t, c) \subseteq w.people
      BY <1>4, <2>2, <2>5
    <3>2. QED
      BY <2>3, <2>4, <3>1 DEF Grown
  <2>6. CASE \E l \in Learners : s.seat[p][l] = c
    <3>1. s.cohort[c].status # "NONE" /\ s.cohort[c].plan = p
      BY <1>2, <1>5, <1>7, <2>6 DEF Seated
    <3>2. t.cohort[c] = s.cohort[c]
      BY <1>2, <3>1
    <3>3. Roster(s, c) = {l \in Learners : s.seat[p][l] = c}
      BY <3>1 DEF Roster
    <3>4. c \in Booked(s)
      BY <1>2, <2>1, <2>6, <3>2, <3>3 DEF Booked
    <3>5. Lies(s, c) = {Tutor(s, p)} \cup Roster(s, c)
      BY <3>1 DEF Lies, Party
    <3>6. Roster(t, c) \subseteq w.people \cup Roster(s, c)
      BY <1>4, <2>2, <3>3
    <3>7. Lies(t, c) \subseteq own \cup Lies(s, c)
      BY <2>3, <2>4, <3>5, <3>6
    <3>8. QED
      BY <3>2, <3>4, <3>7 DEF Grown
  <2>7. QED
    BY <2>5, <2>6
<1>11. Changes(s, t, c, own)
  BY <1>9, <1>10 DEF Changes
<1>12. c \in Booked(t) =>
          /\ t.cohort[c].status = "SCHEDULED" /\ w.at = t.cohort[c].at /\ w.room = t.cohort[c].room
          /\ \E shares \in BOOLEAN : CanTake(s, None, w, shares, clock)
  BY DEF Takes, Booked
<1> DEFINE clear(x) ==
             /\ \A d \in Booked(s) \ Twins(s, w) : d # c /\ s.cohort[d].at = w.at =>
                   ~Clash(w.room, own, s.cohort[d].room, Party(s, s.cohort[d].plan, Roster(s, d)))
             /\ \A r \in Holds(s) : s.request[r].at = w.at =>
                   ~Clash(w.room, own, s.request[r].room, Audience(s, s.request[r]))
             /\ ClearOfWeekly(w, own)
<1>13. ASSUME c \in Booked(t) PROVE clear(0)
  <2>1. PICK shares \in BOOLEAN : CanTake(s, None, w, shares, clock)
    BY <1>12, <1>13
  <2>2. /\ \A d \in Booked(s) \ Twins(s, w) :
              s.cohort[d].at = w.at =>
                 \/ d = c
                 \/ ~Clash(w.room, own, s.cohort[d].room, Party(s, s.cohort[d].plan, Roster(s, d)))
        /\ \A r \in Holds(s) \ {None} : s.request[r].at = w.at =>
                   \/ Sibling(w, s.request[r])
                   \/ ~Clash(w.room, own, s.request[r].room, Audience(s, s.request[r]))
        /\ ClearOfWeekly(w, own)
    <3>1. w.plan = p /\ w.source = c
      BY <1>4
    <3>2. /\ \A d \in Booked(s) \ Twins(s, w) :
              s.cohort[d].at = w.at =>
                 \/ d = w.source /\ (Vacates(s, w) \/ shares)
                 \/ ~Clash(w.room, Party(s, w.plan, w.people), s.cohort[d].room,
                           Party(s, s.cohort[d].plan, Roster(s, d)))
          /\ \A r \in Holds(s) \ {None} : s.request[r].at = w.at =>
                   \/ Sibling(w, s.request[r])
                   \/ ~Clash(w.room, Party(s, w.plan, w.people), s.request[r].room, Audience(s, s.request[r]))
          /\ ClearOfWeekly(w, Party(s, w.plan, w.people))
      BY <2>1, Zenon DEF CanTake
    <3>3. QED
      BY <3>1, <3>2
  <2>3. \A h : ~Sibling(w, h)
    BY <1>4 DEF Sibling
  <2>4. None \notin Holds(s)
    BY Ids DEF Holds
  <2> HIDE DEF own
  <2>5. QED
    BY <2>2, <2>3, <2>4
<1>14. ClearOfLessons(s, t, c, own)
  <2>1. SUFFICES ASSUME c \in Booked(t), NEW d \in Booked(t) \ {c}, s.cohort[d].at = t.cohort[c].at
                 PROVE  ~Clash(t.cohort[c].room, own, s.cohort[d].room, Lies(s, d))
    BY DEF ClearOfLessons
  <2>2. d \in Booked(s) /\ d \in Cohorts
    BY <1>9, <2>1 DEF Carried, Booked
  <2>3. w.at = t.cohort[c].at /\ w.room = t.cohort[c].room
    BY <1>12, <2>1
  <2>4. ~(/\ s.cohort[d].status = "SCHEDULED" /\ s.cohort[d].plan = p
          /\ s.cohort[d].at = t.cohort[c].at /\ s.cohort[d].room = t.cohort[c].room)
    BY <2>1, <2>2 DEF Seats
  <2>5. d \notin Twins(s, w)
    BY <1>4, <2>3, <2>4 DEF Twins, Home
  <2> HIDE DEF own
  <2>6. QED
    BY <1>13, <2>1, <2>2, <2>3, <2>5 DEF Lies
<1>15. ClearOfHolds(t, {}, c, own)
  <2>1. SUFFICES ASSUME c \in Booked(t), NEW r \in Holds(t), t.cohort[c].at = t.request[r].at
                 PROVE  ~Clash(t.request[r].room, Audience(t, t.request[r]), t.cohort[c].room, own)
    BY DEF ClearOfHolds
  <2>2. r \in Holds(s) /\ t.request[r] = s.request[r]
    BY <1>2 DEF Holds
  <2>3. Audience(t, t.request[r]) = Audience(s, s.request[r])
    BY <1>1 DEF HoldsCarried, Held
  <2>4. w.at = t.cohort[c].at /\ w.room = t.cohort[c].room
    BY <1>12, <2>1
  <2> HIDE DEF own
  <2>5. ~Clash(w.room, own, s.request[r].room, Audience(s, s.request[r]))
    BY <1>13, <2>1, <2>2, <2>4
  <2>6. QED
    BY <2>2, <2>3, <2>4, <2>5 DEF Clash
<1>16. Ahead(wk, clock) \subseteq Ahead(weekly, clock) /\ p \notin Ahead(wk, clock)
  BY DEF Publishes, Ahead
<1>17. ClearOfWeek(t, c, own, wk, clock)
  <2>1. SUFFICES ASSUME c \in Booked(t), NEW a \in Ahead(wk, clock), t.cohort[c].at = SlotOf[a]
                 PROVE  ~Clash(RoomOf[a], OwnWeek(a), t.cohort[c].room, own)
    BY DEF ClearOfWeek
  <2>2. a \in Pairings \ {p} /\ weekly[a] = "CONFIRMED"
    BY <1>16 DEF Ahead
  <2>3. w.at = t.cohort[c].at /\ w.room = t.cohort[c].room
    BY <1>12, <2>1
  <2> HIDE DEF own
  <2>4. ~Clash(w.room, own, RoomOf[a], {TutorOf[a]} \cup RosterOf[a])
    BY <1>4, <1>13, <2>1, <2>2, <2>3 DEF ClearOfWeekly
  <2>5. QED
    BY <2>3, <2>4 DEF Clash, OwnWeek
<1> HIDE DEF own
<1>18. Apart(t)
  BY <1>5, <1>11, <1>14, LessonsApart
<1>19. Reserved(t, {})
  BY <1>1, <1>5, <1>11, <1>15, HoldsReserved
<1>20. WeeklyFree(t, {}, wk, clock)
  BY <1>1, <1>5, <1>11, <1>16, <1>17, WeekStaysFree
<1>21. QED
  BY <1>1, <1>2, <1>18, <1>19, <1>20 DEF Good

(* The lessons that Publish and Join ask CanTake for.                         *)
LEMMA LessonRow ==
    ASSUME NEW p, NEW c, NEW people
    PROVE  LET w == Lesson(p, c, people) IN
           /\ w.plan = p /\ w.source = c /\ w.parent = None /\ w.kind = "RESCHEDULE"
           /\ w.people = people /\ w.at = SlotOf[p] /\ w.room = RoomOf[p]
BY DEF Lesson, NoRequest

(* A free row.                                                                *)
LEMMA FreshCohort ==
    ASSUME IInv, Unused(cohort) # {}
    PROVE  Min(Unused(cohort)) \in Cohorts /\ cohort[Min(Unused(cohort))].status = "NONE"
<1>1. Typed(Db) /\ Db.cohort = cohort
  BY Standing
<1>2. Unused(cohort) = {c \in Cohorts : cohort[c].status = "NONE"} /\ Unused(cohort) \in SUBSET Nat
  BY <1>1, FreeIds
<1>3. Min(Unused(cohort)) \in Unused(cohort)
  BY <1>2, LeastIn
<1>4. QED
  BY <1>2, <1>3

Wrote(c, k, p, f) == [Db EXCEPT !.cohort[c] = k, !.seat[p] = f]

LEMMA TwoWrites ==
    ASSUME NEW c, NEW k, NEW p, NEW f,
           cohort \in [Cohorts -> CohortRows],
           seat \in [Plans -> [Learners -> Cohorts \cup {None, Gone}]]
    PROVE  Wrote(c, k, p, f)
             = [cohort |-> [cohort EXCEPT ![c] = k], seat |-> [seat EXCEPT ![p] = f],
                request |-> request]
<1> DEFINE s == [Db EXCEPT !.cohort[c] = k]
<1>1. Wrote(c, k, p, f) = [s EXCEPT !.seat[p] = f]
  BY DEF Db, Wrote
<1>2. s = [cohort |-> [cohort EXCEPT ![c] = k], seat |-> seat, request |-> request]
  BY DEF Db
<1> HIDE DEF s
<1>3. [s EXCEPT !.seat[p] = f] = [cohort |-> [cohort EXCEPT ![c] = k], seat |-> [seat EXCEPT ![p] = f],
                                  request |-> request]
  BY <1>2
<1>4. QED
  BY <1>1, <1>3

(* The transaction wrote a filled lesson, and perhaps published its pairing.  *)
LEMMA Filling ==
    ASSUME IInv, NEW t, NEW c, NEW p, NEW w, Seats(Db, t, c, p), Takes(Db, t, c, p, w),
           weekly' \in [Pairings -> {"DRAFT", "CONFIRMED", "PUBLISHED"}],
           weekly'[p] = "PUBLISHED", Publishes(weekly'), Commit(t),
           UNCHANGED <<clock, current, post, sweep, edits, faults>>
    PROVE  Kept
<1>1. Good(Db, {}, weekly, clock) /\ clock \in Int
  BY Standing
<1>2. Good(t, {}, weekly', clock) /\ Lawful(Db, t)
  BY <1>1, Welcomed
<1>3. cohort' = t.cohort /\ seat' = t.seat /\ request' = t.request /\ hint' \subseteq hint
  BY DEF Commit
<1>4. Good(t, {}, weekly', clock') /\ clock' \in Int /\ clock <= clock' /\ post' \subseteq post
  BY <1>1, <1>2
<1>5. Rows' /\ Mails' /\ Hints' /\ Lawful(Db, Db')
  BY <1>2, <1>3, <1>4, Committed
<1>6. Types'
  BY DEF IInv, Types
<1>7. Sweeps'
  BY SweepsKept
<1>8. QED
  BY <1>5, <1>6, <1>7 DEF Kept, IInv

LEMMA Publications ==
    ASSUME IInv, NEW p \in Pairings, Publish(p)
    PROVE  Kept
<1> DEFINE c == Min(Unused(cohort))
           w == Lesson(p, c, RosterOf[p])
           free == CanTake(Db, None, w, FALSE, clock)
           k == [status |-> IF free THEN "SCHEDULED" ELSE "CANCELLED", plan |-> p,
                 at |-> SlotOf[p], room |-> RoomOf[p], moved |-> FALSE]
           f == [l \in Learners |-> IF l \notin RosterOf[p] THEN None
                                    ELSE IF free THEN c ELSE Gone]
           t == [Db EXCEPT !.cohort[c] = k, !.seat[p] = f]
<1>1. /\ weekly[p] = "CONFIRMED" /\ Unused(cohort) # {}
      /\ weekly' = [weekly EXCEPT ![p] = "PUBLISHED"] /\ Commit(t)
      /\ UNCHANGED <<clock, current, post, sweep, edits, faults>>
  BY Zenon DEF Publish
<1>2. /\ Typed(Db) /\ Planned(Db, {}, weekly, clock) /\ Seated(Db)
      /\ Db.request = request /\ Db.cohort = cohort /\ Db.seat = seat
      /\ cohort \in [Cohorts -> CohortRows] /\ request \in [Requests -> RequestRows]
      /\ seat \in [Plans -> [Learners -> Cohorts \cup {None, Gone}]]
  BY Standing
<1>3. c \in Cohorts /\ cohort[c].status = "NONE"
  BY <1>1, FreshCohort
<1>4. /\ w.plan = p /\ w.source = c /\ w.parent = None /\ w.kind = "RESCHEDULE"
      /\ w.people = RosterOf[p] /\ w.at = SlotOf[p] /\ w.room = RoomOf[p]
  BY LessonRow
<1>5. free \in BOOLEAN
  BY DEF CanTake
<1> HIDE DEF c, w
<1>6. /\ k.status \in {"SCHEDULED", "CANCELLED"}
      /\ k.status = "SCHEDULED" => free
      /\ k.plan = p /\ k.at = SlotOf[p] /\ k.room = RoomOf[p]
  OBVIOUS
<1>7. k \in CohortRows
  <2>1. SlotOf[p] \in Instants /\ RoomOf[p] \in Rooms \cup {Online} /\ p \in Plans
    BY Slots DEF Plans
  <2> HIDE DEF free
  <2>2. QED
    BY <2>1 DEF CohortRows
<1>8. \A l \in Learners : f[l] \in {None, Gone, c} /\ (f[l] = c => l \in RosterOf[p])
  <2>1. c # None /\ c # Gone
    BY <1>3, Ids
  <2> HIDE DEF free
  <2>2. QED
    BY <2>1
<1>9. f \in [Learners -> Cohorts \cup {None, Gone}]
  <2> HIDE DEF free
  <2>1. QED
    BY <1>3
<1>10. t = [cohort |-> [cohort EXCEPT ![c] = k], seat |-> [seat EXCEPT ![p] = f], request |-> request]
  <2>1. t = Wrote(c, k, p, f)
    BY Zenon DEF Wrote
  <2> HIDE DEF k, f, t
  <2>2. QED
    BY <1>2, <2>1, TwoWrites
<1> HIDE DEF k, f, t, free
<1>11. /\ t.cohort = [cohort EXCEPT ![c] = k] /\ t.seat = [seat EXCEPT ![p] = f] /\ t.request = request
       /\ t = [cohort |-> t.cohort, seat |-> t.seat, request |-> t.request]
  BY <1>10
<1>12. Typed(t)
  BY ZenonT(60), <1>2, <1>7, <1>9, <1>11 DEF Typed
<1>13. \A d \in Cohorts : t.cohort[d] = IF d = c THEN k ELSE cohort[d]
  BY <1>2, <1>11
<1>14. \A pl \in Plans : t.seat[pl] = IF pl = p THEN f ELSE seat[pl]
  BY <1>2, <1>11
<1>15. \A d \in Cohorts : cohort[d].status # "NONE" => cohort[d].plan # p
  BY <1>1, <1>2 DEF Planned
<1>16. \A l \in Learners : seat[p][l] \notin Cohorts
  <2>1. p \in Plans
    BY DEF Plans
  <2>2. QED
    BY <1>2, <1>15, <2>1 DEF Seated
<1>17. Seats(Db, t, c, p)
  <2>1. \A pl \in Plans, l \in Learners :
          \/ t.seat[pl][l] = seat[pl][l]
          \/ pl = p /\ seat[pl][l] \notin Cohorts /\ t.seat[pl][l] \in {None, Gone, c}
    BY <1>8, <1>14, <1>16
  <2>2. \A d \in Cohorts \ {c} :
          ~(/\ cohort[d].status = "SCHEDULED" /\ cohort[d].plan = p
            /\ cohort[d].at = t.cohort[c].at /\ cohort[d].room = t.cohort[c].room)
    BY <1>15
  <2>3. /\ t.cohort[c].status \in {"SCHEDULED", "CANCELLED"} /\ t.cohort[c].plan = p
        /\ Db.cohort[c].status = "NONE" /\ t.request = Db.request
        /\ \A d \in Cohorts \ {c} : t.cohort[d] = Db.cohort[d]
    BY <1>2, <1>3, <1>6, <1>11, <1>13
  <2>4. QED
    BY <1>2, <1>3, <1>12, <2>1, <2>2, <2>3, Zenon DEF Seats
<1>18. Takes(Db, t, c, p, w)
  <2>1. t.cohort[c] = k /\ t.seat[p] = f
    BY <1>3, <1>13, <1>14 DEF Plans
  <2>2. k.status = "SCHEDULED" => \E shares \in BOOLEAN : CanTake(Db, None, w, shares, clock)
    BY <1>6, Zenon DEF free
  <2>3. \A l \in Learners : t.seat[p][l] = c => l \in w.people
    BY <1>4, <1>8, <2>1
  <2>4. QED
    BY <1>4, <1>6, <2>1, <2>2, <2>3 DEF Takes
<1>19. /\ weekly' \in [Pairings -> {"DRAFT", "CONFIRMED", "PUBLISHED"}]
       /\ weekly'[p] = "PUBLISHED" /\ Publishes(weekly')
  <2>1. weekly \in [Pairings -> {"DRAFT", "CONFIRMED", "PUBLISHED"}]
    BY DEF IInv, Types
  <2>2. \A q \in Pairings : weekly'[q] = IF q = p THEN "PUBLISHED" ELSE weekly[q]
    BY <1>1, <2>1
  <2>3. QED
    BY <1>1, <2>1, <2>2 DEF Publishes, Ahead
<1>20. QED
  BY <1>1, <1>17, <1>18, <1>19, Filling

Took(c, k, p, l) == [Db EXCEPT !.cohort[c] = k, !.seat[p][l] = c]

LEMMA Taken ==
    ASSUME NEW c, NEW k, NEW p \in Plans, NEW l,
           cohort \in [Cohorts -> CohortRows],
           seat \in [Plans -> [Learners -> Cohorts \cup {None, Gone}]]
    PROVE  Took(c, k, p, l)
             = [cohort |-> [cohort EXCEPT ![c] = k],
                seat |-> [seat EXCEPT ![p] = [seat[p] EXCEPT ![l] = c]], request |-> request]
<1> DEFINE s == [Db EXCEPT !.cohort[c] = k]
<1>1. Took(c, k, p, l) = [s EXCEPT !.seat[p][l] = c]
  BY DEF Db, Took
<1>2. s = [cohort |-> [cohort EXCEPT ![c] = k], seat |-> seat, request |-> request]
  BY DEF Db
<1> HIDE DEF s
<1>3. [s EXCEPT !.seat[p][l] = c] = [s EXCEPT !.seat[p] = [s.seat[p] EXCEPT ![l] = c]]
  OBVIOUS
<1>4. [s EXCEPT !.seat[p] = [s.seat[p] EXCEPT ![l] = c]]
        = [cohort |-> [cohort EXCEPT ![c] = k],
           seat |-> [seat EXCEPT ![p] = [seat[p] EXCEPT ![l] = c]], request |-> request]
  <2> DEFINE g == [seat[p] EXCEPT ![l] = c]
  <2>1. s.seat = seat
    BY <1>2
  <2> HIDE DEF g
  <2>2. [s EXCEPT !.seat[p] = g]
          = [cohort |-> [cohort EXCEPT ![c] = k], seat |-> [seat EXCEPT ![p] = g], request |-> request]
    BY SMTT(60), <1>2
  <2>3. QED
    BY <2>1, <2>2, Zenon DEF g
<1>5. QED
  BY <1>1, <1>3, <1>4

LEMMA JoinsRow ==
    ASSUME NEW p, NEW c, NEW people, NEW at, NEW room
    PROVE  LET w == [Lesson(p, c, people) EXCEPT !.at = at, !.room = room] IN
           /\ w.plan = p /\ w.source = c /\ w.parent = None /\ w.kind = "RESCHEDULE"
           /\ w.people = people /\ w.at = at /\ w.room = room
BY DEF Lesson, NoRequest

LEMMA Joins ==
    ASSUME IInv, NEW p \in Pairings, NEW l \in Learners, Join(p, l)
    PROVE  Kept
<1> DEFINE unmoved == {c \in Cohorts : /\ cohort[c].plan = p /\ cohort[c].status = "SCHEDULED"
                                       /\ ~cohort[c].moved}
           weeklyTime == {c \in Cohorts : /\ cohort[c].plan = p /\ cohort[c].status = "SCHEDULED"
                                          /\ cohort[c].at = SlotOf[p] /\ cohort[c].room = RoomOf[p]}
           fresh == Min(Unused(cohort))
           c == IF unmoved # {} THEN Min(unmoved)
                ELSE IF weeklyTime # {} THEN Min(weeklyTime) ELSE fresh
           at == IF c = fresh THEN SlotOf[p] ELSE cohort[c].at
           room == IF c = fresh THEN RoomOf[p] ELSE cohort[c].room
           w == [Lesson(p, c, {l}) EXCEPT !.at = at, !.room = room]
           row == [status |-> "SCHEDULED", plan |-> p, at |-> SlotOf[p], room |-> RoomOf[p],
                   moved |-> FALSE]
           t == [Db EXCEPT !.cohort[c] = IF c = fresh THEN row ELSE @, !.seat[p][l] = c]
           k == IF c = fresh THEN row ELSE Db.cohort[c]
           f == [seat[p] EXCEPT ![l] = c]
<1>1. /\ weekly[p] = "PUBLISHED" /\ seat[p][l] = None /\ Unused(cohort) # {}
      /\ CanTake(Db, None, w, TRUE, clock) /\ Commit(t)
      /\ UNCHANGED <<clock, weekly, current, post, sweep, edits, faults>>
  BY Zenon DEF Join
<1>2. /\ Typed(Db) /\ OnePerPlace(Db)
      /\ Db.request = request /\ Db.cohort = cohort /\ Db.seat = seat
      /\ cohort \in [Cohorts -> CohortRows] /\ request \in [Requests -> RequestRows]
      /\ seat \in [Plans -> [Learners -> Cohorts \cup {None, Gone}]]
  BY SMTT(60), Standing
<1>3. fresh \in Cohorts /\ cohort[fresh].status = "NONE"
  BY Zenon, <1>1, FreshCohort
<1>4. /\ c \in Cohorts
      /\ \/ c = fresh /\ weeklyTime = {}
         \/ c # fresh /\ cohort[c].status = "SCHEDULED" /\ cohort[c].plan = p
  <2>1. unmoved \in SUBSET Nat /\ weeklyTime \in SUBSET Nat
    BY Ids
  <2>2. unmoved # {} => Min(unmoved) \in unmoved
    BY <2>1, LeastIn
  <2>3. weeklyTime # {} => Min(weeklyTime) \in weeklyTime
    BY <2>1, LeastIn
  <2>4. \A d \in unmoved \cup weeklyTime :
          d \in Cohorts /\ cohort[d].status = "SCHEDULED" /\ cohort[d].plan = p /\ d # fresh
    BY <1>3
  <2> HIDE DEF unmoved, weeklyTime, fresh
  <2>5. QED
    BY <1>3, <2>2, <2>3, <2>4
<1>5. /\ w.plan = p /\ w.source = c /\ w.parent = None /\ w.kind = "RESCHEDULE"
      /\ w.people = {l} /\ w.at = at /\ w.room = room
  BY JoinsRow
<1>6. t = Took(c, k, p, l)
  BY Zenon DEF Took
<1> HIDE DEF t, w
<1>7. p \in Plans
  BY DEF Plans
<1>8. weeklyTime = {} => \A d \in Cohorts :
          ~(/\ cohort[d].status = "SCHEDULED" /\ cohort[d].plan = p
            /\ cohort[d].at = SlotOf[p] /\ cohort[d].room = RoomOf[p])
  OBVIOUS
<1> HIDE DEF unmoved, weeklyTime, fresh, c
<1>9. /\ k \in CohortRows /\ k.status = "SCHEDULED" /\ k.plan = p /\ k.at = at /\ k.room = room
      /\ cohort[c].status = "NONE" \/ k = cohort[c]
  <2>1. row \in CohortRows
    BY <1>7, Slots DEF CohortRows
  <2>2. CASE c = fresh
    BY <1>3, <2>1, <2>2
  <2>3. CASE c # fresh
    BY <1>2, <1>4, <2>3
  <2>4. QED
    BY <2>2, <2>3
<1>10. \A d \in Cohorts \ {c} :
          ~(/\ cohort[d].status = "SCHEDULED" /\ cohort[d].plan = p
            /\ cohort[d].at = at /\ cohort[d].room = room)
  <2>1. CASE c = fresh
    BY <1>4, <1>8, <2>1
  <2>2. CASE c # fresh
    BY <1>2, <1>4, <2>2 DEF OnePerPlace
  <2>3. QED
    BY <2>1, <2>2
<1> HIDE DEF k, at, room
<1>11. t = [cohort |-> [cohort EXCEPT ![c] = k], seat |-> [seat EXCEPT ![p] = f], request |-> request]
  <2>1. Took(c, k, p, l)
          = [cohort |-> [cohort EXCEPT ![c] = k],
             seat |-> [seat EXCEPT ![p] = [seat[p] EXCEPT ![l] = c]], request |-> request]
    <3>1. /\ cohort \in [Cohorts -> CohortRows]
          /\ seat \in [Plans -> [Learners -> Cohorts \cup {None, Gone}]]
      BY <1>2
    <3> HIDE DEF f
    <3>2. QED
      BY <1>7, <3>1, Taken
  <2>2. QED
    BY <1>6, <2>1, Zenon
<1>12. f \in [Learners -> Cohorts \cup {None, Gone}] /\ \A x \in Learners : f[x] = IF x = l THEN c ELSE seat[p][x]
  BY <1>2, <1>4, <1>7
<1> HIDE DEF f
<1>13. /\ t.cohort = [cohort EXCEPT ![c] = k] /\ t.seat = [seat EXCEPT ![p] = f] /\ t.request = request
       /\ t = [cohort |-> t.cohort, seat |-> t.seat, request |-> t.request]
  BY <1>11
<1>14. Typed(t)
  <2>1. t.cohort \in [Cohorts -> CohortRows]
    BY <1>2, <1>9, <1>13
  <2>2. t.seat \in [Plans -> [Learners -> Cohorts \cup {None, Gone}]]
    BY <1>2, <1>12, <1>13
  <2>3. QED
    BY <1>2, <1>13, <2>1, <2>2 DEF Typed
<1>15. \A d \in Cohorts : t.cohort[d] = IF d = c THEN k ELSE cohort[d]
  BY <1>2, <1>13
<1>16. \A pl \in Plans : t.seat[pl] = IF pl = p THEN f ELSE seat[pl]
  BY <1>2, <1>13
<1>17. Seats(Db, t, c, p)
  <2>1. \A pl \in Plans, x \in Learners :
          \/ t.seat[pl][x] = seat[pl][x]
          \/ pl = p /\ seat[pl][x] \notin Cohorts /\ t.seat[pl][x] \in {None, Gone, c}
    BY <1>1, <1>12, <1>16, Ids
  <2>2. /\ t.cohort[c].status \in {"SCHEDULED", "CANCELLED"} /\ t.cohort[c].plan = p
        /\ Db.cohort[c].status = "NONE" \/ t.cohort[c] = Db.cohort[c]
        /\ t.request = Db.request
        /\ \A d \in Cohorts \ {c} : t.cohort[d] = Db.cohort[d]
    BY <1>2, <1>4, <1>9, <1>13, <1>15
  <2>3. \A d \in Cohorts \ {c} :
          ~(/\ cohort[d].status = "SCHEDULED" /\ cohort[d].plan = p
            /\ cohort[d].at = t.cohort[c].at /\ cohort[d].room = t.cohort[c].room)
    BY <1>4, <1>9, <1>10, <1>15
  <2>4. QED
    BY <1>2, <1>4, <1>14, <2>1, <2>2, <2>3, Zenon DEF Seats
<1>18. Takes(Db, t, c, p, w)
  <2>1. t.cohort[c] = k /\ t.seat[p] = f
    BY <1>4, <1>7, <1>15, <1>16
  <2>2. \E shares \in BOOLEAN : CanTake(Db, None, w, shares, clock)
    BY <1>1, Zenon
  <2>3. \A x \in Learners : t.seat[p][x] = c /\ seat[p][x] # c => x \in w.people
    BY <1>5, <1>12, <2>1
  <2>4. QED
    BY <1>2, <1>5, <1>9, <2>1, <2>2, <2>3 DEF Takes
<1>19. /\ weekly' \in [Pairings -> {"DRAFT", "CONFIRMED", "PUBLISHED"}]
       /\ weekly'[p] = "PUBLISHED" /\ Publishes(weekly')
  BY <1>1 DEF Publishes, Ahead, IInv, Types
<1>20. QED
  BY <1>1, <1>4, <1>17, <1>18, <1>19, Filling

LEMMA Confirms ==
    ASSUME IInv, NEW p \in Pairings, Confirm(p)
    PROVE  Kept
<1>1. /\ weekly[p] = "DRAFT" /\ weekly' = [weekly EXCEPT ![p] = "CONFIRMED"]
      /\ \A c \in Booked(Db) :
              cohort[c].at > clock /\ cohort[c].at = SlotOf[p] =>
                 ~Clash(RoomOf[p], OwnWeek(p), cohort[c].room, Lies(Db, c))
      /\ \A r \in Holds(Db) :
              request[r].at = SlotOf[p] =>
                 ~Clash(RoomOf[p], OwnWeek(p), request[r].room, Audience(Db, request[r]))
      /\ UNCHANGED <<clock, current, db, hint, post, sweep, edits, faults>>
  BY Zenon DEF Confirm, OwnWeek, Lies, Db
<1>2. /\ Good(Db, {}, weekly, clock) /\ clock \in Int
      /\ Planned(Db, {}, weekly, clock) /\ WeeklyFree(Db, {}, weekly, clock)
      /\ Db.request = request /\ Db.cohort = cohort /\ Db.seat = seat
  BY Standing
<1>3. weekly \in [Pairings -> {"DRAFT", "CONFIRMED", "PUBLISHED"}]
  BY DEF IInv, Types
<1>4. \A q \in Pairings : weekly'[q] = IF q = p THEN "CONFIRMED" ELSE weekly[q]
  BY <1>1, <1>3
<1>5. Planned(Db, {}, weekly', clock)
  <2>1. \A q \in Pairings : weekly[q] = "PUBLISHED" => weekly'[q] = "PUBLISHED"
    BY <1>1, <1>4
  <2>2. QED
    BY <1>2, <2>1 DEF Planned
<1>6. WeeklyFree(Db, {}, weekly', clock)
  <2>1. SUFFICES ASSUME NEW q \in Pairings, weekly'[q] = "CONFIRMED", SlotOf[q] > clock
                 PROVE  /\ \A c \in Booked(Db) :
                              Db.cohort[c].at = SlotOf[q] =>
                                 ~Clash(RoomOf[q], OwnWeek(q), Db.cohort[c].room, Lies(Db, c))
                        /\ \A r \in Holds(Db) \ {} :
                              Db.request[r].at = SlotOf[q] =>
                                 ~Clash(RoomOf[q], OwnWeek(q), Db.request[r].room,
                                        Audience(Db, Db.request[r]))
    BY DEF WeeklyFree, OwnWeek
  <2>2. CASE q = p
    BY <1>1, <1>2, <2>1, <2>2
  <2>3. CASE q # p
    BY <1>2, <1>4, <2>1, <2>3 DEF WeeklyFree, OwnWeek
  <2>4. QED
    BY <2>2, <2>3
<1>7. Good(Db, {}, weekly', clock') /\ Lawful(Db, Db)
  <2>1. Good(Db, {}, weekly', clock)
    BY <1>2, <1>5, <1>6 DEF Good
  <2>2. Lawful(Db, Db)
    BY Standing, HonestIdle, HonestLawful
  <2>3. QED
    BY <1>1, <2>1, <2>2
<1>8. /\ cohort' = Db.cohort /\ seat' = Db.seat /\ request' = Db.request
      /\ hint' \subseteq hint /\ post' \subseteq post /\ clock' \in Int /\ clock <= clock'
  BY <1>1, <1>2 DEF db
<1>9. Rows' /\ Mails' /\ Hints' /\ Lawful(Db, Db')
  BY <1>7, <1>8, Committed
<1>10. Types'
  BY <1>1, <1>3 DEF IInv, Types
<1>11. QED
  BY <1>1, <1>9, <1>10, SweepsKept DEF Kept, IInv

------------------------------------------------------------------------------
(* The invariant, and what it says of the properties.                         *)
LEMMA Begins ==
    ASSUME Init
    PROVE  IInv
<1>1. /\ clock = 0 /\ weekly \in [Pairings -> {"DRAFT", "CONFIRMED"}]
      /\ current = [p \in Pairings |-> TRUE]
      /\ cohort = [c \in Cohorts |-> NoCohort]
      /\ seat = [pl \in Plans |-> [l \in Learners |-> None]]
      /\ request = [r \in Requests |-> NoRequest]
      /\ hint = {} /\ post = {} /\ sweep = [at |-> Never, todo |-> {}]
      /\ edits = 0 /\ faults = 0
  BY DEF Init
<1>2. NoCohort \in CohortRows /\ NoCohort.status = "NONE"
  BY Ids DEF NoCohort, CohortRows
<1>3. NoRequest \in RequestRows /\ NoRequest.status = "NONE" /\ DOMAIN NoRequest.answer = {}
  <2>1. <<>> \in [{} -> Answers] /\ DOMAIN <<>> = {}
    OBVIOUS
  <2>2. <<>> \in Responses
    BY <2>1 DEF Responses
  <2>3. 1 \in 1 .. 3 /\ 0 \in 0 .. MaxOffers /\ 0 \in Instants
    BY Ids
  <2>4. QED
    BY <2>1, <2>2, <2>3 DEF NoRequest, RequestRows
<1>4. Typed(Db)
  BY <1>1, <1>2, <1>3 DEF Typed, Db
<1>5. /\ \A c \in Cohorts : Db.cohort[c].status = "NONE"
      /\ \A r \in Requests : Db.request[r].status = "NONE" /\ DOMAIN Db.request[r].answer = {}
      /\ \A pl \in Plans, l \in Learners : Db.seat[pl][l] = None
  BY <1>1, <1>2, <1>3 DEF Db
<1>6. Booked(Db) = {} /\ Holds(Db) = {} /\ Live(Db, {}) = {}
  BY <1>5 DEF Booked, Holds, Live, OpenRequests, Open
<1>7. /\ Rooted(Db, {}) /\ Planned(Db, {}, weekly, clock) /\ OnePerPlace(Db)
      /\ Negotiated(Db, {}, clock)
  BY <1>5 DEF Rooted, Planned, OnePerPlace, Negotiated, Blank
<1>8. Seated(Db)
  BY <1>5, Ids DEF Seated
<1>9. Disjoint(Db, {}) /\ Apart(Db) /\ Reserved(Db, {}) /\ WeeklyFree(Db, {}, weekly, clock)
  BY <1>6 DEF Disjoint, Apart, Reserved, WeeklyFree
<1>10. Rows
  BY <1>4, <1>7, <1>8, <1>9 DEF Rows, Good
<1>11. Types
  <2>1. MaxEdits \in Nat /\ MaxFaults \in Nat
    BY BoundsAssumption
  <2>2. QED
    BY <1>1, <2>1, Ids DEF Types
<1>12. Mails /\ Sweeps
  BY <1>1, Ids DEF Mails, Sweeps, Never
<1>13. Hints
  <2>1. MaxHints \in Nat
    BY BoundsAssumption
  <2>2. QED
    BY <1>1, <2>1, FS_EmptySet DEF Hints
<1>14. QED
  BY <1>10, <1>11, <1>12, <1>13 DEF IInv

(* Every step keeps the invariant and is lawful.                              *)
LEMMA StaffKeep ==
    ASSUME IInv, Staff
    PROVE  Kept
<1>1. PICK p \in Pairings :
          \/ Confirm(p) \/ Publish(p) \/ Edit(p) \/ Invalidate(p)
          \/ \E l \in JoinersOf[p] : Join(p, l) \/ Release(p, l)
  BY Zenon DEF Staff
<1>2. JoinersOf[p] \subseteq Learners
  BY Slots
<1>3. CASE Confirm(p) \/ Publish(p) \/ Edit(p) \/ Invalidate(p)
  BY <1>3, Confirms, Publications, Edits, Invalidates
<1>4. CASE \E l \in JoinersOf[p] : Join(p, l) \/ Release(p, l)
  BY <1>2, <1>4, Joins, Releases
<1>5. QED
  BY <1>1, <1>3, <1>4

LEMMA PeopleKeep ==
    ASSUME IInv, People
    PROVE  Kept
<1>1. CASE \E c \in Cohorts : Record(c)
  BY <1>1, Records
<1>2. CASE \E c \in Cohorts, l \in Learners, place \in Wishes : Suggest(c, l, place)
  BY <1>2, Suggests
<1>3. ASSUME NEW c \in Cohorts, NEW kind \in {"RESCHEDULE", "EXTRA"}, NEW scope \in {"ONE", "ALL"},
             NEW place \in Wishes, NEW h \in {{}} \cup {{i} : i \in hint},
             NEW people \in Asked(c, scope), Propose(c, kind, scope, people, place, h)
      PROVE  Kept
  BY <1>3, Proposals
<1>4. ASSUME NEW r \in Requests, NEW n \in 1 .. MaxOffers, NEW x \in DOMAIN request[r].answer,
             \/ Accept(r, x, n) \/ Refuse(r, x, n)
             \/ \E place \in Wishes : Counter(r, x, n, place)
      PROVE  Kept
  BY <1>4, Accepts, Refuses, Counters
<1>5. CASE \E r \in Requests, x \in Persons : AskSeparate(r, x)
  BY <1>5, AsksSeparate
<1>6. CASE \E r \in Requests : FormalizeSplit(r)
  BY <1>6, FormalizesSplit
<1>7. QED
  BY <1>1, <1>2, <1>3, <1>4, <1>5, <1>6 DEF People

LEMMA ServerKeeps ==
    ASSUME IInv, Server
    PROVE  Kept
<1>1. CASE \E r \in Requests : \E x \in DOMAIN request[r].answer : Mail(r, x)
  BY <1>1, Mailed
<1>2. CASE \E m \in post : Delivered(m) \/ Lose(m)
  BY <1>2, Deliveries, Loses
<1>3. CASE StartSweep \/ AbandonSweep
  BY <1>3, StartsSweep, AbandonsSweep
<1>4. CASE \E r \in Requests : Visit(r)
  BY <1>4, Visits
<1>5. QED
  BY <1>1, <1>2, <1>3, <1>4 DEF Server

LEMMA Stutters ==
    ASSUME IInv, UNCHANGED vars
    PROVE  Kept
<1>1. /\ UNCHANGED <<clock, weekly, db>> /\ post' = post /\ hint' = hint
      /\ UNCHANGED <<clock, weekly, current, edits, faults>> /\ UNCHANGED <<clock, sweep>>
  BY DEF vars, db
<1>2. Rows' /\ Lawful(Db, Db') /\ Mails' /\ Hints'
  BY <1>1, Idle
<1>3. QED
  BY <1>1, <1>2, TypesKept, SweepsKept DEF Kept, IInv

LEMMA StepsKeep ==
    ASSUME IInv, [Next]_vars
    PROVE  Kept
BY StaffKeep, PeopleKeep, ServerKeeps, Ticks, Stutters DEF Next

(* The inductive invariant holds, and every step is lawful: it keeps what was *)
(* agreed, what was recorded, and every request that is closed.               *)
THEOREM Invariance == Spec => [](IInv) /\ [][Lawful(Db, Db')]_vars
<1>1. Init => IInv
  BY Begins
<1>2. IInv /\ [Next]_vars => IInv'
  BY StepsKeep DEF Kept
<1>3. IInv /\ [Next]_vars => [Lawful(Db, Db')]_vars
  BY StepsKeep DEF Kept
<1>4. QED
  BY <1>1, <1>2, <1>3, PTL DEF Spec

(* Every row has its shape whatever is published, proposed, answered, split,  *)
(* joined, left or swept: an individual negotiation never passes its third    *)
(* stage, and the responses are those of the people concerned.                *)
THEOREM RowsHaveTheirShape == Spec => []TypeOK
<1>1. ASSUME IInv PROVE TypeOK
  <2>1. /\ Typed(Db) /\ clock \in Instants
        /\ request \in [Requests -> RequestRows] /\ cohort \in [Cohorts -> CohortRows]
        /\ seat \in [Plans -> [Learners -> Cohorts \cup {None, Gone}]]
        /\ Negotiated(Db, {}, clock) /\ Db.request = request
    BY <1>1, Standing
  <2>2. ASSUME NEW r \in Requests
        PROVE  LET q == request[r] IN
               /\ q.status \in {"NONE"} \cup Open \cup Closed
               /\ q.plan \in Plans \cup {None} /\ q.base \in Pairings \cup {None}
               /\ q.source \in Cohorts \cup {None} /\ q.parent \in Requests \cup {None}
               /\ q.stage \in 1 .. 3 /\ q.n \in 0 .. MaxOffers
               /\ q.status # "NONE" => DOMAIN q.answer = Audience(Db, q)
               /\ \A x \in DOMAIN q.answer : q.answer[x] \in Answers
    <3> DEFINE q == request[r]
    <3>1. q \in RequestRows
      BY <2>1
    <3>2. /\ q.status \in {"NONE"} \cup Open \cup Closed
          /\ q.plan \in Plans \cup {None} /\ q.base \in Pairings \cup {None}
          /\ q.source \in Cohorts \cup {None} /\ q.parent \in Requests \cup {None}
          /\ q.stage \in 1 .. 3 /\ q.n \in 0 .. MaxOffers /\ q.answer \in Responses
      BY <3>1 DEF RequestRows
    <3>3. q.status # "NONE" => DOMAIN q.answer = Audience(Db, q)
      BY <2>1 DEF Negotiated
    <3>4. \A x \in DOMAIN q.answer : q.answer[x] \in Answers
      BY <3>2 DEF Responses
    <3>5. QED
      BY <3>2, <3>3, <3>4
  <2>3. QED
    BY <1>1, <2>1, <2>2 DEF TypeOK, IInv, Types, Mails, Sweeps, Hints
<1>2. QED
  BY <1>1, Invariance, PTL

(* No tutor, learner or room is booked twice for one window.                  *)
THEOREM NobodyIsBookedTwice == Spec => []NoDoubleBooking
<1>1. ASSUME IInv PROVE NoDoubleBooking
  BY <1>1, Standing DEF Apart, NoDoubleBooking, At, Lies
<1>2. QED
  BY <1>1, Invariance, PTL

(* An offer on the table keeps its window, its room and its people.           *)
THEOREM OffersReserveTheirWindow == Spec => []HoldsKept
<1>1. ASSUME IInv PROVE HoldsKept
  <2>1. Reserved(Db, {}) /\ Db.request = request /\ Db.cohort = cohort
    BY <1>1, Standing
  <2>2. \A r \in Requests : request[r].status = "PENDING" <=> r \in Holds(Db)
    BY <2>1 DEF Holds
  <2>3. QED
    BY <2>1, <2>2 DEF Reserved, HoldsKept, At, Lies
<1>2. QED
  BY <1>1, Invariance, PTL

(* A confirmed weekly time that is still ahead can be published as agreed:    *)
(* no lesson, no offer and no other confirmed pairing lies in its way.        *)
THEOREM ConfirmedTimesStayFree == Spec => []WeeklyKept
<1>1. ASSUME IInv, NEW p \in Pairings, weekly[p] = "CONFIRMED", SlotOf[p] > clock
      PROVE  CanTake(Db, None, Lesson(p, None, RosterOf[p]), FALSE, clock)
  <2> DEFINE w == Lesson(p, None, RosterOf[p])
             own == Party(Db, w.plan, w.people)
  <2>1. /\ WeeklyFree(Db, {}, weekly, clock)
        /\ Db.request = request /\ Db.cohort = cohort /\ Db.seat = seat
    BY <1>1, Standing
  <2>2. /\ w.plan = p /\ w.source = None /\ w.people = RosterOf[p]
        /\ w.at = SlotOf[p] /\ w.room = RoomOf[p]
    BY LessonRow
  <2> HIDE DEF w
  <2>3. own = {TutorOf[p]} \cup RosterOf[p]
    BY <2>2 DEF Party, Tutor, Base
  <2> HIDE DEF own
  <2>4. \A c \in Booked(Db) : Db.cohort[c].at = w.at =>
            ~Clash(w.room, own, Db.cohort[c].room, Party(Db, Db.cohort[c].plan, Roster(Db, c)))
    BY <1>1, <2>1, <2>2, <2>3 DEF WeeklyFree, Lies
  <2>5. \A r \in Holds(Db) : Db.request[r].at = w.at =>
            ~Clash(w.room, own, Db.request[r].room, Audience(Db, Db.request[r]))
    BY <1>1, <2>1, <2>2, <2>3 DEF WeeklyFree
  <2>6. None \notin Booked(Db)
    BY Ids DEF Booked
  <2>7. ClearOfWeekly(w, own)
    <3>1. SUFFICES ASSUME NEW a \in Pairings, a # p, SlotOf[a] = SlotOf[p]
                   PROVE  ~Clash(RoomOf[p], own, RoomOf[a], {TutorOf[a]} \cup RosterOf[a])
      BY <2>2 DEF ClearOfWeekly
    <3>2. /\ RoomOf[p] # RoomOf[a] \/ RoomOf[p] = Online
          /\ ({TutorOf[p]} \cup RosterOf[p]) \cap ({TutorOf[a]} \cup RosterOf[a]) = {}
      BY <3>1, PairingsAssumption
    <3>3. QED
      BY <2>3, <3>2 DEF Clash
  <2>8. w.at > clock
    BY <1>1, <2>2
  <2>9. CanTake(Db, None, w, FALSE, clock)
    BY <2>2, <2>4, <2>5, <2>6, <2>7, <2>8, Zenon DEF CanTake, own
  <2>10. QED
    BY <2>9 DEF w
<1>2. IInv => WeeklyKept
  BY <1>1 DEF WeeklyKept
<1>3. QED
  BY <1>2, Invariance, PTL

(* Silence counts as assent only of somebody who had the notice of this very  *)
(* offer for a full response window, before its cutoff.                       *)
THEOREM SilenceNeedsNotice == Spec => []NoticeOfThisOffer
<1>1. ASSUME IInv PROVE NoticeOfThisOffer
  <2>1. /\ Negotiated(Db, {}, clock) /\ Db.request = request
        /\ request \in [Requests -> RequestRows]
    BY <1>1, Standing
  <2>2. SUFFICES ASSUME NEW r \in Requests, NEW x \in DOMAIN request[r].answer
                 PROVE  LET w == request[r].answer[x]
                        IN  /\ w.sent # Never => w.sent >= request[r].made
                            /\ w.by = "TIMEOUT" => /\ w.sent # Never /\ w.sent + Response <= clock
                                                   /\ w.sent + Response < request[r].cutoff
    BY DEF NoticeOfThisOffer
  <2>3. request[r].status # "NONE"
    BY <2>1, <2>2 DEF Negotiated, Blank
  <2>4. Told(request[r], clock)
    BY <2>1, <2>3 DEF Negotiated
  <2>5. QED
    BY <2>2, <2>4 DEF Told
<1>2. QED
  BY <1>1, Invariance, PTL

(* The roster and the place of a recorded lesson never change again.          *)
THEOREM RecordedLessonsStand == Spec => EvidenceStands
<1>1. ASSUME Lawful(Db, Db')
      PROVE  \A c \in Cohorts : cohort[c].status = "RECORDED" =>
                cohort'[c] = cohort[c] /\ \A l \in Learners :
                    seat[cohort[c].plan][l] = c <=> seat'[cohort[c].plan][l] = c
  BY <1>1 DEF Lawful, Stands, Db
<1>2. QED
  BY <1>1, Invariance, PTL DEF EvidenceStands

(* A learner's seat moves to another place only in the step in which a        *)
(* request of that learner, for that place, is accepted by everybody.         *)
THEOREM NobodyIsMovedUnasked == Spec => SeatsMoveByAgreement
<1>1. ASSUME Lawful(Db, Db')
      PROVE  \A pl \in Plans, l \in Learners :
                LET c == seat[pl][l]
                    d == seat'[pl][l]
                IN  c \in Cohorts /\ d \in Cohorts /\ Place(cohort', d) # Place(cohort, c) =>
                       \E r \in Requests : LET q == request'[r] IN
                           /\ request[r].status # "ACCEPTED" /\ q.status = "ACCEPTED"
                           /\ l \in q.people /\ q.plan = pl /\ <<q.at, q.room>> = Place(cohort', d)
                           /\ \A x \in DOMAIN q.answer : q.answer[x].state = "ACCEPTED"
  BY SMTT(60), <1>1 DEF Lawful, Spot, Settles, Place, Db
<1>2. QED
  BY <1>1, Invariance, PTL DEF SeatsMoveByAgreement

(* A closed request is history: nothing writes to it again, and an open one   *)
(* keeps its plan, its lesson and its people for as long as it lives.         *)
THEOREM ClosedRequestsStand ==
    Spec => [][\A r \in Requests : LET q == request[r]
                                       u == request'[r] IN
                  /\ q.status \in Closed => u = q
                  /\ q.status # "NONE" => /\ u.status # "NONE" /\ u.plan = q.plan
                                          /\ u.source = q.source /\ u.people = q.people]_vars
<1>1. ASSUME Lawful(Db, Db')
      PROVE  \A r \in Requests : LET q == request[r]
                                     u == request'[r] IN
                  /\ q.status \in Closed => u = q
                  /\ q.status # "NONE" => /\ u.status # "NONE" /\ u.plan = q.plan
                                          /\ u.source = q.source /\ u.people = q.people
  BY <1>1 DEF Lawful, Evolves, Db, Closed
<1>2. QED
  BY <1>1, Invariance, PTL

=============================================================================
