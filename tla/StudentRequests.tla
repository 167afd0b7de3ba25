-------------------------- MODULE StudentRequests --------------------------
(***************************************************************************)
(* A student's tutoring request in one term: the survey and its mailed     *)
(* link, the profile it materializes, the weekly pairings the profile is   *)
(* put on, and how the request ends.  A request is known by the profile it *)
(* materializes.  A profile may be consolidated into another profile of    *)
(* the same person; the pairings it worked on then have successors, and a  *)
(* membership may serve several requests.  Which request a membership      *)
(* serves is recorded (StudentRequestExecutionAssignment: bond, held) or,  *)
(* for a request without any such record, derived from its own profile.    *)
(* Every operation is one transaction under the locks of the term and of   *)
(* the request; only a link's mail is sent between two transactions.       *)
(***************************************************************************)
EXTENDS Naturals, FiniteSets

CONSTANTS Requests, Mailboxes,
          Senders,        \* invocations of the resend procedure
          Nobody,
          MaxPairings,    \* bounds: weekly pairings ever made,
          MaxLinks,       \* links ever minted for a request,
          MaxTools,       \* uses of the roster tools that know no requests,
          MaxTransfers    \* participation transfers

Pairings == 1 .. MaxPairings
Links == 1 .. MaxLinks
Accounts == Mailboxes    \* an account is named for its primary mailbox
None == 0

ASSUME RequestsAssumption ==
    /\ Nobody \notin Requests \cup Mailboxes
    /\ {MaxPairings, MaxTools, MaxTransfers} \subseteq Nat /\ MaxLinks \in Nat \ {0}

VARIABLES
    survey,     \* StudentSurvey, with its pending StudentRequestReviews
    profile,    \* Tutee, its owner and its ParticipantConsolidation
    bond,       \* the member that serves a request on a pairing, if ever recorded,
    held,       \* and the pairings where that record is not released
    pairing,    \* roster and PairingExecutionSuccessor
    made,       \* pairings 1 .. made exist
    home,       \* the account a mailbox leads to
    student,    \* the profile an account works with today (User.studentId)
    blocks,     \* StudentQuarterBlock: <<mailbox, account>>
    sender,     \* local state of a resend: the link read and the link minted
    minted,     \* links minted for a request
    received,   \* links of a request that the provider took
    tools, transfers

rows == <<survey, profile, bond, held, pairing, made>>
mail == <<sender, minted, received>>
vars == <<rows, mail, home, student, blocks, tools, transfers>>

Terminal == {"RECALLED", "DISQUALIFIED", "ABORTED", "INVALID_REJECTED"}
Status == {"PENDING", "ACTIVE", "INACTIVE"}

(* due is "none" before the first assignment, then verificationDueAt.      *)
SurveyRows ==
    [state : {"NONE", "OPEN"} \cup Terminal, box : Mailboxes \cup {Nobody}, link : Links,
     confirmed : BOOLEAN, flagged : BOOLEAN, due : {"none", "ahead", "past"},
     leave : BOOLEAN, conflicts : SUBSET Pairings]

ProfileRows ==
    [status : {"NONE"} \cup Status, owner : Accounts \cup {Nobody},
     into : Requests \cup {Nobody}]

PairingRows == [roster : SUBSET Requests, next : 0 .. MaxPairings]

Idle == [pc |-> "idle", of |-> Nobody, seen |-> 1, fresh |-> 1]
SenderRows ==
    [pc : {"idle", "mail", "publish"}, of : Requests \cup {Nobody}, seen : Links, fresh : Links]

TypeOK ==
    /\ survey \in [Requests -> SurveyRows] /\ profile \in [Requests -> ProfileRows]
    /\ bond \in [Requests -> [Pairings -> Requests \cup {Nobody}]]
    /\ held \in [Requests -> SUBSET Pairings]
    /\ pairing \in [Pairings -> PairingRows] /\ made \in 0 .. MaxPairings
    /\ home \in [Mailboxes -> Accounts] /\ student \in [Accounts -> Requests \cup {Nobody}]
    /\ blocks \subseteq Mailboxes \X Accounts
    /\ sender \in [Senders -> SenderRows] /\ minted \in [Requests -> Links]
    /\ received \in [Requests -> SUBSET Links]
    /\ tools \in 0 .. MaxTools /\ transfers \in 0 .. MaxTransfers

Init ==
    /\ survey = [r \in Requests |->
          [state |-> "NONE", box |-> Nobody, link |-> 1, confirmed |-> FALSE,
           flagged |-> FALSE, due |-> "none", leave |-> FALSE, conflicts |-> {}]]
    /\ profile = [r \in Requests |-> [status |-> "NONE", owner |-> Nobody, into |-> Nobody]]
    /\ bond = [r \in Requests |-> [p \in Pairings |-> Nobody]]
    /\ held = [r \in Requests |-> {}]
    /\ pairing = [p \in Pairings |-> [roster |-> {}, next |-> None]] /\ made = 0
    /\ home = [m \in Mailboxes |-> m] /\ student = [a \in Accounts |-> Nobody] /\ blocks = {}
    /\ sender = [w \in Senders |-> Idle]
    /\ minted = [r \in Requests |-> 1] /\ received = [r \in Requests |-> {}]
    /\ tools = 0 /\ transfers = 0

-----------------------------------------------------------------------------
(* Reading the rows.  A transaction works on a copy "s" of them.           *)

Db == [survey |-> survey, profile |-> profile, bond |-> bond, held |-> held,
       pairing |-> pairing, made |-> made]

Open(s, r) == s.survey[r].state = "OPEN"
Overdue(s, r) == ~s.survey[r].confirmed /\ s.survey[r].due = "past"
Current(s, r) == Open(s, r) /\ ~Overdue(s, r)
Processable(s, r) == Current(s, r) /\ ~s.survey[r].flagged

(* The profile that does the work of profile r today.                      *)
Exec(s, r) ==
    LET follow[x \in Requests] ==
          IF s.profile[x].into = Nobody THEN x ELSE follow[s.profile[x].into]
    IN follow[r]

ExecPairing(s, p) ==
    LET follow[x \in Pairings] ==
          IF s.pairing[x].next = None THEN x ELSE follow[s.pairing[x].next]
    IN follow[p]

Live(s) == {p \in 1 .. s.made : s.pairing[p].next = None}
Successors(s) == {s.pairing[p].next : p \in Pairings}
On(s, m) == {p \in Pairings : m \in s.pairing[p].roster}

Mapped(s, r) == \E p \in Pairings : s.bond[r][p] # Nobody
Own(s, r) == (On(s, r) \cap Live(s)) \ Successors(s)

(* What request r is assigned to, as pairs of a pairing and a member.       *)
Assignments(s, r) ==
    IF Mapped(s, r)
    THEN {<<p, s.bond[r][p]>> : p \in {x \in s.held[r] \cap Live(s) :
                                          s.bond[r][x] \in s.pairing[x].roster}}
    ELSE {<<p, r>> : p \in Own(s, r)}

(* Variants: only recorded requests hold on to a member; any open request  *)
(* of the member does.                                                     *)
NeededOnRecord(s, r, p, m) ==
    \E q \in Requests \ {r} : Open(s, q) /\ p \in s.held[q] /\ s.bond[q][p] = m

NeededByProfile(s, r, p, m) ==
    \E q \in Requests \ {r} :
        Open(s, q) /\ (q = m \/ (p \in s.held[q] /\ s.bond[q][p] = m))

(* Does another request hold on to member m of pairing p?                  *)
Needed(s, r, p, m) ==
    \E q \in Requests \ {r} :
        /\ Open(s, q)
        /\ \/ p \in s.held[q] /\ s.bond[q][p] = m
           \/ q = m /\ ~Mapped(s, q) /\ p \notin Successors(s)

-----------------------------------------------------------------------------
(* Writing the rows.                                                       *)

(* The assignments a request had by its own profile become records before  *)
(* the first record is made.                                               *)
Retained(s, r) ==
    IF Mapped(s, r) THEN s
    ELSE [s EXCEPT !.bond[r] = [p \in Pairings |-> IF p \in Own(s, r) THEN r ELSE Nobody],
                   !.held[r] = Own(s, r)]

Recorded(s, r, p, m) ==
    LET t == Retained(s, r) IN [t EXCEPT !.bond[r][p] = m, !.held[r] = @ \cup {p}]

(* The status of profile t once request r has let go of its work.          *)
Rest(s, r, t, idle) ==
    LET now == s.profile[t].status
        shared == \E q \in Requests \ {r} : Open(s, q) /\ Exec(s, q) = t
        wanted == IF ~Current(s, t) THEN "INACTIVE" ELSE IF shared THEN "PENDING" ELSE idle
    IN IF On(s, t) \cap Live(s) # {} \/ s.profile[t].into # Nobody THEN now
       ELSE IF wanted = "PENDING" /\ now = "INACTIVE" THEN now
       ELSE wanted

(* Request r lets go of pairings ps.  Members that serve another request   *)
(* stay where they are.                                                    *)
Released(s, r, ps, idle) ==
    LET t == Retained(s, r)
        gone == {a \in Assignments(t, r) : a[1] \in ps /\ ~Needed(t, r, a[1], a[2])}
        u == [t EXCEPT !.held[r] = @ \ ps,
                       !.pairing = [p \in Pairings |->
                           [t.pairing[p] EXCEPT !.roster = @ \ {m \in Requests : <<p, m>> \in gone}]]]
        touched == IF s.profile[r].status = "NONE" THEN {}
                   ELSE {Exec(s, r)} \cup {s.bond[r][p] : p \in s.held[r]}
    IN [u EXCEPT !.profile = [t2 \in Requests |->
           IF t2 \in touched THEN [u.profile[t2] EXCEPT !.status = Rest(u, r, t2, idle)]
           ELSE u.profile[t2]]]

Closed(s, r, state) ==
    Released([s EXCEPT !.survey[r].state = state, !.survey[r].leave = FALSE,
                       !.survey[r].conflicts = {}], r, Pairings, "INACTIVE")

Materialized(s, r) ==
    [s EXCEPT !.profile[r].status = IF @ = "NONE" THEN "PENDING" ELSE @]

Stamped(s, ts) ==
    [s EXCEPT !.survey = [r \in Requests |->
        IF r \in ts /\ Open(s, r) /\ s.survey[r].due = "none"
        THEN [s.survey[r] EXCEPT !.due = "ahead"] ELSE s.survey[r]]]

NewPairing(s, ts) == [s EXCEPT !.made = @ + 1, !.pairing[s.made + 1].roster = ts]

(* The triggers of the database.  The profile of a request that is not     *)
(* processable joins a pairing, or becomes active again, only for another  *)
(* request that is; the roster of a superseded pairing is evidence.        *)
Serves(s, p, t) ==
    /\ s.pairing[p].next = None
    /\ \E q \in Requests : Processable(s, q) /\ p \in s.held[q] /\ s.bond[q][p] = t

MayJoin(s, p, t) == Processable(s, t) \/ Serves(s, p, t)

(* Variant: a profile whose request is closed may not even become inactive. *)
MayRiseOnly(s, t) ==
    \/ profile[t].status \in {"NONE", s.profile[t].status}
    \/ Processable(s, t)
    \/ s.profile[t].status = "ACTIVE" /\ \E p \in On(s, t) : Serves(s, p, t)

MayRise(s, t) ==
    \/ s.profile[t].status \in {"INACTIVE", profile[t].status} \/ profile[t].status = "NONE"
    \/ Processable(s, t)
    \/ s.profile[t].status = "ACTIVE" /\ \E p \in On(s, t) : Serves(s, p, t)

Guarded(s) ==
    /\ \A p \in Pairings : \A t \in s.pairing[p].roster \ pairing[p].roster : MayJoin(s, p, t)
    /\ \A t \in Requests : MayRise(s, t)
    /\ \A p \in Pairings : pairing[p].next # None => s.pairing[p] = pairing[p]

Commit(s) ==
    \E t \in {s} :
        /\ Guarded(t)
        /\ survey' = t.survey /\ profile' = t.profile /\ bond' = t.bond /\ held' = t.held
        /\ pairing' = t.pairing /\ made' = t.made

-----------------------------------------------------------------------------
(* Intake: the survey, its link, the confirmation of its mailbox.          *)

Barred(m, a) == \E b \in blocks : b[1] \in {m, a} \/ b[2] = a

(* Variant: the other request of the person is looked up by the mailbox.    *)
EligibleByMailbox(m, r) ==
    /\ ~Barred(m, home[m])
    /\ \A q \in Requests \ {r} : ~(Open(Db, q) /\ survey[q].confirmed /\ profile[q].owner = m)

(* assertIntakeEligibility for the owner of mailbox m, request r aside.     *)
Eligible(m, r) ==
    /\ ~Barred(m, home[m])
    /\ \A q \in Requests \ {r} :
          ~(Open(Db, q) /\ survey[q].confirmed /\ profile[q].owner = home[m])

(* A second submission of a mailbox with an open request is a resend.      *)
Submit(w, r, m) ==
    /\ survey[r].state = "NONE" /\ sender[w].pc = "idle"
    /\ \A q \in Requests : Open(Db, q) => survey[q].box # m
    /\ Eligible(m, r)
    /\ survey' = [survey EXCEPT ![r].state = "OPEN", ![r].box = m]
    /\ sender' = [sender EXCEPT ![w] = [Idle EXCEPT !.pc = "mail", !.of = r]]
    /\ UNCHANGED <<profile, bond, held, pairing, made, minted, received,
                   home, student, blocks, tools, transfers>>

StartResend(w, r) ==
    /\ sender[w].pc = "idle" /\ minted[r] < MaxLinks
    /\ Open(Db, r) /\ ~survey[r].confirmed /\ ~survey[r].flagged
    /\ minted' = [minted EXCEPT ![r] = @ + 1]
    /\ sender' = [sender EXCEPT ![w] =
          [pc |-> "mail", of |-> r, seen |-> survey[r].link, fresh |-> minted[r] + 1]]
    /\ UNCHANGED <<rows, received, home, student, blocks, tools, transfers>>

(* The submission's own link is in the row already.                        *)
Mail(w) ==
    /\ sender[w].pc = "mail"
    /\ received' = [received EXCEPT ![sender[w].of] = @ \cup {sender[w].fresh}]
    /\ sender' = [sender EXCEPT ![w] =
          IF @.fresh = @.seen THEN Idle ELSE [@ EXCEPT !.pc = "publish"]]
    /\ UNCHANGED <<rows, minted, home, student, blocks, tools, transfers>>

(* The provider refuses the mail, or the process ends.                     *)
GiveUp(w) ==
    /\ sender[w].pc # "idle"
    /\ sender' = [sender EXCEPT ![w] = Idle]
    /\ UNCHANGED <<rows, minted, received, home, student, blocks, tools, transfers>>

(* Variant: the link read before the mail is not compared.                  *)
MayPublishAny(w) ==
    ~survey[sender[w].of].confirmed /\ Processable(Db, sender[w].of)

MayPublish(w) ==
    LET row == survey[sender[w].of] IN
    /\ row.link = sender[w].seen /\ ~row.confirmed
    /\ Processable(Db, sender[w].of)

Publish(w) ==
    /\ sender[w].pc = "publish"
    /\ survey' = IF MayPublish(w)
                 THEN [survey EXCEPT ![sender[w].of].link = sender[w].fresh] ELSE survey
    /\ sender' = [sender EXCEPT ![w] = Idle]
    /\ UNCHANGED <<profile, bond, held, pairing, made, minted, received,
                   home, student, blocks, tools, transfers>>

Confirm(r) ==
    /\ Processable(Db, r) /\ ~survey[r].confirmed
    /\ survey[r].link \in received[r]
    /\ Eligible(survey[r].box, r)
    /\ Commit(Materialized([Db EXCEPT !.survey[r].confirmed = TRUE,
                                      !.profile[r].owner = home[survey[r].box]], r))
    /\ student' = [student EXCEPT ![home[survey[r].box]] = r]
    /\ UNCHANGED <<mail, home, blocks, tools, transfers>>

(* An account proves that it owns another mailbox.                         *)
ConfirmSecondaryEmail(m, a) ==
    /\ home[m] = m /\ home[a] = a /\ m # a
    /\ \A x \in Mailboxes \ {m} : home[x] # m
    /\ \A r \in Requests : profile[r].owner # m
    /\ \A b \in blocks : b[2] # m
    /\ home' = [home EXCEPT ![m] = a]
    /\ UNCHANGED <<rows, mail, student, blocks, tools, transfers>>

DeadlinePasses(r) ==
    /\ Open(Db, r) /\ ~survey[r].confirmed /\ survey[r].due = "ahead"
    /\ survey' = [survey EXCEPT ![r].due = "past"]
    /\ UNCHANGED <<profile, bond, held, pairing, made, mail, home, student, blocks, tools, transfers>>

Flag(r) ==
    /\ Open(Db, r) /\ ~survey[r].flagged
    /\ survey' = [survey EXCEPT ![r].flagged = TRUE]
    /\ UNCHANGED <<profile, bond, held, pairing, made, mail, home, student, blocks, tools, transfers>>

Unflag(r) ==
    /\ survey[r].flagged
    /\ survey' = [survey EXCEPT ![r].flagged = FALSE]
    /\ UNCHANGED <<profile, bond, held, pairing, made, mail, home, student, blocks, tools, transfers>>

-----------------------------------------------------------------------------
(* Assignment.                                                             *)

Assign(r) ==
    /\ Processable(Db, r) /\ made < MaxPairings
    /\ LET s == Materialized(Db, r)
           m == Exec(s, r)
           t == Recorded(NewPairing(s, {m}), r, made + 1, m)
       IN Commit(Stamped([t EXCEPT !.profile[m].status = "ACTIVE"], {r}))
    /\ UNCHANGED <<mail, home, student, blocks, tools, transfers>>

(* The roster tools of staff name profiles, not requests.                  *)
Assignable(ts) == \A t \in ts : profile[t].status # "NONE" /\ Processable(Db, t)

CreatePairing(ts) ==
    /\ tools < MaxTools /\ made < MaxPairings /\ ts # {} /\ Assignable(ts)
    /\ Commit(Stamped(NewPairing(Db, ts), ts))
    /\ tools' = tools + 1
    /\ UNCHANGED <<mail, home, student, blocks, transfers>>

UpdatePairing(p, ts) ==
    /\ tools < MaxTools /\ p \in Live(Db) /\ Assignable(ts) /\ ts # pairing[p].roster
    /\ Commit(Stamped([Db EXCEPT !.pairing[p].roster = ts], ts))
    /\ tools' = tools + 1
    /\ UNCHANGED <<mail, home, student, blocks, transfers>>

AssignTutee(t) ==
    /\ tools < MaxTools /\ made < MaxPairings /\ Assignable({t})
    /\ Commit(Stamped([NewPairing(Db, {t}) EXCEPT !.profile[t].status = "ACTIVE"], {t}))
    /\ tools' = tools + 1
    /\ UNCHANGED <<mail, home, student, blocks, transfers>>

HeadUnassign(r, p) ==
    /\ Current(Db, r) /\ r \in pairing[p].roster
    /\ LET s == [Db EXCEPT !.pairing[p].roster = @ \ {r}, !.survey[r].conflicts = @ \ {p}]
       IN Commit(IF On(s, r) = {} THEN [s EXCEPT !.profile[r].status = "PENDING"] ELSE s)
    /\ UNCHANGED <<mail, home, student, blocks, tools, transfers>>

SetTuteeStatus(t, status) ==
    /\ profile[t].status \notin {"NONE", status}
    /\ status # "INACTIVE" => Processable(Db, t)
    /\ LET s == [Db EXCEPT !.profile[t].status = status]
       IN Commit(IF status = "INACTIVE"
                 THEN [s EXCEPT !.pairing = [p \in Pairings |->
                          [pairing[p] EXCEPT !.roster = @ \ {t}]]]
                 ELSE s)
    /\ UNCHANGED <<mail, home, student, blocks, tools, transfers>>

(* Profile src of a person stops working and tgt takes over its pairings:  *)
(* each gets a successor with the same roster, tgt in the place of src, and *)
(* the open requests it served are recorded there by name.  The account    *)
(* that is retained works with tgt from then on; a profile it worked with   *)
(* until then has to be one of the two.                                     *)
Family(src, tgt) == {q \in Requests : Exec(Db, q) \in {src, tgt}}

MayTransfer(src, tgt) ==
    /\ src # tgt /\ profile[src].into = Nobody /\ profile[src].status = "ACTIVE"
    /\ \/ profile[tgt].into = Nobody /\ profile[tgt].status = "ACTIVE"
       \/ profile[tgt].into = src
    /\ \A q \in Family(src, tgt) : Open(Db, q) => survey[q].confirmed
    /\ \A q \in {src, tgt} : ~Barred(survey[q].box, profile[q].owner)

Moved(s, src, tgt) ==
    LET old == On(s, src) \cap Live(s)
        successor[p \in old] == s.made + Cardinality({x \in old : x <= p})
        new == {successor[p] : p \in old}
        source(n) == CHOOSE p \in old : successor[p] = n
        by(m) == IF m = src THEN tgt ELSE m
        serves(q, n) == <<source(n), s.bond[q][source(n)]>> \in Assignments(s, q)
    IN [s EXCEPT
          !.made = @ + Cardinality(old),
          !.bond = [q \in Requests |-> [n \in Pairings |->
              IF n \in new /\ Open(s, q) /\ serves(q, n)
              THEN by(s.bond[q][source(n)]) ELSE s.bond[q][n]]],
          !.held = [q \in Requests |->
              (s.held[q] \ old) \cup {n \in new : Open(s, q) /\ serves(q, n)}],
          !.pairing = [p \in Pairings |->
              CASE p \in old -> [s.pairing[p] EXCEPT !.next = successor[p]]
                [] p \in new -> [roster |-> {by(m) : m \in s.pairing[source(p)].roster},
                                 next |-> None]
                [] OTHER -> s.pairing[p]]]

TransferParticipation(src, tgt, a) ==
    /\ transfers < MaxTransfers /\ MayTransfer(src, tgt)
    /\ home[a] = a /\ ~Barred(a, a) /\ student[a] \in {Nobody, src, tgt}
    /\ LET old == On(Db, src) \cap Live(Db)
           seen == {q \in Requests : Open(Db, q) /\ (q \in Family(src, tgt)
                                        \/ \E p \in old : q \in pairing[p].roster)}
           s == [Db EXCEPT
                   !.bond = [q \in Requests |-> IF q \in seen THEN Retained(Db, q).bond[q] ELSE @[q]],
                   !.held = [q \in Requests |-> IF q \in seen THEN Retained(Db, q).held[q] ELSE @[q]]]
       IN /\ made + Cardinality(old) <= MaxPairings
          /\ Commit([Moved(s, src, tgt) EXCEPT
                !.profile[src] = [status |-> "INACTIVE", owner |-> a, into |-> tgt],
                !.profile[tgt] = [status |-> "ACTIVE", owner |-> a, into |-> Nobody]])
    /\ student' = [b \in Accounts |-> IF b = a THEN tgt
                                      ELSE IF student[b] \in {src, tgt} THEN Nobody
                                      ELSE student[b]]
    /\ transfers' = transfers + 1
    /\ UNCHANGED <<mail, home, blocks, tools>>

-----------------------------------------------------------------------------
(* How a request ends, and how it gives up one pairing.                    *)

(* Variant: a request that was never confirmed can ask to leave.            *)
OwnedUnconfirmed(r) == Current(Db, r)

Owned(r) == Current(Db, r) /\ survey[r].confirmed

Recall(r) ==
    /\ Owned(r) /\ Assignments(Db, r) = {}
    /\ Commit(Closed(Db, r, "RECALLED"))
    /\ UNCHANGED <<mail, home, student, blocks, tools, transfers>>

ApplyAbort(r) ==
    /\ Owned(r) /\ Assignments(Db, r) # {} /\ ~survey[r].leave
    /\ survey' = [survey EXCEPT ![r].leave = TRUE]
    /\ UNCHANGED <<profile, bond, held, pairing, made, mail, home, student, blocks, tools, transfers>>

ApproveAbort(r) ==
    /\ Current(Db, r) /\ survey[r].leave
    /\ Commit(Closed(Db, r, "ABORTED"))
    /\ blocks' = blocks \cup {<<survey[r].box, profile[r].owner>>}
    /\ UNCHANGED <<mail, home, student, tools, transfers>>

DenyAbort(r) ==
    /\ Current(Db, r) /\ survey[r].leave
    /\ survey' = [survey EXCEPT ![r].leave = FALSE]
    /\ UNCHANGED <<profile, bond, held, pairing, made, mail, home, student, blocks, tools, transfers>>

(* A tutor reports that a member's times do not fit.                       *)
ApplyScheduleRejection(r, p) ==
    /\ Current(Db, r)
    /\ \E a \in Assignments(Db, r) : a[1] = p /\ profile[a[2]].status # "INACTIVE"
    /\ \A x \in survey[r].conflicts : ExecPairing(Db, x) # p
    /\ survey' = [survey EXCEPT ![r].conflicts = @ \cup {p}]
    /\ UNCHANGED <<profile, bond, held, pairing, made, mail, home, student, blocks, tools, transfers>>

ApproveScheduleRejection(r, p) ==
    /\ Current(Db, r) /\ p \in survey[r].conflicts
    /\ \E a \in Assignments(Db, r) : a[1] = ExecPairing(Db, p)
    /\ Commit(Released([Db EXCEPT !.survey[r].conflicts = @ \ {p}],
                       r, {ExecPairing(Db, p)}, "PENDING"))
    /\ UNCHANGED <<mail, home, student, blocks, tools, transfers>>

DenyScheduleRejection(r, p) ==
    /\ Current(Db, r) /\ p \in survey[r].conflicts
    /\ survey' = [survey EXCEPT ![r].conflicts = @ \ {p}]
    /\ UNCHANGED <<profile, bond, held, pairing, made, mail, home, student, blocks, tools, transfers>>

(* An appeal against the flag is turned down.                              *)
RejectAppeal(r) ==
    /\ Current(Db, r) /\ survey[r].flagged
    /\ Commit(Closed(Db, r, "INVALID_REJECTED"))
    /\ UNCHANGED <<mail, home, student, blocks, tools, transfers>>

Expire(r) ==
    /\ Open(Db, r) /\ Overdue(Db, r)
    /\ Commit(Closed(Db, r, "DISQUALIFIED"))
    /\ UNCHANGED <<mail, home, student, blocks, tools, transfers>>

Next ==
    \/ \E w \in Senders : Mail(w) \/ GiveUp(w) \/ Publish(w)
    \/ \E w \in Senders, r \in Requests : StartResend(w, r)
    \/ \E w \in Senders, r \in Requests, m \in Mailboxes : Submit(w, r, m)
    \/ \E m, a \in Mailboxes : ConfirmSecondaryEmail(m, a)
    \/ \E r \in Requests :
          \/ Confirm(r) \/ DeadlinePasses(r) \/ Flag(r) \/ Unflag(r) \/ Assign(r)
          \/ AssignTutee(r) \/ Recall(r) \/ ApplyAbort(r) \/ ApproveAbort(r) \/ DenyAbort(r)
          \/ RejectAppeal(r) \/ Expire(r)
    \/ \E r \in Requests, p \in Pairings :
          \/ HeadUnassign(r, p) \/ ApplyScheduleRejection(r, p)
          \/ ApproveScheduleRejection(r, p) \/ DenyScheduleRejection(r, p)
    \/ \E r \in Requests, status \in Status : SetTuteeStatus(r, status)
    \/ \E ts \in SUBSET Requests : CreatePairing(ts) \/ \E p \in Pairings : UpdatePairing(p, ts)
    \/ \E src, tgt \in Requests, a \in Accounts : TransferParticipation(src, tgt, a)

Spec == Init /\ [][Next]_vars

-----------------------------------------------------------------------------
(* Properties.                                                             *)

OffRoster(r) ==
    survey[r].state \in Terminal =>
        \A p \in On(Db, r) \cap Live(Db) :
            \E q \in Requests : Open(Db, q) /\ p \in held[q] /\ bond[q][p] = r

(* The profile of a request that has ended is on no current pairing, unless *)
(* another request that is still open works there through it: what          *)
(* closeStudentRequest says of terminal transitions.  The roster tools of   *)
(* staff break it (their memberships are recorded for no request), so the   *)
(* claim is checked as it stands only in the run that refutes it.           *)
ClosedMeansOffRoster == \A r \in Requests : OffRoster(r)

(* While staff assign through the workflow only, closing a request does     *)
(* clear its profile's roster rows, transfers and shared members included.  *)
WorkflowClearsRoster == tools = 0 => ClosedMeansOffRoster

LetsGo(r) ==
    \/ survey[r].state = "OPEN" /\ survey'[r].state # "OPEN"
    \/ /\ survey'[r].conflicts # survey[r].conflicts
       /\ \E p \in Pairings : ApproveScheduleRejection(r, p)

(* A request that ends, or gives up one pairing, takes no assignment from   *)
(* any other open request, be it recorded or derived, even where both are   *)
(* served by the same member (releaseStudentRequestExecution).              *)
OthersKept ==
    [][\A r \in Requests : LetsGo(r) =>
          \A q \in Requests \ {r} :
              Open(Db, q) => Assignments(Db, q)' = Assignments(Db, q)]_vars

(* No state of the roster and the profiles makes the database's triggers    *)
(* refuse the expiry of an overdue request: every procedure of the workflow *)
(* expires overdue requests first, so one that could not be expired would   *)
(* fail them all.                                                           *)
ExpiryNeverBlocked ==
    \A r \in Requests : Open(Db, r) /\ Overdue(Db, r) => Guarded(Closed(Db, r, "DISQUALIFIED"))

(* Of two resends whose mails cross, the link that counts never goes back   *)
(* to an older one, was delivered, and is not given to a request that was   *)
(* confirmed, flagged, ended or became overdue while the mail was sent.     *)
NewerLinkStands ==
    [][\A r \in Requests : survey'[r].link # survey[r].link =>
          /\ survey'[r].link > survey[r].link /\ survey'[r].link \in received[r]
          /\ Processable(Db, r) /\ ~survey[r].confirmed]_vars

(* An account never owns two confirmed open requests, whichever of its      *)
(* mailboxes they came from and however long a link waited, unless their    *)
(* profiles were joined into one by a transfer.  It takes three transfers   *)
(* to get around that: one joins a request's profile into another of its    *)
(* account, one takes that other one to a second account, and one brings    *)
(* the first account, which works with no profile now, a request again.     *)
OneSeat ==
    transfers <= 2 => \A q, r \in Requests :
        /\ Open(Db, q) /\ Open(Db, r) /\ survey[q].confirmed /\ survey[r].confirmed
        /\ profile[q].owner = profile[r].owner
        => Exec(Db, q) = Exec(Db, r)
=============================================================================
