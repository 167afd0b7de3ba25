------------------------ MODULE StudentRequestsProofs ------------------------
(***************************************************************************)
(* Proofs about StudentRequests, for any number of requests, mailboxes,     *)
(* resends, links and pairings.                                             *)
(*                                                                         *)
(* First the links (IInv): nothing but a resend writes the link of a        *)
(* request, whatever else a transaction does to the rows; its working copy  *)
(* is a Copy, whichever helpers it went through.                            *)
(*                                                                         *)
(* Then the rows (WInv): a working copy s is Sound(s, X, R) when its rows   *)
(* have their shape, consolidations never lead back, a request nobody       *)
(* confirmed yet works for itself alone, and every member of a current      *)
(* pairing, the rows of X aside, serves a request that is open or one of R, *)
(* whose end is under way.  Every helper takes sound copies to sound ones;  *)
(* a transaction is a chain of helpers, and Committed makes its last copy   *)
(* the next state.                                                          *)
(***************************************************************************)
EXTENDS StudentRequests, TLAPS, FiniteSetTheorems

(* A working copy of the rows with every request's link as it is stored.     *)
Copy(s) ==
    /\ s = [survey |-> s.survey, profile |-> s.profile, bond |-> s.bond,
            held |-> s.held, pairing |-> s.pairing, made |-> s.made]
    /\ s.survey \in [Requests -> SurveyRows]
    /\ \A r \in Requests : s.survey[r].link = survey[r].link

MailTyped ==
    /\ survey \in [Requests -> SurveyRows] /\ sender \in [Senders -> SenderRows]
    /\ minted \in [Requests -> Links] /\ received \in [Requests -> SUBSET Links]

(* What the invocation in state n knows: its link was minted for its        *)
(* request after the one it read, and is published only once delivered.      *)
Knows(n) ==
    n.pc # "idle" =>
        /\ n.of \in Requests /\ n.fresh <= minted[n.of]
        /\ n.fresh = n.seen \/ n.seen < n.fresh
        /\ n.pc = "publish" => n.seen < n.fresh /\ n.fresh \in received[n.of]

IInv ==
    /\ MailTyped
    /\ \A r \in Requests : survey[r].link <= minted[r]
    /\ \A w \in Senders : Knows(sender[w])

LinkStep ==
    \A r \in Requests : survey'[r].link # survey[r].link =>
        /\ survey'[r].link > survey[r].link /\ survey'[r].link \in received[r]
        /\ Processable(Db, r) /\ ~survey[r].confirmed

------------------------------------------------------------------------------
(* The helpers that write a working copy keep it one.                        *)
LEMMA DbCopy ==
    ASSUME MailTyped
    PROVE  Copy(Db)
  BY DEF Copy, Db, MailTyped

LEMMA OtherRows ==
    ASSUME NEW s, Copy(s), NEW p, NEW b, NEW h, NEW q, NEW n
    PROVE  Copy([survey |-> s.survey, profile |-> p, bond |-> b, held |-> h,
                 pairing |-> q, made |-> n])
  BY DEF Copy

LEMMA Excepts ==
    ASSUME NEW s, Copy(s), NEW x
    PROVE  /\ Copy([s EXCEPT !.profile = x])
           /\ Copy([s EXCEPT !.bond = x])
           /\ Copy([s EXCEPT !.held = x])
           /\ Copy([s EXCEPT !.pairing = x])
           /\ Copy([s EXCEPT !.made = x])
  BY OtherRows DEF Copy

LEMMA RetainedCopy ==
    ASSUME NEW s, Copy(s), NEW r
    PROVE  Copy(Retained(s, r))
<1>1. PICK b, h : Retained(s, r) \in {s, [[s EXCEPT !.bond = b] EXCEPT !.held = h]}
  BY DEF Retained, Copy
<1>2. PICK t : t = [s EXCEPT !.bond = b]
  OBVIOUS
<1>3. Copy(t)
  BY <1>2, Excepts
<1>4. Copy([t EXCEPT !.held = h])
  BY <1>3, Excepts
<1>5. QED
  BY <1>1, <1>2, <1>4

LEMMA RecordedCopy ==
    ASSUME NEW s, Copy(s), NEW r, NEW p, NEW m
    PROVE  Copy(Recorded(s, r, p, m))
<1>1. PICK t : t = Retained(s, r)
  OBVIOUS
<1>2. Copy(t)
  BY <1>1, RetainedCopy
<1>3. PICK b, h : Recorded(s, r, p, m) = [[t EXCEPT !.bond = b] EXCEPT !.held = h]
  BY <1>1, <1>2 DEF Recorded, Copy
<1>4. PICK u : u = [t EXCEPT !.bond = b]
  OBVIOUS
<1>5. Copy(u)
  BY <1>2, <1>4, Excepts
<1>6. Copy([u EXCEPT !.held = h])
  BY <1>5, Excepts
<1>7. QED
  BY <1>3, <1>4, <1>6

LEMMA ReleasedCopy ==
    ASSUME NEW s, Copy(s), NEW r, NEW ps, NEW idle
    PROVE  Copy(Released(s, r, ps, idle))
<1> DEFINE t == Retained(s, r)
<1>2. Copy(t)
  BY RetainedCopy
<1> DEFINE gone == {a \in Assignments(t, r) : a[1] \in ps /\ ~Needed(t, r, a[1], a[2])}
           q == [p \in Pairings |-> [t.pairing[p] EXCEPT
                    !.roster = @ \ {m \in Requests : <<p, m>> \in gone}]]
           u == [t EXCEPT !.held[r] = @ \ ps, !.pairing = q]
           touched == IF s.profile[r].status = "NONE" THEN {}
                      ELSE {Exec(s, r)} \cup {s.bond[r][p] : p \in s.held[r]}
           f == [t2 \in Requests |->
                    IF t2 \in touched THEN [u.profile[t2] EXCEPT !.status = Rest(u, r, t2, idle)]
                    ELSE u.profile[t2]]
<1>3. Released(s, r, ps, idle) = [u EXCEPT !.profile = f]
  BY DEF Released
<1>4. Copy(u)
  <2> HIDE DEF q, t
  <2>1. PICK v : v = [t EXCEPT !.held = [t.held EXCEPT ![r] = @ \ ps]]
    OBVIOUS
  <2>2. Copy(v)
    BY <1>2, <2>1, Excepts
  <2>3. Copy([v EXCEPT !.pairing = q])
    BY <2>2, Excepts
  <2>4. u = [v EXCEPT !.pairing = q]
    BY <2>1
  <2> HIDE DEF u
  <2>5. QED
    BY <2>3, <2>4
<1>5. Copy([u EXCEPT !.profile = f])
  <2> HIDE DEF u, f
  <2>1. QED
    BY <1>4, Excepts
<1>6. QED
  <2> HIDE DEF u, f
  <2>1. QED
    BY <1>3, <1>5

(* Writes to the survey's other columns.                                     *)
LEMMA ClosedCopy ==
    ASSUME NEW s, Copy(s), NEW r \in Requests, NEW state \in Terminal
    PROVE  Copy(Closed(s, r, state))
<1>1. PICK t : t = [s EXCEPT !.survey[r].state = state, !.survey[r].leave = FALSE,
                             !.survey[r].conflicts = {}]
  OBVIOUS
<1>2. PICK n : n = [s.survey[r] EXCEPT !.state = state, !.leave = FALSE, !.conflicts = {}]
  OBVIOUS
<1>3. n \in SurveyRows /\ n.link = s.survey[r].link
  BY <1>2 DEF Copy, SurveyRows
<1>4. t = [s EXCEPT !.survey = [s.survey EXCEPT ![r] = n]]
  BY <1>1, <1>2 DEF Copy, SurveyRows
<1>5. Copy(t)
  BY <1>3, <1>4 DEF Copy
<1>6. Copy(Released(t, r, Pairings, "INACTIVE"))
  BY <1>5, ReleasedCopy
<1>7. QED
  BY <1>1, <1>6 DEF Closed

LEMMA StampedCopy ==
    ASSUME NEW s, Copy(s), NEW ts
    PROVE  Copy(Stamped(s, ts))
<1>1. PICK f : f = [r \in Requests |->
                      IF r \in ts /\ Open(s, r) /\ s.survey[r].due = "none"
                      THEN [s.survey[r] EXCEPT !.due = "ahead"] ELSE s.survey[r]]
  OBVIOUS
<1>2. \A r \in Requests : f[r] \in SurveyRows /\ f[r].link = s.survey[r].link
  BY <1>1 DEF Copy, SurveyRows
<1>3. Stamped(s, ts) = [s EXCEPT !.survey = f]
  BY <1>1 DEF Stamped
<1>4. f \in [Requests -> SurveyRows]
  BY <1>1, <1>2
<1>5. QED
  BY <1>2, <1>3, <1>4 DEF Copy

LEMMA NewPairingCopy ==
    ASSUME NEW s, Copy(s), NEW ts
    PROVE  Copy(NewPairing(s, ts))
<1>1. PICK q : NewPairing(s, ts) = [[s EXCEPT !.made = s.made + 1] EXCEPT !.pairing = q]
  BY DEF NewPairing, Copy
<1>2. PICK t : t = [s EXCEPT !.made = s.made + 1]
  OBVIOUS
<1>3. Copy(t)
  BY <1>2, Excepts
<1>4. Copy([t EXCEPT !.pairing = q])
  BY <1>3, Excepts
<1>5. QED
  BY <1>1, <1>2, <1>4

LEMMA MaterializedCopy ==
    ASSUME NEW s, Copy(s), NEW r
    PROVE  Copy(Materialized(s, r))
<1>1. PICK f : Materialized(s, r) = [s EXCEPT !.profile = f]
  BY DEF Materialized, Copy
<1>2. Copy([s EXCEPT !.profile = f])
  BY Excepts
<1>3. QED
  BY <1>1, <1>2

LEMMA MovedCopy ==
    ASSUME NEW s, Copy(s), NEW src, NEW tgt
    PROVE  Copy(Moved(s, src, tgt))
<1>1. PICK n, b, h, q : Moved(s, src, tgt) =
          [s EXCEPT !.made = n, !.bond = b, !.held = h, !.pairing = q]
  BY Zenon DEF Moved
<1>2. PICK t : t = [s EXCEPT !.made = n]
  OBVIOUS
<1>3. PICK u : u = [t EXCEPT !.bond = b]
  OBVIOUS
<1>4. PICK v : v = [u EXCEPT !.held = h]
  OBVIOUS
<1>5. Copy(t)
  BY <1>2, Excepts
<1>6. Copy(u)
  BY <1>3, <1>5, Excepts
<1>7. Copy(v)
  BY <1>4, <1>6, Excepts
<1>8. Copy([v EXCEPT !.pairing = q])
  BY <1>7, Excepts
<1>9. Moved(s, src, tgt) = [v EXCEPT !.pairing = q]
  BY <1>1, <1>2, <1>3, <1>4
<1>10. QED
  BY <1>8, <1>9

------------------------------------------------------------------------------
(* A step that sends no mail and commits a copy, or rewrites one row of the  *)
(* surveys but for its link.                                                 *)
LEMMA QuietStep ==
    ASSUME IInv, survey' \in [Requests -> SurveyRows], UNCHANGED mail,
           \A r \in Requests : survey'[r].link = survey[r].link
    PROVE  IInv' /\ LinkStep
<1>1. sender' = sender /\ minted' = minted /\ received' = received
  BY DEF mail
<1>2. MailTyped'
  BY <1>1 DEF IInv, MailTyped
<1>3. \A r \in Requests : survey'[r].link <= minted'[r]
  BY <1>1 DEF IInv
<1>4. \A w \in Senders : Knows(sender[w])'
  BY <1>1 DEF IInv, Knows
<1>5. QED
  BY <1>2, <1>3, <1>4 DEF IInv, LinkStep

LEMMA CommittedStep ==
    ASSUME IInv, NEW s, Copy(s), Commit(s), UNCHANGED mail
    PROVE  IInv' /\ LinkStep
<1>1. survey' = s.survey
  BY DEF Commit
<1>2. survey' \in [Requests -> SurveyRows] /\ \A r \in Requests : survey'[r].link = survey[r].link
  BY <1>1 DEF Copy
<1>3. QED
  BY <1>2, QuietStep

LEMMA RowStep ==
    ASSUME IInv, NEW r \in Requests, NEW n \in SurveyRows, n.link = survey[r].link,
           survey' = [survey EXCEPT ![r] = n], UNCHANGED mail
    PROVE  IInv' /\ LinkStep
<1>1. survey' \in [Requests -> SurveyRows]
  BY DEF IInv, MailTyped
<1>2. \A q \in Requests : survey'[q].link = survey[q].link
  BY DEF IInv, MailTyped
<1>3. QED
  BY <1>1, <1>2, QuietStep

LEMMA RowCopy ==
    ASSUME NEW s, Copy(s), NEW r \in Requests, NEW n \in SurveyRows, n.link = s.survey[r].link
    PROVE  Copy([s EXCEPT !.survey = [s.survey EXCEPT ![r] = n]])
  BY DEF Copy

LEMMA ConfirmStep ==
    ASSUME IInv, NEW r \in Requests, Confirm(r)
    PROVE  IInv' /\ LinkStep
<1>1. PICK n : n = [survey[r] EXCEPT !.confirmed = TRUE]
  OBVIOUS
<1>2. n \in SurveyRows /\ n.link = survey[r].link
  BY <1>1 DEF IInv, MailTyped, SurveyRows
<1>3. Copy(Db)
  BY DbCopy DEF IInv
<1>4. PICK s : s = [Db EXCEPT !.survey = [Db.survey EXCEPT ![r] = n]]
  OBVIOUS
<1>5. Copy(s)
  BY <1>2, <1>3, <1>4, RowCopy DEF Db
<1>6. PICK f : f = [s.profile EXCEPT ![r].owner = home[survey[r].box]]
  OBVIOUS
<1>7. PICK u : u = [s EXCEPT !.profile = f]
  OBVIOUS
<1>8. Copy(u)
  BY <1>5, <1>7, Excepts
<1>9. u = [Db EXCEPT !.survey[r].confirmed = TRUE, !.profile[r].owner = home[survey[r].box]]
  BY <1>1, <1>4, <1>6, <1>7 DEF Db, IInv, MailTyped
<1>10. Copy(Materialized(u, r))
  BY <1>8, MaterializedCopy
<1>11. Commit(Materialized(u, r)) /\ UNCHANGED mail
  BY <1>9, Zenon DEF Confirm
<1>12. QED
  BY <1>10, <1>11, CommittedStep

(* The steps that rewrite one row of the surveys.                            *)
LEMMA RowSteps ==
    ASSUME IInv, NEW r \in Requests,
           \/ DeadlinePasses(r) \/ Flag(r) \/ Unflag(r) \/ ApplyAbort(r) \/ DenyAbort(r)
           \/ \E p \in Pairings : ApplyScheduleRejection(r, p) \/ DenyScheduleRejection(r, p)
    PROVE  IInv' /\ LinkStep
<1>1. survey[r] \in SurveyRows /\ UNCHANGED mail
  BY DEF IInv, MailTyped, DeadlinePasses, Flag, Unflag, ApplyAbort, DenyAbort,
         ApplyScheduleRejection, DenyScheduleRejection
<1>2. CASE DeadlinePasses(r)
  <2>1. [survey[r] EXCEPT !.due = "past"] \in SurveyRows
    BY <1>1 DEF SurveyRows
  <2>2. QED
    BY <1>1, <1>2, <2>1, RowStep DEF DeadlinePasses, SurveyRows
<1>3. CASE Flag(r)
  <2>1. [survey[r] EXCEPT !.flagged = TRUE] \in SurveyRows
    BY <1>1 DEF SurveyRows
  <2>2. QED
    BY <1>1, <1>3, <2>1, RowStep DEF Flag, SurveyRows
<1>4. CASE Unflag(r)
  <2>1. [survey[r] EXCEPT !.flagged = FALSE] \in SurveyRows
    BY <1>1 DEF SurveyRows
  <2>2. QED
    BY <1>1, <1>4, <2>1, RowStep DEF Unflag, SurveyRows
<1>5. CASE ApplyAbort(r)
  <2>1. [survey[r] EXCEPT !.leave = TRUE] \in SurveyRows
    BY <1>1 DEF SurveyRows
  <2>2. QED
    BY <1>1, <1>5, <2>1, RowStep DEF ApplyAbort, SurveyRows
<1>6. CASE DenyAbort(r)
  <2>1. [survey[r] EXCEPT !.leave = FALSE] \in SurveyRows
    BY <1>1 DEF SurveyRows
  <2>2. QED
    BY <1>1, <1>6, <2>1, RowStep DEF DenyAbort, SurveyRows
<1>7. ASSUME NEW p \in Pairings, ApplyScheduleRejection(r, p)
      PROVE  IInv' /\ LinkStep
  <2>1. [survey[r] EXCEPT !.conflicts = @ \cup {p}] \in SurveyRows
    BY <1>1 DEF SurveyRows
  <2>2. QED
    BY <1>1, <1>7, <2>1, RowStep DEF ApplyScheduleRejection, SurveyRows
<1>8. ASSUME NEW p \in Pairings, DenyScheduleRejection(r, p)
      PROVE  IInv' /\ LinkStep
  <2>1. [survey[r] EXCEPT !.conflicts = @ \ {p}] \in SurveyRows
    BY <1>1 DEF SurveyRows
  <2>2. QED
    BY <1>1, <1>8, <2>1, RowStep DEF DenyScheduleRejection, SurveyRows
<1>9. QED
  BY <1>2, <1>3, <1>4, <1>5, <1>6, <1>7, <1>8

LEMMA AssignStep ==
    ASSUME IInv, NEW r \in Requests, Assign(r)
    PROVE  IInv' /\ LinkStep
<1> DEFINE s == Materialized(Db, r)
           m == Exec(s, r)
           t == Recorded(NewPairing(s, {m}), r, made + 1, m)
           u == [t EXCEPT !.profile[m].status = "ACTIVE"]
<1>1. Copy(t)
  <2>1. Copy(s)
    BY DbCopy, MaterializedCopy DEF IInv
  <2>2. Copy(NewPairing(s, {m}))
    BY <2>1, NewPairingCopy
  <2>3. QED
    BY <2>2, RecordedCopy
<1>2. Copy(u)
  <2> HIDE DEF t, m
  <2>1. u = [t EXCEPT !.profile = [t.profile EXCEPT ![m].status = "ACTIVE"]]
    OBVIOUS
  <2> HIDE DEF u
  <2>2. QED
    BY <1>1, <2>1, Excepts
<1>3. Commit(Stamped(u, {r})) /\ UNCHANGED mail
  BY Zenon DEF Assign
<1>4. Copy(Stamped(u, {r}))
  <2> HIDE DEF u
  <2>1. QED
    BY <1>2, StampedCopy
<1>5. QED
  <2> HIDE DEF u
  <2>1. QED
    BY <1>3, <1>4, CommittedStep

LEMMA CreatePairingStep ==
    ASSUME IInv, NEW ts, CreatePairing(ts)
    PROVE  IInv' /\ LinkStep
<1>1. Copy(Stamped(NewPairing(Db, ts), ts))
  BY DbCopy, NewPairingCopy, StampedCopy DEF IInv
<1>2. QED
  BY <1>1, CommittedStep DEF CreatePairing

LEMMA UpdatePairingStep ==
    ASSUME IInv, NEW ts, NEW p \in Pairings, UpdatePairing(p, ts)
    PROVE  IInv' /\ LinkStep
<1>1. PICK s : s = [Db EXCEPT !.pairing[p].roster = ts]
  OBVIOUS
<1>2. Copy(s)
  <2>1. s = [Db EXCEPT !.pairing = [pairing EXCEPT ![p].roster = ts]]
    BY <1>1 DEF Db
  <2>2. QED
    BY <2>1, DbCopy, Excepts DEF IInv
<1>3. Commit(Stamped(s, ts)) /\ UNCHANGED mail
  BY <1>1, Zenon DEF UpdatePairing
<1>4. QED
  BY <1>2, <1>3, StampedCopy, CommittedStep

LEMMA AssignTuteeStep ==
    ASSUME IInv, NEW t \in Requests, AssignTutee(t)
    PROVE  IInv' /\ LinkStep
<1>1. PICK s : s = NewPairing(Db, {t})
  OBVIOUS
<1>2. Copy(s)
  BY <1>1, DbCopy, NewPairingCopy DEF IInv
<1>3. PICK u : u = [s EXCEPT !.profile[t].status = "ACTIVE"]
  OBVIOUS
<1>4. Copy(u)
  <2>1. u = [s EXCEPT !.profile = [s.profile EXCEPT ![t].status = "ACTIVE"]]
    BY <1>3
  <2>2. QED
    BY <1>2, <2>1, Excepts
<1>5. Commit(Stamped(u, {t})) /\ UNCHANGED mail
  BY <1>1, <1>3, Zenon DEF AssignTutee
<1>6. QED
  BY <1>4, <1>5, StampedCopy, CommittedStep

LEMMA HeadUnassignStep ==
    ASSUME IInv, NEW r \in Requests, NEW p \in Pairings, HeadUnassign(r, p)
    PROVE  IInv' /\ LinkStep
<1>1. PICK n : n = [survey[r] EXCEPT !.conflicts = @ \ {p}]
  OBVIOUS
<1>2. n \in SurveyRows /\ n.link = survey[r].link
  BY <1>1 DEF IInv, MailTyped, SurveyRows
<1>3. PICK t : t = [Db EXCEPT !.survey = [Db.survey EXCEPT ![r] = n]]
  OBVIOUS
<1>4. Copy(t)
  BY <1>2, <1>3, DbCopy, RowCopy DEF Db, IInv
<1>5. PICK q : q = [pairing EXCEPT ![p].roster = @ \ {r}]
  OBVIOUS
<1>6. PICK s : s = [t EXCEPT !.pairing = q]
  OBVIOUS
<1>7. Copy(s)
  BY <1>4, <1>6, Excepts
<1>8. s = [Db EXCEPT !.pairing[p].roster = @ \ {r}, !.survey[r].conflicts = @ \ {p}]
  BY <1>1, <1>3, <1>5, <1>6 DEF Db, IInv, MailTyped
<1>9. PICK u : u = [s EXCEPT !.profile[r].status = "PENDING"]
  OBVIOUS
<1>10. Copy(u)
  <2>1. u = [s EXCEPT !.profile = [s.profile EXCEPT ![r].status = "PENDING"]]
    BY <1>9
  <2>2. QED
    BY <1>7, <2>1, Excepts
<1>11. Commit(IF On(s, r) = {} THEN u ELSE s) /\ UNCHANGED mail
  BY <1>8, <1>9, Zenon DEF HeadUnassign
<1>12. Copy(IF On(s, r) = {} THEN u ELSE s)
  BY <1>7, <1>10
<1>13. QED
  BY <1>11, <1>12, CommittedStep

LEMMA SetTuteeStatusStep ==
    ASSUME IInv, NEW t \in Requests, NEW status, SetTuteeStatus(t, status)
    PROVE  IInv' /\ LinkStep
<1>1. PICK s : s = [Db EXCEPT !.profile[t].status = status]
  OBVIOUS
<1>2. Copy(s)
  <2>1. s = [Db EXCEPT !.profile = [profile EXCEPT ![t].status = status]]
    BY <1>1 DEF Db
  <2>2. QED
    BY <2>1, DbCopy, Excepts DEF IInv
<1>3. PICK q : q = [p \in Pairings |-> [pairing[p] EXCEPT !.roster = @ \ {t}]]
  OBVIOUS
<1>4. PICK u : u = [s EXCEPT !.pairing = q]
  OBVIOUS
<1>5. Copy(u)
  BY <1>2, <1>4, Excepts
<1>6. Commit(IF status = "INACTIVE" THEN u ELSE s) /\ UNCHANGED mail
  BY <1>1, <1>3, <1>4, Zenon DEF SetTuteeStatus
<1>7. Copy(IF status = "INACTIVE" THEN u ELSE s)
  BY <1>2, <1>5
<1>8. QED
  BY <1>6, <1>7, CommittedStep

LEMMA TransferStep ==
    ASSUME IInv, NEW src, NEW tgt, NEW a, TransferParticipation(src, tgt, a)
    PROVE  IInv' /\ LinkStep
<1> DEFINE old == On(Db, src) \cap Live(Db)
           seen == {q \in Requests : Open(Db, q) /\ (q \in Family(src, tgt)
                                        \/ \E p \in old : q \in pairing[p].roster)}
           s == [Db EXCEPT
                   !.bond = [q \in Requests |-> IF q \in seen THEN Retained(Db, q).bond[q] ELSE @[q]],
                   !.held = [q \in Requests |-> IF q \in seen THEN Retained(Db, q).held[q] ELSE @[q]]]
           x == [status |-> "INACTIVE", owner |-> a, into |-> tgt]
           y == [status |-> "ACTIVE", owner |-> a, into |-> Nobody]
           u == [Moved(s, src, tgt) EXCEPT !.profile[src] = x, !.profile[tgt] = y]
<1>1. Copy(s)
  <2> HIDE DEF seen
  <2>1. PICK b : b = [q \in Requests |->
                         IF q \in seen THEN Retained(Db, q).bond[q] ELSE Db.bond[q]]
    OBVIOUS
  <2>2. PICK h : h = [q \in Requests |->
                         IF q \in seen THEN Retained(Db, q).held[q] ELSE Db.held[q]]
    OBVIOUS
  <2>3. PICK v : v = [Db EXCEPT !.bond = b]
    OBVIOUS
  <2>4. Copy(v)
    BY <2>3, DbCopy, Excepts DEF IInv
  <2>5. Copy([v EXCEPT !.held = h])
    BY <2>4, Excepts
  <2>6. s = [v EXCEPT !.held = h]
    BY <2>1, <2>2, <2>3 DEF Db
  <2>7. QED
    BY <2>5, <2>6
<1>2. PICK m : m = Moved(s, src, tgt)
  OBVIOUS
<1>3. Copy(m)
  <2> HIDE DEF s
  <2>1. QED
    BY <1>1, <1>2, MovedCopy
<1>4. Copy(u)
  <2> HIDE DEF s, x, y
  <2>1. PICK f : f = [[m.profile EXCEPT ![src] = x] EXCEPT ![tgt] = y]
    OBVIOUS
  <2>2. u = [m EXCEPT !.profile = f]
    BY <1>2, <1>3, <2>1 DEF Copy
  <2> HIDE DEF u
  <2>3. QED
    BY <1>3, <2>2, Excepts
<1>5. Commit(u) /\ UNCHANGED mail
  BY Zenon DEF TransferParticipation
<1>6. QED
  <2> HIDE DEF u
  <2>1. QED
    BY <1>4, <1>5, CommittedStep

(* The steps that end a request.                                             *)
LEMMA ClosingSteps ==
    ASSUME IInv, NEW r \in Requests,
           Recall(r) \/ ApproveAbort(r) \/ RejectAppeal(r) \/ Expire(r)
    PROVE  IInv' /\ LinkStep
<1>1. \E state \in Terminal : Commit(Closed(Db, r, state))
  BY DEF Recall, ApproveAbort, RejectAppeal, Expire, Terminal
<1>2. UNCHANGED mail
  BY DEF Recall, ApproveAbort, RejectAppeal, Expire
<1>3. \A state \in Terminal : Copy(Closed(Db, r, state))
  BY DbCopy, ClosedCopy DEF IInv
<1>4. QED
  BY <1>1, <1>2, <1>3, CommittedStep

LEMMA ApproveScheduleRejectionStep ==
    ASSUME IInv, NEW r \in Requests, NEW p \in Pairings, ApproveScheduleRejection(r, p)
    PROVE  IInv' /\ LinkStep
<1>1. PICK n : n = [survey[r] EXCEPT !.conflicts = @ \ {p}]
  OBVIOUS
<1>2. n \in SurveyRows /\ n.link = survey[r].link
  BY <1>1 DEF IInv, MailTyped, SurveyRows
<1>3. PICK s : s = [Db EXCEPT !.survey = [Db.survey EXCEPT ![r] = n]]
  OBVIOUS
<1>4. Copy(s)
  BY <1>2, <1>3, DbCopy, RowCopy DEF Db, IInv
<1>5. s = [Db EXCEPT !.survey[r].conflicts = @ \ {p}]
  BY <1>1, <1>3 DEF Db, IInv, MailTyped
<1>6. Commit(Released(s, r, {ExecPairing(Db, p)}, "PENDING")) /\ UNCHANGED mail
  BY <1>5, Zenon DEF ApproveScheduleRejection
<1>7. QED
  BY <1>4, <1>6, ReleasedCopy, CommittedStep

(* The steps of a resend.                                                    *)
LEMMA SubmitStep ==
    ASSUME IInv, NEW w \in Senders, NEW r \in Requests, NEW m \in Mailboxes, Submit(w, r, m)
    PROVE  IInv' /\ LinkStep
<1>1. PICK n : n = [survey[r] EXCEPT !.state = "OPEN", !.box = m]
  OBVIOUS
<1>2. n \in SurveyRows /\ n.link = survey[r].link
  BY <1>1 DEF IInv, MailTyped, SurveyRows
<1>3. survey' = [survey EXCEPT ![r] = n]
  BY <1>1 DEF Submit, IInv, MailTyped
<1>4. survey' \in [Requests -> SurveyRows] /\ \A q \in Requests : survey'[q].link = survey[q].link
  BY <1>2, <1>3 DEF IInv, MailTyped
<1>5. PICK k : k = [Idle EXCEPT !.pc = "mail", !.of = r]
  OBVIOUS
<1>6. k \in SenderRows /\ k.pc = "mail" /\ k.of = r /\ k.fresh = 1 /\ k.seen = 1
  <2>1. k = [pc |-> "mail", of |-> r, seen |-> 1, fresh |-> 1]
    BY <1>5 DEF Idle
  <2>2. 1 \in Links
    BY RequestsAssumption DEF Links
  <2>3. QED
    BY <2>1, <2>2 DEF SenderRows
<1>7. sender' = [sender EXCEPT ![w] = k] /\ minted' = minted /\ received' = received
  BY <1>5 DEF Submit
<1>8. MailTyped'
  BY <1>4, <1>6, <1>7 DEF IInv, MailTyped
<1>9. \A q \in Requests : survey'[q].link <= minted'[q]
  BY <1>4, <1>7 DEF IInv
<1>10. Knows(k)'
  BY <1>6, <1>7 DEF Knows, IInv, MailTyped, Links
<1>11. \A v \in Senders : Knows(sender[v])'
  BY <1>7, <1>10 DEF IInv, MailTyped, Knows
<1>12. QED
  BY <1>4, <1>8, <1>9, <1>11 DEF IInv, LinkStep

LEMMA StartResendStep ==
    ASSUME IInv, NEW w \in Senders, NEW r \in Requests, StartResend(w, r)
    PROVE  IInv' /\ LinkStep
<1>1. PICK k : k = [pc |-> "mail", of |-> r, seen |-> survey[r].link, fresh |-> minted[r] + 1]
  OBVIOUS
<1>2. sender' = [sender EXCEPT ![w] = k] /\ received' = received /\ survey' = survey
  BY <1>1 DEF StartResend, rows
<1>3. minted' = [minted EXCEPT ![r] = @ + 1]
  BY DEF StartResend
<1>4. minted[r] + 1 \in Links /\ survey[r].link \in Links /\ survey[r].link < minted[r] + 1
  BY RequestsAssumption DEF StartResend, IInv, MailTyped, Links, SurveyRows
<1>5. k \in SenderRows
  BY <1>1, <1>4 DEF SenderRows
<1>6. MailTyped'
  BY <1>2, <1>3, <1>4, <1>5 DEF IInv, MailTyped
<1>7. \A q \in Requests : minted[q] <= minted'[q]
  BY <1>3 DEF IInv, MailTyped, Links
<1>8. \A q \in Requests : survey'[q].link <= minted'[q]
  BY <1>2, <1>7, <1>6 DEF IInv, MailTyped, Links, SurveyRows
<1>9. Knows(k)'
  BY <1>1, <1>3, <1>4, <1>6 DEF Knows, MailTyped, IInv, Links
<1>10. ASSUME NEW v \in Senders PROVE Knows(sender[v])'
  <2>1. CASE v = w
    BY <1>2, <1>9, <2>1 DEF IInv, MailTyped, Knows
  <2>2. CASE v # w
    <3>1. sender'[v] = sender[v] /\ Knows(sender[v]) /\ sender[v] \in SenderRows
      BY <1>2, <2>2 DEF IInv, MailTyped
    <3>2. QED
      BY <1>2, <1>6, <1>7, <3>1 DEF Knows, IInv, MailTyped, Links, SenderRows
  <2>3. QED
    BY <2>1, <2>2
<1>11. QED
  BY <1>2, <1>6, <1>8, <1>10 DEF IInv, LinkStep

LEMMA MailStep ==
    ASSUME IInv, NEW w \in Senders, Mail(w)
    PROVE  IInv' /\ LinkStep
<1>1. PICK r, l : r = sender[w].of /\ l = sender[w].fresh
  OBVIOUS
<1>2. PICK k : k = IF l = sender[w].seen THEN Idle ELSE [sender[w] EXCEPT !.pc = "publish"]
  OBVIOUS
<1>3. sender' = [sender EXCEPT ![w] = k] /\ received' = [received EXCEPT ![r] = @ \cup {l}]
  BY <1>1, <1>2 DEF Mail, IInv, MailTyped
<1>4. survey' = survey /\ minted' = minted
  BY DEF Mail, rows
<1>5. Knows(sender[w]) /\ sender[w] \in SenderRows /\ sender[w].pc = "mail"
  BY DEF IInv, MailTyped, Mail
<1>6. r \in Requests /\ l \in Links /\ l <= minted[r] /\ (l = sender[w].seen \/ sender[w].seen < l)
  BY <1>1, <1>5 DEF Knows, SenderRows
<1>7. k \in SenderRows
  BY <1>2, <1>5, RequestsAssumption DEF SenderRows, Idle, Links
<1>8. MailTyped'
  BY <1>3, <1>4, <1>6, <1>7 DEF IInv, MailTyped
<1>9. l \in received'[r] /\ \A q \in Requests : received[q] \subseteq received'[q]
  BY <1>3, <1>6 DEF IInv, MailTyped
<1>10. Knows(k)'
  BY <1>1, <1>2, <1>4, <1>5, <1>6, <1>9 DEF Knows, Idle, SenderRows
<1>11. \A v \in Senders : Knows(sender[v])'
  BY <1>3, <1>4, <1>9, <1>10 DEF IInv, MailTyped, Knows
<1>12. QED
  BY <1>4, <1>8, <1>11 DEF IInv, LinkStep

LEMMA GiveUpStep ==
    ASSUME IInv, NEW w \in Senders, GiveUp(w)
    PROVE  IInv' /\ LinkStep
<1>1. sender' = [sender EXCEPT ![w] = Idle] /\ UNCHANGED <<survey, minted, received>>
  BY DEF GiveUp, rows
<1>2. Idle \in SenderRows
  BY RequestsAssumption DEF Idle, SenderRows, Links
<1>3. MailTyped'
  BY <1>1, <1>2 DEF IInv, MailTyped
<1>4. \A v \in Senders : Knows(sender[v])'
  BY <1>1 DEF IInv, MailTyped, Knows, Idle
<1>5. QED
  BY <1>1, <1>3, <1>4 DEF IInv, LinkStep

LEMMA PublishStep ==
    ASSUME IInv, NEW w \in Senders, Publish(w)
    PROVE  IInv' /\ LinkStep
<1>1. PICK r, l : r = sender[w].of /\ l = sender[w].fresh
  OBVIOUS
<1>2. sender' = [sender EXCEPT ![w] = Idle] /\ UNCHANGED <<minted, received>>
  BY DEF Publish
<1>3. Knows(sender[w]) /\ sender[w] \in SenderRows /\ sender[w].pc = "publish"
  BY DEF IInv, MailTyped, Publish
<1>4. /\ r \in Requests /\ l \in Links /\ l <= minted[r] /\ l \in received[r]
      /\ sender[w].seen < l
  BY <1>1, <1>3 DEF Knows, SenderRows
<1>5. Idle \in SenderRows
  BY RequestsAssumption DEF Idle, SenderRows, Links
<1>6. \A v \in Senders : Knows(sender[v])'
  BY <1>2 DEF IInv, MailTyped, Knows, Idle
<1>7. CASE ~MayPublish(w)
  <2>1. survey' = survey
    BY <1>7 DEF Publish
  <2>2. MailTyped'
    BY <1>2, <1>5, <2>1 DEF IInv, MailTyped
  <2>3. QED
    BY <1>2, <1>6, <2>1, <2>2 DEF IInv, LinkStep
<1>8. CASE MayPublish(w)
  <2>1. PICK n : n = [survey[r] EXCEPT !.link = l]
    OBVIOUS
  <2>2. survey' = [survey EXCEPT ![r] = n]
    BY <1>1, <1>8, <2>1 DEF Publish, IInv, MailTyped
  <2>3. n \in SurveyRows /\ n.link = l
    BY <1>4, <2>1 DEF IInv, MailTyped, SurveyRows
  <2>4. MailTyped'
    BY <1>2, <1>5, <2>2, <2>3 DEF IInv, MailTyped
  <2>5. \A q \in Requests : survey'[q].link <= minted'[q]
    BY <1>2, <1>4, <2>2, <2>3 DEF IInv, MailTyped
  <2>6. survey[r].link < l /\ Processable(Db, r) /\ ~survey[r].confirmed
    BY <1>1, <1>4, <1>8 DEF MayPublish
  <2>7. LinkStep
    <3>1. SUFFICES ASSUME NEW q \in Requests, survey'[q].link # survey[q].link
                   PROVE  /\ survey'[q].link > survey[q].link /\ survey'[q].link \in received[q]
                          /\ Processable(Db, q) /\ ~survey[q].confirmed
      BY DEF LinkStep
    <3>2. q = r /\ survey'[q].link = l
      BY <2>2, <2>3, <3>1 DEF IInv, MailTyped
    <3>3. QED
      BY <1>4, <2>6, <3>2
  <2>8. QED
    BY <1>6, <2>4, <2>5, <2>7 DEF IInv
<1>9. QED
  BY <1>7, <1>8

------------------------------------------------------------------------------
LEMMA InitIInv == Init => IInv
<1>1. SUFFICES ASSUME Init PROVE IInv
  OBVIOUS
<1>2. 1 \in Links
  BY RequestsAssumption DEF Links
<1>3. survey \in [Requests -> SurveyRows] /\ \A r \in Requests : survey[r].link = 1
  BY <1>1, <1>2 DEF Init, SurveyRows
<1>4. sender \in [Senders -> SenderRows] /\ \A w \in Senders : Knows(sender[w])
  BY <1>1, <1>2 DEF Init, Idle, SenderRows, Knows
<1>5. minted \in [Requests -> Links] /\ received \in [Requests -> SUBSET Links]
  BY <1>1, <1>2 DEF Init
<1>6. \A r \in Requests : survey[r].link <= minted[r]
  BY <1>1, <1>3 DEF Init
<1>7. QED
  BY <1>3, <1>4, <1>5, <1>6 DEF IInv, MailTyped

LEMMA StepIInv == IInv /\ [Next]_vars => IInv' /\ [LinkStep]_vars
<1>1. ASSUME IInv, UNCHANGED vars PROVE IInv'
  <2>1. UNCHANGED mail /\ survey' = survey
    BY <1>1 DEF vars, rows
  <2>2. survey' \in [Requests -> SurveyRows]
    BY <1>1, <2>1 DEF IInv, MailTyped
  <2>3. QED
    BY <1>1, <2>1, <2>2, QuietStep
<1>2. ASSUME IInv, Next PROVE IInv' /\ LinkStep
  <2>1. CASE \E w \in Senders : Mail(w) \/ GiveUp(w) \/ Publish(w)
    BY <1>2, <2>1, MailStep, GiveUpStep, PublishStep
  <2>2. CASE \E w \in Senders, r \in Requests : StartResend(w, r)
    BY <1>2, <2>2, StartResendStep
  <2>3. CASE \E w \in Senders, r \in Requests, m \in Mailboxes : Submit(w, r, m)
    BY <1>2, <2>3, SubmitStep
  <2>4. CASE \E m, a \in Mailboxes : ConfirmSecondaryEmail(m, a)
    <3>1. UNCHANGED mail /\ survey' = survey
      BY <2>4 DEF ConfirmSecondaryEmail, rows
    <3>2. survey' \in [Requests -> SurveyRows]
      BY <1>2, <3>1 DEF IInv, MailTyped
    <3>3. QED
      BY <1>2, <3>1, <3>2, QuietStep
  <2>5. CASE \E r \in Requests :
                \/ Confirm(r) \/ DeadlinePasses(r) \/ Flag(r) \/ Unflag(r) \/ Assign(r)
                \/ AssignTutee(r) \/ Recall(r) \/ ApplyAbort(r) \/ ApproveAbort(r) \/ DenyAbort(r)
                \/ RejectAppeal(r) \/ Expire(r)
    BY <1>2, <2>5, ConfirmStep, RowSteps, AssignStep, AssignTuteeStep, ClosingSteps
  <2>6. CASE \E r \in Requests, p \in Pairings :
                \/ HeadUnassign(r, p) \/ ApplyScheduleRejection(r, p)
                \/ ApproveScheduleRejection(r, p) \/ DenyScheduleRejection(r, p)
    BY <1>2, <2>6, HeadUnassignStep, RowSteps, ApproveScheduleRejectionStep
  <2>7. CASE \E r \in Requests, status \in Status : SetTuteeStatus(r, status)
    BY <1>2, <2>7, SetTuteeStatusStep
  <2>8. CASE \E ts \in SUBSET Requests : CreatePairing(ts)
                                         \/ \E p \in Pairings : UpdatePairing(p, ts)
    BY <1>2, <2>8, CreatePairingStep, UpdatePairingStep
  <2>9. CASE \E src, tgt \in Requests, a \in Accounts : TransferParticipation(src, tgt, a)
    BY <1>2, <2>9, TransferStep
  <2>10. QED
    BY <1>2, <2>1, <2>2, <2>3, <2>4, <2>5, <2>6, <2>7, <2>8, <2>9 DEF Next
<1>3. QED
  BY <1>1, <1>2

(* A resend's own knowledge of its link holds in every reachable state.      *)
LEMMA Invariance == Spec => []IInv
<1>1. QED
  BY InitIInv, StepIInv, PTL DEF Spec

(* However many resends of a request are under way at once, whatever the    *)
(* workflow and the roster tools do between their transactions, and whether  *)
(* a mail is refused or its process ends: the link that counts only moves to *)
(* a newer one that was delivered, and only while the request is open, in    *)
(* time, not flagged and not confirmed.                                      *)
THEOREM NewerLink == Spec => NewerLinkStands
<1>1. IInv /\ [Next]_vars => [LinkStep]_vars
  BY StepIInv
<1>2. Spec => [][LinkStep]_vars
  BY <1>1, Invariance, PTL DEF Spec
<1>3. QED
  BY <1>2 DEF NewerLinkStands, LinkStep

------------------------------------------------------------------------------
(* What is true of the rows, and where consolidations lead.                  *)

(* The rows have their shape.                                                *)
Typed(s) ==
    /\ s = [survey |-> s.survey, profile |-> s.profile, bond |-> s.bond,
            held |-> s.held, pairing |-> s.pairing, made |-> s.made]
    /\ s.survey \in [Requests -> SurveyRows] /\ s.profile \in [Requests -> ProfileRows]
    /\ s.bond \in [Requests -> [Pairings -> Requests \cup {Nobody}]]
    /\ s.held \in [Requests -> SUBSET Pairings]
    /\ s.pairing \in [Pairings -> PairingRows] /\ s.made \in 0 .. MaxPairings

(* Who submitted, owns and may leave.                                        *)
Signed(s) ==
    \A r \in Requests : LET q == s.survey[r] IN
        /\ q.state # "NONE" => q.box \in Mailboxes
        /\ q.state = "NONE" => s.profile[r].status = "NONE"
        /\ q.confirmed => q.state # "NONE" /\ s.profile[r].owner \in Accounts
        /\ q.leave => q.confirmed

(* Consolidations never lead back.                                           *)
Acyclic(s) ==
    \A S \in SUBSET Requests : S # {} => \E x \in S : s.profile[x].into \notin S

(* A request that nobody confirmed yet works for itself alone.               *)
Early(s, r) == s.survey[r].state \in {"NONE", "OPEN"} /\ ~s.survey[r].confirmed

Alone(s) ==
    \A r \in Requests : Early(s, r) =>
        /\ s.profile[r].into = Nobody /\ \A x \in Requests : s.profile[x].into # r
        /\ \A p \in Pairings : s.bond[r][p] \in {Nobody, r}

(* Records name the member that serves, and that member's request was made.  *)
Named(s) ==
    \A r \in Requests :
        /\ \A p \in s.held[r] : s.bond[r][p] # Nobody
        /\ \A p \in Pairings : LET m == s.bond[r][p] IN m # Nobody => s.survey[m].state # "NONE"

(* Every member of a current pairing, the rows of X aside, serves a request  *)
(* that is open, or is one of R, whose end is under way.                     *)
Served(s, X, R) ==
    \A p \in Live(s) : \A m \in s.pairing[p].roster : <<p, m>> \in X \/
        \E q \in Requests : (Open(s, q) \/ q \in R) /\ <<p, m>> \in Assignments(s, q)

Sound(s, X, R) ==
    /\ Typed(s) /\ Signed(s) /\ Acyclic(s) /\ Alone(s) /\ Named(s) /\ Served(s, X, R)

(* What a transaction leaves alone, unless it is about that.                 *)
Alike(s, t) ==
    \A r \in Requests :
        /\ t.survey[r].state = s.survey[r].state /\ t.survey[r].confirmed = s.survey[r].confirmed
        /\ t.profile[r].into = s.profile[r].into /\ t.profile[r].owner = s.profile[r].owner

------------------------------------------------------------------------------
(* Who does the work of a profile.                                           *)
Leads(s, f) ==
    f = [x \in Requests |-> IF s.profile[x].into = Nobody THEN x ELSE f[s.profile[x].into]]

(* The profiles that x leads to.                                             *)
Reach(s, x) ==
    {y \in Requests : \A S \in SUBSET Requests :
        x \in S /\ (\A z \in S : s.profile[z].into # Nobody => s.profile[z].into \in S) => y \in S}

LEMMA Reaches ==
    ASSUME NEW s, s.profile \in [Requests -> ProfileRows], NEW x \in Requests
    PROVE  Reach(s, x) = IF s.profile[x].into = Nobody THEN {x}
                         ELSE {x} \cup Reach(s, s.profile[x].into)
<1> DEFINE i == s.profile[x].into
           Shut(S) == \A z \in S : s.profile[z].into # Nobody => s.profile[z].into \in S
<1>1. i \in Requests \cup {Nobody} /\ Nobody \notin Requests
  BY RequestsAssumption DEF ProfileRows
<1>2. CASE i = Nobody
  <2>1. {x} \in SUBSET Requests /\ Shut({x})
    BY <1>2
  <2>2. \A y \in Reach(s, x) : y = x
    BY <2>1 DEF Reach
  <2>3. x \in Reach(s, x)
    BY DEF Reach
  <2>4. QED
    BY <1>2, <2>2, <2>3
<1>3. CASE i # Nobody
  <2>1. i \in Requests
    BY <1>1, <1>3
  <2>2. Reach(s, i) \subseteq Reach(s, x)
    <3>1. SUFFICES ASSUME NEW y \in Reach(s, i) PROVE y \in Reach(s, x)
      OBVIOUS
    <3>2. ASSUME NEW S \in SUBSET Requests, x \in S, Shut(S) PROVE y \in S
      <4>1. i \in S
        BY <1>3, <3>2
      <4>2. QED
        BY <3>1, <3>2, <4>1 DEF Reach
    <3>3. QED
      BY <3>1, <3>2 DEF Reach
  <2>3. x \in Reach(s, x)
    BY DEF Reach
  <2>4. Shut({x} \cup Reach(s, i))
    <3>1. i \in Reach(s, i)
      BY <2>1 DEF Reach
    <3>2. ASSUME NEW z \in Reach(s, i), s.profile[z].into # Nobody
          PROVE  s.profile[z].into \in Reach(s, i)
      <4>1. s.profile[z].into \in Requests
        BY <3>2 DEF Reach, ProfileRows
      <4>2. QED
        BY <3>2, <4>1 DEF Reach
    <3>3. QED
      BY <3>1, <3>2
  <2>5. Reach(s, x) \subseteq {x} \cup Reach(s, i)
    <3>1. {x} \cup Reach(s, i) \in SUBSET Requests
      BY DEF Reach
    <3> DEFINE T == {x} \cup Reach(s, i)
    <3>2. T \in SUBSET Requests /\ x \in T /\ Shut(T)
      BY <2>4, <3>1
    <3> HIDE DEF T
    <3>3. Reach(s, x) \subseteq T
      BY <3>2 DEF Reach
    <3>4. QED
      BY <3>3 DEF T
  <2>6. QED
    BY <1>3, <2>2, <2>3, <2>5
<1>4. QED
  BY <1>2, <1>3

(* The definition of Exec has a solution ...                                 *)
LEMMA LeadsExist ==
    ASSUME NEW s, s.profile \in [Requests -> ProfileRows]
    PROVE  \E f : Leads(s, f)
<1> DEFINE Ends(x) == {y \in Reach(s, x) : s.profile[y].into = Nobody}
           f == [x \in Requests |-> CHOOSE y : y \in Ends(x)]
<1>1. ASSUME NEW x \in Requests, s.profile[x].into = Nobody PROVE f[x] = x
  <2>1. Ends(x) = {x}
    BY <1>1, Reaches
  <2>2. QED
    BY <2>1
<1>2. ASSUME NEW x \in Requests, s.profile[x].into # Nobody PROVE f[x] = f[s.profile[x].into]
  <2>1. s.profile[x].into \in Requests
    BY <1>2 DEF ProfileRows
  <2>2. Ends(x) = Ends(s.profile[x].into)
    BY <1>2, Reaches
  <2>3. QED
    BY <2>1, <2>2
<1>3. f = [x \in Requests |-> IF s.profile[x].into = Nobody THEN x ELSE f[s.profile[x].into]]
  <2> HIDE DEF f
  <2>1. \A x \in Requests : f[x] = IF s.profile[x].into = Nobody THEN x ELSE f[s.profile[x].into]
    BY <1>1, <1>2
  <2>3. f = [x \in Requests |-> f[x]]
    BY DEF f
  <2>4. QED
    BY <2>1, <2>3
<1>4. QED
  BY <1>3 DEF Leads

LEMMA ExecLeads ==
    ASSUME NEW s, s.profile \in [Requests -> ProfileRows]
    PROVE  \A x \in Requests : Exec(s, x) = IF s.profile[x].into = Nobody THEN x
                                            ELSE Exec(s, s.profile[x].into)
<1> DEFINE F == CHOOSE f : f = [x \in Requests |-> IF s.profile[x].into = Nobody THEN x
                                                   ELSE f[s.profile[x].into]]
<1>1. \A x : Exec(s, x) = F[x]
  BY DEF Exec
<1>2. Leads(s, F)
  BY LeadsExist DEF Leads
<1>3. \A x \in Requests : F[x] = IF s.profile[x].into = Nobody THEN x ELSE F[s.profile[x].into]
  <2> HIDE DEF F
  <2>1. QED
    BY <1>2 DEF Leads
<1>4. QED
  <2> HIDE DEF F
  <2>1. QED
    BY <1>1, <1>3

(* ... and leads to a profile that works for itself, of which some other one  *)
(* or x itself is a source.                                                  *)
LEMMA ExecEnds ==
    ASSUME NEW s, s.profile \in [Requests -> ProfileRows], Acyclic(s), NEW r \in Requests
    PROVE  /\ Exec(s, r) \in Requests /\ s.profile[Exec(s, r)].into = Nobody
           /\ Exec(s, r) = r \/ \E x \in Requests : s.profile[x].into = Exec(s, r)
<1> DEFINE Fine(x) == /\ Exec(s, x) \in Requests /\ s.profile[Exec(s, x)].into = Nobody
                      /\ Exec(s, x) = x \/ \E y \in Requests : s.profile[y].into = Exec(s, x)
           Bad == {x \in Requests : ~Fine(x)}
<1>1. ASSUME NEW x \in Requests, s.profile[x].into \notin Bad PROVE Fine(x)
  <2>1. CASE s.profile[x].into = Nobody
    BY <2>1, ExecLeads
  <2>2. CASE s.profile[x].into # Nobody
    <3> DEFINE i == s.profile[x].into
    <3>1. i \in Requests
      BY <2>2 DEF ProfileRows
    <3>2. Fine(i)
      BY <1>1, <3>1
    <3>3. Exec(s, x) = Exec(s, i)
      BY <2>2, ExecLeads
    <3>4. QED
      BY <3>2, <3>3
  <2>3. QED
    BY <2>1, <2>2
<1>2. Bad = {}
  <2>1. Bad \in SUBSET Requests
    OBVIOUS
  <2> HIDE DEF Fine
  <2>2. ASSUME Bad # {} PROVE FALSE
    <3>1. PICK x \in Bad : s.profile[x].into \notin Bad
      BY <2>1, <2>2 DEF Acyclic
    <3>2. QED
      BY <1>1, <3>1
  <2>3. QED
    BY <2>2
<1>3. QED
  BY <1>2

(* Two sets of rows with the same consolidations agree on who works for whom. *)
LEMMA SameExec ==
    ASSUME NEW s, s.profile \in [Requests -> ProfileRows], Acyclic(s),
           NEW t, t.profile \in [Requests -> ProfileRows],
           \A x \in Requests : t.profile[x].into = s.profile[x].into
    PROVE  \A x \in Requests : Exec(t, x) = Exec(s, x)
<1> DEFINE Bad == {x \in Requests : Exec(t, x) # Exec(s, x)}
<1>1. ASSUME NEW x \in Requests, s.profile[x].into \notin Bad PROVE Exec(t, x) = Exec(s, x)
  <2>1. CASE s.profile[x].into = Nobody
    BY <2>1, ExecLeads
  <2>2. CASE s.profile[x].into # Nobody
    <3>1. s.profile[x].into \in Requests
      BY <2>2 DEF ProfileRows
    <3>2. Exec(t, s.profile[x].into) = Exec(s, s.profile[x].into)
      BY <1>1, <3>1
    <3>3. QED
      BY <2>2, <3>2, ExecLeads
  <2>3. QED
    BY <2>1, <2>2
<1>2. ASSUME Bad # {} PROVE FALSE
  <2>1. Bad \in SUBSET Requests
    OBVIOUS
  <2>2. PICK x \in Bad : s.profile[x].into \notin Bad
    BY <1>2, <2>1 DEF Acyclic
  <2>3. QED
    BY <1>1, <2>2
<1>3. QED
  BY <1>2

------------------------------------------------------------------------------
(* Writes that leave people, states and records as they were: statuses,      *)
(* the columns of a survey, members that leave.                              *)

(* What follows for a copy t of rows s that tells no other story of owners,  *)
(* consolidations and states.                                                *)
LEMMA Carried ==
    ASSUME NEW s, NEW t, Typed(s), Typed(t), Signed(s), Acyclic(s), Alone(s), Alike(s, t),
           \A r \in Requests : /\ t.survey[r].state # "NONE" => t.survey[r].box \in Mailboxes
                               /\ t.survey[r].leave => t.survey[r].confirmed
                               /\ t.survey[r].state = "NONE" => t.profile[r].status = "NONE",
           \A r \in Requests : Early(s, r) => \A p \in Pairings : t.bond[r][p] \in {s.bond[r][p], r}
    PROVE  Signed(t) /\ Acyclic(t) /\ Alone(t)
<1>1. Signed(t)
  BY DEF Signed, Alike
<1>2. Acyclic(t)
  BY DEF Acyclic, Alike
<1>3. Alone(t)
  <2>1. SUFFICES ASSUME NEW r \in Requests, Early(t, r)
                 PROVE  /\ t.profile[r].into = Nobody /\ \A x \in Requests : t.profile[x].into # r
                        /\ \A p \in Pairings : t.bond[r][p] \in {Nobody, r}
    BY DEF Alone
  <2>2. Early(s, r)
    BY <2>1 DEF Early, Alike
  <2>3. /\ s.profile[r].into = Nobody /\ \A x \in Requests : s.profile[x].into # r
        /\ \A p \in Pairings : s.bond[r][p] \in {Nobody, r}
    BY <2>2 DEF Alone
  <2>4. \A p \in Pairings : t.bond[r][p] \in {s.bond[r][p], r}
    BY <2>2
  <2>5. QED
    BY <2>3, <2>4 DEF Alike
<1>4. QED
  BY <1>1, <1>2, <1>3

(* Fewer members on the same pairings.                                       *)
Thinner(s, t) ==
    /\ t.bond = s.bond /\ t.held = s.held /\ t.made = s.made
    /\ \A p \in Pairings : t.pairing[p].next = s.pairing[p].next
                           /\ t.pairing[p].roster \subseteq s.pairing[p].roster

LEMMA LivePairings ==
    ASSUME NEW s, Typed(s)
    PROVE  Live(s) \subseteq Pairings
<1>1. 1 .. s.made \subseteq Pairings
  BY RequestsAssumption DEF Typed, Pairings
<1>2. QED
  BY <1>1 DEF Live

LEMMA LiveThinner ==
    ASSUME NEW s, NEW t, Typed(s), Thinner(s, t)
    PROVE  Live(t) = Live(s)
<1>1. 1 .. s.made \subseteq Pairings
  BY RequestsAssumption DEF Typed, Pairings
<1>2. \A p \in 1 .. s.made : t.pairing[p].next = s.pairing[p].next
  BY <1>1 DEF Thinner
<1>3. t.made = s.made
  BY DEF Thinner
<1>4. QED
  BY <1>2, <1>3, Zenon DEF Live

LEMMA ThinnerServed ==
    ASSUME NEW s, NEW t, Typed(s), Typed(t), Thinner(s, t), NEW X, NEW R, NEW Q, R \subseteq Q,
           \A q \in Requests : Open(s, q) => Open(t, q) \/ q \in Q, Served(s, X, R)
    PROVE  Served(t, X, Q)
<1>1. SUFFICES ASSUME NEW p \in Live(t), NEW m \in t.pairing[p].roster, <<p, m>> \notin X
               PROVE  \E q \in Requests : (Open(t, q) \/ q \in Q) /\ <<p, m>> \in Assignments(t, q)
  BY DEF Served
<1>2. Live(t) = Live(s) /\ p \in Live(s) /\ p \in Pairings /\ m \in s.pairing[p].roster
  <2>1. p \in Pairings /\ Live(t) = Live(s)
    BY LiveThinner, LivePairings
  <2>2. QED
    BY <2>1 DEF Thinner
<1>3. PICK q \in Requests : (Open(s, q) \/ q \in R) /\ <<p, m>> \in Assignments(s, q)
  BY <1>1, <1>2 DEF Served
<1>4. Successors(t) = Successors(s) /\ Mapped(t, q) = Mapped(s, q)
  BY DEF Successors, Mapped, Thinner
<1>5. CASE Mapped(s, q)
  <2>1. p \in s.held[q] /\ m = s.bond[q][p]
    BY <1>3, <1>5 DEF Assignments
  <2>2. <<p, m>> \in Assignments(t, q)
    BY <1>1, <1>2, <1>4, <1>5, <2>1 DEF Assignments, Thinner
  <2>3. QED
    BY <1>3, <2>2
<1>6. CASE ~Mapped(s, q)
  <2>1. p \in Own(s, q) /\ m = q
    BY <1>3, <1>6 DEF Assignments
  <2>2. p \in Own(t, q)
    BY <1>1, <1>2, <1>4, <2>1 DEF Own, On
  <2>3. <<p, m>> \in Assignments(t, q)
    BY <1>4, <1>6, <2>1, <2>2 DEF Assignments
  <2>4. QED
    BY <1>3, <2>3
<1>7. QED
  BY <1>5, <1>6

(* Rows that differ in statuses and in the surveys' other columns.           *)
LEMMA StatusSound ==
    ASSUME NEW s, NEW t, NEW X, NEW R, Sound(s, X, R), Typed(t), Alike(s, t), Thinner(s, t),
           \A r \in Requests : /\ t.survey[r].box = s.survey[r].box
                               /\ t.survey[r].leave => t.survey[r].confirmed
                               /\ t.survey[r].state = "NONE" => t.profile[r].status = "NONE"
    PROVE  Sound(t, X, R)
<1>1. Typed(s) /\ Signed(s) /\ Acyclic(s) /\ Alone(s) /\ Named(s) /\ Served(s, X, R)
  BY DEF Sound
<1>2. \A r \in Requests : t.survey[r].state # "NONE" => t.survey[r].box \in Mailboxes
  BY <1>1 DEF Signed, Alike
<1>3. Signed(t) /\ Acyclic(t) /\ Alone(t)
  BY <1>1, <1>2, Carried DEF Thinner
<1>4. Named(t)
  <2>1. SUFFICES ASSUME NEW r \in Requests
                 PROVE  /\ \A p \in t.held[r] : t.bond[r][p] # Nobody
                        /\ \A p \in Pairings : LET m == t.bond[r][p] IN
                              m # Nobody => t.survey[m].state # "NONE"
    BY DEF Named
  <2>2. /\ \A p \in s.held[r] : s.bond[r][p] # Nobody
        /\ \A p \in Pairings : LET m == s.bond[r][p] IN m # Nobody => s.survey[m].state # "NONE"
    BY <1>1 DEF Named
  <2>3. \A p \in Pairings : s.bond[r][p] \in Requests \cup {Nobody}
    BY <1>1 DEF Typed
  <2>4. \A m \in Requests : t.survey[m].state = s.survey[m].state
    BY DEF Alike
  <2>5. t.held = s.held /\ t.bond = s.bond
    BY DEF Thinner
  <2>6. QED
    BY <2>2, <2>3, <2>4, <2>5
<1>5. Served(t, X, R)
  <2>1. \A q \in Requests : Open(s, q) => Open(t, q) \/ q \in R
    BY DEF Open, Alike
  <2>2. QED
    BY <1>1, <2>1, ThinnerServed
<1>6. QED
  BY <1>3, <1>4, <1>5 DEF Sound

------------------------------------------------------------------------------
(* The helpers that write rows.                                              *)
LEMMA NewProfiles ==
    ASSUME NEW s, Typed(s), NEW f \in [Requests -> ProfileRows], NEW t, t = [s EXCEPT !.profile = f]
    PROVE  /\ Typed(t) /\ t.profile = f
           /\ t.survey = s.survey /\ t.bond = s.bond /\ t.held = s.held
           /\ t.pairing = s.pairing /\ t.made = s.made
  BY DEF Typed

(* The status of some profiles is written.                                   *)
LEMMA NewStatus ==
    ASSUME NEW s, NEW X, NEW R, Sound(s, X, R), NEW f \in [Requests -> ProfileRows],
           \A x \in Requests : /\ f[x].into = s.profile[x].into /\ f[x].owner = s.profile[x].owner
                               /\ s.survey[x].state = "NONE" => f[x].status = "NONE",
           NEW t, t = [s EXCEPT !.profile = f]
    PROVE  Sound(t, X, R) /\ Alike(s, t) /\ Thinner(s, t)
<1>1. Typed(s) /\ Signed(s)
  BY DEF Sound
<1>2. /\ Typed(t) /\ t.profile = f
      /\ t.survey = s.survey /\ t.bond = s.bond /\ t.held = s.held
      /\ t.pairing = s.pairing /\ t.made = s.made
  BY <1>1, NewProfiles
<1>3. Alike(s, t) /\ Thinner(s, t)
  BY <1>2 DEF Alike, Thinner
<1>4. \A r \in Requests : /\ t.survey[r].box = s.survey[r].box
                          /\ t.survey[r].leave => t.survey[r].confirmed
                          /\ t.survey[r].state = "NONE" => t.profile[r].status = "NONE"
  BY <1>1, <1>2 DEF Signed
<1>5. QED
  BY <1>2, <1>3, <1>4, StatusSound

LEMMA MaterializedSound ==
    ASSUME NEW s, NEW X, NEW R, Sound(s, X, R), NEW r \in Requests, s.survey[r].state # "NONE",
           NEW t, t = Materialized(s, r)
    PROVE  Sound(t, X, R) /\ Alike(s, t) /\ Thinner(s, t)
<1>1. Typed(s) /\ Signed(s)
  BY DEF Sound
<1>2. PICK k : k = IF s.profile[r].status = "NONE" THEN "PENDING" ELSE s.profile[r].status
  OBVIOUS
<1>3. PICK n : n = [s.profile[r] EXCEPT !.status = k]
  OBVIOUS
<1>4. s.profile[r] \in ProfileRows
  BY <1>1 DEF Typed
<1>5. k \in {"NONE"} \cup Status
  BY <1>2, <1>4 DEF ProfileRows, Status
<1>6. n \in ProfileRows /\ n.into = s.profile[r].into /\ n.owner = s.profile[r].owner
  BY <1>3, <1>4, <1>5 DEF ProfileRows
<1>7. PICK f : f = [s.profile EXCEPT ![r] = n]
  OBVIOUS
<1>8. f \in [Requests -> ProfileRows]
  BY <1>1, <1>6, <1>7 DEF Typed
<1>9. t = [s EXCEPT !.profile = f]
  BY <1>2, <1>3, <1>7 DEF Materialized
<1>10. \A x \in Requests : /\ f[x].into = s.profile[x].into /\ f[x].owner = s.profile[x].owner
                           /\ s.survey[x].state = "NONE" => f[x].status = "NONE"
  BY <1>1, <1>6, <1>7 DEF Typed, Signed
<1>11. QED
  BY <1>8, <1>9, <1>10, NewStatus

LEMMA StatusOf ==
    ASSUME NEW s, NEW X, NEW R, Sound(s, X, R), NEW r \in Requests, s.survey[r].state # "NONE",
           NEW k \in Status, NEW t, t = [s EXCEPT !.profile[r].status = k]
    PROVE  Sound(t, X, R) /\ Alike(s, t) /\ Thinner(s, t)
<1>1. Typed(s) /\ Signed(s)
  BY DEF Sound
<1>3. PICK n : n = [s.profile[r] EXCEPT !.status = k]
  OBVIOUS
<1>4. s.profile[r] \in ProfileRows
  BY <1>1 DEF Typed
<1>6. n \in ProfileRows /\ n.into = s.profile[r].into /\ n.owner = s.profile[r].owner
  BY <1>3, <1>4 DEF ProfileRows
<1>7. PICK f : f = [s.profile EXCEPT ![r] = n]
  OBVIOUS
<1>8. f \in [Requests -> ProfileRows]
  BY <1>1, <1>6, <1>7 DEF Typed
<1>9. t = [s EXCEPT !.profile = f]
  BY <1>3, <1>7
<1>10. \A x \in Requests : /\ f[x].into = s.profile[x].into /\ f[x].owner = s.profile[x].owner
                           /\ s.survey[x].state = "NONE" => f[x].status = "NONE"
  BY <1>1, <1>6, <1>7 DEF Typed, Signed
<1>11. QED
  BY <1>8, <1>9, <1>10, NewStatus

(* The surveys' columns that say nothing of states and owners.               *)
LEMMA NewSurveys ==
    ASSUME NEW s, NEW X, NEW R, Sound(s, X, R), NEW f \in [Requests -> SurveyRows],
           \A x \in Requests : /\ f[x].state = s.survey[x].state /\ f[x].box = s.survey[x].box
                               /\ f[x].confirmed = s.survey[x].confirmed
                               /\ f[x].leave => f[x].confirmed,
           NEW t, t = [s EXCEPT !.survey = f]
    PROVE  Sound(t, X, R) /\ Alike(s, t) /\ Thinner(s, t)
<1>1. Typed(s) /\ Signed(s)
  BY DEF Sound
<1>2. /\ Typed(t) /\ t.survey = f
      /\ t.profile = s.profile /\ t.bond = s.bond /\ t.held = s.held
      /\ t.pairing = s.pairing /\ t.made = s.made
  BY <1>1 DEF Typed
<1>3. Alike(s, t) /\ Thinner(s, t)
  BY <1>2 DEF Alike, Thinner
<1>4. \A r \in Requests : /\ t.survey[r].box = s.survey[r].box
                          /\ t.survey[r].leave => t.survey[r].confirmed
                          /\ t.survey[r].state = "NONE" => t.profile[r].status = "NONE"
  BY <1>1, <1>2 DEF Signed
<1>5. QED
  BY <1>2, <1>3, <1>4, StatusSound

LEMMA StampedSound ==
    ASSUME NEW s, NEW X, NEW R, Sound(s, X, R), NEW ts, NEW t, t = Stamped(s, ts)
    PROVE  Sound(t, X, R) /\ Alike(s, t) /\ Thinner(s, t)
<1>1. Typed(s) /\ Signed(s)
  BY DEF Sound
<1>2. PICK f : f = [r \in Requests |->
                      IF r \in ts /\ Open(s, r) /\ s.survey[r].due = "none"
                      THEN [s.survey[r] EXCEPT !.due = "ahead"] ELSE s.survey[r]]
  OBVIOUS
<1>3. \A x \in Requests : s.survey[x] \in SurveyRows
  BY <1>1 DEF Typed
<1>4. \A x \in Requests : LET n == [s.survey[x] EXCEPT !.due = "ahead"] IN
          /\ n \in SurveyRows /\ n.state = s.survey[x].state /\ n.box = s.survey[x].box
          /\ n.confirmed = s.survey[x].confirmed /\ n.leave = s.survey[x].leave
  BY <1>3 DEF SurveyRows
<1>5. \A x \in Requests :
          /\ f[x] \in SurveyRows /\ f[x].state = s.survey[x].state /\ f[x].box = s.survey[x].box
          /\ f[x].confirmed = s.survey[x].confirmed /\ f[x].leave = s.survey[x].leave
  BY <1>2, <1>3, <1>4
<1>6. f \in [Requests -> SurveyRows]
  BY <1>2, <1>5
<1>7. t = [s EXCEPT !.survey = f]
  BY <1>2 DEF Stamped
<1>8. \A x \in Requests : f[x].leave => f[x].confirmed
  BY <1>1, <1>5 DEF Signed
<1>9. QED
  BY <1>5, <1>6, <1>7, <1>8, NewSurveys

------------------------------------------------------------------------------
(* Assignments that were derived become records (Retained).                  *)

(* The assignments of the requests of D become records.                      *)
Kept(s, t, D) ==
    /\ t.survey = s.survey /\ t.profile = s.profile /\ t.pairing = s.pairing /\ t.made = s.made
    /\ \A q \in Requests :
          IF q \in D /\ ~Mapped(s, q)
          THEN /\ t.bond[q] = [p \in Pairings |-> IF p \in Own(s, q) THEN q ELSE Nobody]
               /\ t.held[q] = Own(s, q)
          ELSE t.bond[q] = s.bond[q] /\ t.held[q] = s.held[q]

OnRecord(s, r) ==
    {<<p, s.bond[r][p]>> : p \in {x \in s.held[r] \cap Live(s) :
                                     s.bond[r][x] \in s.pairing[x].roster}}

LEMMA SameReading ==
    ASSUME NEW s, NEW t, t.pairing = s.pairing, t.made = s.made
    PROVE  /\ Live(t) = Live(s) /\ Successors(t) = Successors(s)
           /\ \A m : On(t, m) = On(s, m) /\ Own(t, m) = Own(s, m)
<1>1. Live(t) = Live(s)
  BY DEF Live
<1>2. Successors(t) = Successors(s)
  BY DEF Successors
<1>3. \A m : On(t, m) = On(s, m)
  BY DEF On
<1>4. QED
  BY <1>1, <1>2, <1>3 DEF Own

LEMMA SameAssignments ==
    ASSUME NEW s, NEW t, t.pairing = s.pairing, t.made = s.made,
           NEW q, t.bond[q] = s.bond[q], t.held[q] = s.held[q]
    PROVE  Assignments(t, q) = Assignments(s, q)
<1>1. Live(t) = Live(s) /\ Own(t, q) = Own(s, q)
  BY SameReading
<1>2. Mapped(t, q) = Mapped(s, q)
  BY DEF Mapped
<1>3. QED
  BY <1>1, <1>2 DEF Assignments

LEMMA KeptSame ==
    ASSUME NEW s, Typed(s), NEW t, Typed(t), NEW D, Kept(s, t, D), NEW q \in Requests
    PROVE  /\ Assignments(t, q) = Assignments(s, q)
           /\ (q \in D /\ ~Mapped(s, q)) => Assignments(t, q) = OnRecord(t, q)
<1>1. t.pairing = s.pairing /\ t.made = s.made
  BY DEF Kept
<1>2. Live(t) = Live(s) /\ Own(t, q) = Own(s, q) /\ \A m : On(t, m) = On(s, m)
  BY <1>1, SameReading
<1>3. CASE ~(q \in D /\ ~Mapped(s, q))
  <2>1. t.bond[q] = s.bond[q] /\ t.held[q] = s.held[q]
    BY <1>3 DEF Kept
  <2>2. QED
    BY <1>1, <1>3, <2>1, SameAssignments
<1>4. CASE q \in D /\ ~Mapped(s, q)
  <2>1. /\ t.bond[q] = [p \in Pairings |-> IF p \in Own(s, q) THEN q ELSE Nobody]
        /\ t.held[q] = Own(s, q)
    BY <1>4 DEF Kept
  <2>2. Own(s, q) \subseteq Pairings /\ Own(s, q) \subseteq Live(t)
    BY <1>2 DEF Own, On
  <2>3. \A p \in Own(s, q) : t.bond[q][p] = q /\ q \in t.pairing[p].roster
    <3>1. \A p \in Own(s, q) : q \in s.pairing[p].roster
      BY DEF Own, On
    <3>2. QED
      BY <1>1, <2>1, <2>2, <3>1
  <2>4. {x \in t.held[q] \cap Live(t) : t.bond[q][x] \in t.pairing[x].roster} = Own(s, q)
    BY <2>1, <2>2, <2>3
  <2>5. OnRecord(t, q) = {<<p, q>> : p \in Own(s, q)}
    BY <2>3, <2>4 DEF OnRecord
  <2>6. Assignments(s, q) = {<<p, q>> : p \in Own(s, q)}
    BY <1>4 DEF Assignments
  <2>7. Assignments(t, q) = OnRecord(t, q)
    <3>1. CASE Mapped(t, q)
      BY <3>1 DEF Assignments, OnRecord
    <3>2. CASE ~Mapped(t, q)
      BY <1>2, <2>5, <3>2 DEF Assignments
    <3>3. QED
      BY <3>1, <3>2
  <2>8. QED
    BY <2>5, <2>6, <2>7
<1>5. QED
  BY <1>3, <1>4

(* However it is served, a request on record has no assignment off it.        *)
LEMMA RecordForm ==
    ASSUME NEW s, Typed(s), NEW t, Typed(t), NEW r \in Requests, Kept(s, t, {r})
    PROVE  Assignments(t, r) = OnRecord(t, r) /\ (~Mapped(t, r) => Own(t, r) = {})
<1>1. CASE Mapped(s, r)
  <2>1. t.bond[r] = s.bond[r]
    BY <1>1 DEF Kept
  <2>2. Mapped(t, r)
    BY <1>1, <2>1 DEF Mapped
  <2>3. QED
    BY <2>2 DEF Assignments, OnRecord
<1>2. CASE ~Mapped(s, r)
  <2>1. Assignments(t, r) = OnRecord(t, r)
    BY <1>2, KeptSame
  <2>2. ASSUME ~Mapped(t, r), NEW p \in Own(t, r) PROVE FALSE
    <3>1. Own(t, r) = Own(s, r) /\ p \in Pairings
      BY SameReading DEF Kept, Own, On
    <3>2. t.bond[r][p] = r
      BY <1>2, <2>2, <3>1 DEF Kept
    <3>3. t.bond[r][p] = Nobody
      BY <2>2, <3>1 DEF Mapped
    <3>4. QED
      BY <3>2, <3>3, RequestsAssumption
  <2>3. QED
    BY <2>1, <2>2
<1>3. QED
  BY <1>1, <1>2

LEMMA KeptSound ==
    ASSUME NEW s, NEW X, NEW R, Sound(s, X, R), NEW t, Typed(t), NEW D, Kept(s, t, D),
           \A q \in D : s.survey[q].state # "NONE"
    PROVE  Sound(t, X, R) /\ Alike(s, t)
<1>1. Typed(s) /\ Signed(s) /\ Acyclic(s) /\ Alone(s) /\ Named(s) /\ Served(s, X, R)
  BY DEF Sound
<1>2. t.survey = s.survey /\ t.profile = s.profile /\ t.pairing = s.pairing /\ t.made = s.made
  BY DEF Kept
<1>3. Alike(s, t)
  BY <1>2 DEF Alike
<1>4. ASSUME NEW r \in Requests, NEW p \in Pairings
      PROVE  /\ t.bond[r][p] \in {s.bond[r][p], r}
             /\ t.bond[r][p] # s.bond[r][p] => r \in D
  <2>1. CASE r \in D /\ ~Mapped(s, r)
    <3>1. t.bond[r][p] = IF p \in Own(s, r) THEN r ELSE Nobody
      BY <2>1 DEF Kept
    <3>2. s.bond[r][p] = Nobody
      BY <2>1 DEF Mapped
    <3>3. QED
      BY <2>1, <3>1, <3>2
  <2>2. CASE ~(r \in D /\ ~Mapped(s, r))
    BY <2>2 DEF Kept
  <2>3. QED
    BY <2>1, <2>2
<1>5. Signed(t) /\ Acyclic(t) /\ Alone(t)
  <2>1. \A r \in Requests : /\ t.survey[r].state # "NONE" => t.survey[r].box \in Mailboxes
                            /\ t.survey[r].leave => t.survey[r].confirmed
                            /\ t.survey[r].state = "NONE" => t.profile[r].status = "NONE"
    BY <1>1, <1>2 DEF Signed
  <2>2. QED
    BY <1>1, <1>3, <1>4, <2>1, Carried
<1>6. Named(t)
  <2>1. SUFFICES ASSUME NEW r \in Requests
                 PROVE  /\ \A p \in t.held[r] : t.bond[r][p] # Nobody
                        /\ \A p \in Pairings : LET m == t.bond[r][p] IN
                              m # Nobody => t.survey[m].state # "NONE"
    BY DEF Named
  <2>2. /\ \A p \in s.held[r] : s.bond[r][p] # Nobody
        /\ \A p \in Pairings : LET m == s.bond[r][p] IN m # Nobody => s.survey[m].state # "NONE"
    BY <1>1 DEF Named
  <2>3. \A p \in Pairings : LET m == t.bond[r][p] IN m # Nobody => t.survey[m].state # "NONE"
    BY <1>2, <1>4, <2>2
  <2>4. \A p \in t.held[r] : t.bond[r][p] # Nobody
    <3>1. CASE r \in D /\ ~Mapped(s, r)
      <4>1. t.held[r] = Own(s, r) /\ Own(s, r) \subseteq Pairings
        BY <3>1 DEF Kept, Own, On
      <4>2. \A p \in Own(s, r) : t.bond[r][p] = r
        BY <3>1, <4>1 DEF Kept
      <4>3. QED
        BY <4>1, <4>2, RequestsAssumption
    <3>2. CASE ~(r \in D /\ ~Mapped(s, r))
      <4>1. t.bond[r] = s.bond[r] /\ t.held[r] = s.held[r]
        BY <3>2 DEF Kept
      <4>2. QED
        BY <2>2, <4>1
    <3>3. QED
      BY <3>1, <3>2
  <2>5. QED
    BY <2>3, <2>4
<1>7. Served(t, X, R)
  <2>1. Live(t) = Live(s) /\ \A q : Open(t, q) = Open(s, q)
    BY <1>2, SameReading DEF Open
  <2>2. \A q \in Requests : Assignments(t, q) = Assignments(s, q)
    BY <1>1, KeptSame
  <2>3. QED
    BY <1>1, <1>2, <2>1, <2>2 DEF Served
<1>8. QED
  BY <1>3, <1>5, <1>6, <1>7 DEF Sound

LEMMA RetainedKept ==
    ASSUME NEW s, Typed(s), NEW r \in Requests, NEW t, t = Retained(s, r)
    PROVE  Typed(t) /\ Kept(s, t, {r})
<1>1. CASE Mapped(s, r)
  <2>1. t = s
    BY <1>1 DEF Retained
  <2>2. QED
    BY <1>1, <2>1 DEF Kept
<1>2. CASE ~Mapped(s, r)
  <2>1. PICK b : b = [p \in Pairings |-> IF p \in Own(s, r) THEN r ELSE Nobody]
    OBVIOUS
  <2>2. t = [s EXCEPT !.bond[r] = b, !.held[r] = Own(s, r)]
    BY <1>2, <2>1 DEF Retained
  <2>3. b \in [Pairings -> Requests \cup {Nobody}]
    BY <2>1
  <2>4. Own(s, r) \subseteq Pairings
    BY DEF Own, On
  <2>5. PICK c : c = [s.bond EXCEPT ![r] = b]
    OBVIOUS
  <2>6. PICK h : h = [s.held EXCEPT ![r] = Own(s, r)]
    OBVIOUS
  <2>7. t = [s EXCEPT !.bond = c, !.held = h]
    BY <2>2, <2>5, <2>6 DEF Typed
  <2>8. t = [survey |-> s.survey, profile |-> s.profile, bond |-> c, held |-> h,
             pairing |-> s.pairing, made |-> s.made]
    BY <2>7 DEF Typed
  <2>9. c \in [Requests -> [Pairings -> Requests \cup {Nobody}]] /\ h \in [Requests -> SUBSET Pairings]
    BY <2>3, <2>4, <2>5, <2>6 DEF Typed
  <2>10. Typed(t)
    BY <2>8, <2>9 DEF Typed
  <2>11. c[r] = b /\ h[r] = Own(s, r) /\ \A q \in Requests \ {r} : c[q] = s.bond[q] /\ h[q] = s.held[q]
    BY <2>5, <2>6 DEF Typed
  <2>12. Kept(s, t, {r})
    BY <1>2, <2>1, <2>8, <2>11 DEF Kept
  <2>13. QED
    BY <2>10, <2>12
<1>3. QED
  BY <1>1, <1>2

------------------------------------------------------------------------------
(* A new pairing, and the record of who serves whom on it.                   *)

LEMMA NewPairingSound ==
    ASSUME NEW s, NEW X, NEW R, Sound(s, X, R), s.made < MaxPairings, NEW ts \in SUBSET Requests,
           NEW t, t = NewPairing(s, ts)
    PROVE  /\ Sound(t, X \cup ({s.made + 1} \X ts), R) /\ Alike(s, t)
           /\ s.made + 1 \in Pairings /\ t.pairing[s.made + 1].roster = ts
           /\ t.survey = s.survey /\ t.profile = s.profile
<1>1. Typed(s) /\ Signed(s) /\ Acyclic(s) /\ Alone(s) /\ Named(s) /\ Served(s, X, R)
  BY DEF Sound
<1>2. s.made \in Nat /\ s.made + 1 \in 0 .. MaxPairings /\ s.made + 1 \in Pairings
      /\ 1 .. s.made \subseteq Pairings
  BY <1>1, RequestsAssumption DEF Typed, Pairings
<1>3. PICK n : n = [s.pairing[s.made + 1] EXCEPT !.roster = ts]
  OBVIOUS
<1>4. s.pairing[s.made + 1] \in PairingRows
  BY <1>1, <1>2 DEF Typed
<1>5. n \in PairingRows /\ n.roster = ts /\ n.next = s.pairing[s.made + 1].next
  BY <1>3, <1>4 DEF PairingRows
<1>6. PICK g : g = [s.pairing EXCEPT ![s.made + 1] = n]
  OBVIOUS
<1>7. t = [s EXCEPT !.made = s.made + 1, !.pairing = g]
  BY <1>1, <1>3, <1>6 DEF NewPairing, Typed
<1>8. t = [survey |-> s.survey, profile |-> s.profile, bond |-> s.bond, held |-> s.held,
           pairing |-> g, made |-> s.made + 1]
  BY <1>1, <1>7 DEF Typed
<1>9. g \in [Pairings -> PairingRows] /\ g[s.made + 1] = n
      /\ \A p \in Pairings \ {s.made + 1} : g[p] = s.pairing[p]
  BY <1>1, <1>2, <1>5, <1>6 DEF Typed
<1>10. Typed(t)
  BY <1>1, <1>2, <1>8, <1>9 DEF Typed
<1>11. Alike(s, t)
  BY <1>8 DEF Alike
<1>12. Signed(t) /\ Acyclic(t) /\ Alone(t)
  <2>1. \A r \in Requests : /\ t.survey[r].state # "NONE" => t.survey[r].box \in Mailboxes
                            /\ t.survey[r].leave => t.survey[r].confirmed
                            /\ t.survey[r].state = "NONE" => t.profile[r].status = "NONE"
    BY <1>1, <1>8 DEF Signed
  <2>2. \A r, p : t.bond[r][p] \in {s.bond[r][p], r}
    BY <1>8
  <2>3. QED
    BY <1>1, <1>10, <1>11, <2>1, <2>2, Carried
<1>13. Named(t)
  <2>1. t.bond = s.bond /\ t.held = s.held /\ t.survey = s.survey
    BY <1>8
  <2>2. QED
    BY <1>1, <2>1 DEF Named
<1>14. Served(t, X \cup ({s.made + 1} \X ts), R)
  <2>1. SUFFICES ASSUME NEW p \in Live(t), NEW m \in t.pairing[p].roster,
                        <<p, m>> \notin X, ~(p = s.made + 1 /\ m \in ts)
                 PROVE  \E q \in Requests : (Open(t, q) \/ q \in R) /\ <<p, m>> \in Assignments(t, q)
    BY DEF Served
  <2>2. p \in Pairings
    BY <1>10, LivePairings
  <2>3. p # s.made + 1
    BY <1>5, <1>8, <1>9, <2>1
  <2>4. t.pairing[p] = s.pairing[p] /\ p \in 1 .. s.made
    <3>1. p \in 1 .. s.made + 1
      BY <1>8 DEF Live
    <3>2. QED
      BY <1>2, <1>8, <1>9, <2>2, <2>3, <3>1
  <2>5. p \in Live(s) /\ m \in s.pairing[p].roster
    BY <2>1, <2>4 DEF Live
  <2>6. PICK q \in Requests : (Open(s, q) \/ q \in R) /\ <<p, m>> \in Assignments(s, q)
    BY <1>1, <2>1, <2>5 DEF Served
  <2>7. Open(t, q) = Open(s, q)
    BY <1>8 DEF Open
  <2>8. CASE Mapped(s, q)
    <3>1. Mapped(t, q)
      BY <1>8, <2>8 DEF Mapped
    <3>2. p \in s.held[q] /\ s.bond[q][p] = m
      BY <2>6, <2>8 DEF Assignments
    <3>3. p \in t.held[q] /\ t.bond[q][p] = m
      BY <1>8, <3>2
    <3>4. <<p, m>> \in Assignments(t, q)
      BY <2>1, <3>1, <3>3 DEF Assignments
    <3>5. QED
      BY <2>6, <2>7, <3>4
  <2>9. CASE ~Mapped(s, q)
    <3>1. ~Mapped(t, q)
      BY <1>8, <2>9 DEF Mapped
    <3>2. p \in Own(s, q) /\ m = q
      BY <2>6, <2>9 DEF Assignments
    <3>3. \A x \in Pairings : t.pairing[x].next = s.pairing[x].next
      BY <1>5, <1>8, <1>9
    <3>4. Successors(t) = Successors(s)
      BY <3>3 DEF Successors
    <3>5. p \in Own(t, q)
      BY <2>1, <2>2, <3>2, <3>4 DEF Own, On
    <3>6. <<p, m>> \in Assignments(t, q)
      BY <3>1, <3>2, <3>5 DEF Assignments
    <3>7. QED
      BY <2>6, <2>7, <3>6
  <2>10. QED
    BY <2>8, <2>9
<1>15. t.pairing[s.made + 1].roster = ts
  BY <1>5, <1>8, <1>9
<1>16. t.survey = s.survey /\ t.profile = s.profile
  BY <1>8
<1>17. QED
  BY <1>2, <1>10, <1>11, <1>12, <1>13, <1>14, <1>15, <1>16 DEF Sound

LEMMA RecordedSound ==
    ASSUME NEW s, NEW X, NEW R, Sound(s, X, R), NEW r \in Requests, Open(s, r),
           NEW p \in Pairings, NEW m \in Requests, s.pairing[p].roster = {m},
           s.survey[m].state # "NONE", Early(s, r) => m = r,
           NEW t, t = Recorded(s, r, p, m)
    PROVE  /\ Sound(t, X \ {<<p, m>>}, R) /\ Alike(s, t)
           /\ t.survey = s.survey /\ t.profile = s.profile
<1>1. PICK k : k = Retained(s, r)
  OBVIOUS
<1>2. Typed(s) /\ Typed(k) /\ Kept(s, k, {r})
  BY <1>1, RetainedKept DEF Sound
<1>3. Sound(k, X, R) /\ Alike(s, k)
  BY <1>2, KeptSound DEF Open
<1>4. k.survey = s.survey /\ k.profile = s.profile /\ k.pairing = s.pairing
  BY <1>2 DEF Kept
<1>5. Signed(k) /\ Acyclic(k) /\ Alone(k) /\ Named(k) /\ Served(k, X, R)
  BY <1>3 DEF Sound
<1>6. PICK b : b = [k.bond[r] EXCEPT ![p] = m]
  OBVIOUS
<1>7. PICK c : c = [k.bond EXCEPT ![r] = b]
  OBVIOUS
<1>8. PICK h : h = [k.held EXCEPT ![r] = @ \cup {p}]
  OBVIOUS
<1>9. t = [k EXCEPT !.bond = c, !.held = h]
  BY <1>1, <1>2, <1>6, <1>7, <1>8 DEF Recorded, Typed
<1>10. t = [survey |-> k.survey, profile |-> k.profile, bond |-> c, held |-> h,
            pairing |-> k.pairing, made |-> k.made]
  BY <1>2, <1>9 DEF Typed
<1>11. /\ b \in [Pairings -> Requests \cup {Nobody}] /\ b[p] = m
       /\ \A x \in Pairings \ {p} : b[x] = k.bond[r][x]
  BY <1>2, <1>6 DEF Typed
<1>12. /\ c \in [Requests -> [Pairings -> Requests \cup {Nobody}]]
       /\ c[r] = b /\ \A q \in Requests \ {r} : c[q] = k.bond[q]
  BY <1>2, <1>7, <1>11 DEF Typed
<1>13. /\ h \in [Requests -> SUBSET Pairings]
       /\ h[r] = k.held[r] \cup {p} /\ \A q \in Requests \ {r} : h[q] = k.held[q]
  BY <1>2, <1>8 DEF Typed
<1>14. Typed(t)
  BY <1>2, <1>10, <1>12, <1>13 DEF Typed
<1>15. Alike(k, t) /\ Alike(s, t)
  BY <1>4, <1>10 DEF Alike
<1>16. Signed(t) /\ Acyclic(t) /\ Alone(t)
  <2>1. \A q \in Requests : /\ t.survey[q].state # "NONE" => t.survey[q].box \in Mailboxes
                            /\ t.survey[q].leave => t.survey[q].confirmed
                            /\ t.survey[q].state = "NONE" => t.profile[q].status = "NONE"
    BY <1>5, <1>10 DEF Signed
  <2>2. ASSUME NEW q \in Requests, Early(k, q), NEW x \in Pairings
        PROVE  t.bond[q][x] \in {k.bond[q][x], q}
    <3>1. CASE q = r /\ x = p
      <4>1. Early(s, r)
        BY <1>4, <2>2, <3>1 DEF Early
      <4>2. QED
        BY <1>10, <1>11, <1>12, <3>1, <4>1
    <3>2. CASE ~(q = r /\ x = p)
      BY <1>10, <1>11, <1>12, <3>2
    <3>3. QED
      BY <3>1, <3>2
  <2>3. QED
    BY <1>2, <1>5, <1>14, <1>15, <2>1, <2>2, Carried
<1>17. Named(t)
  <2>1. SUFFICES ASSUME NEW q \in Requests
                 PROVE  /\ \A x \in t.held[q] : t.bond[q][x] # Nobody
                        /\ \A x \in Pairings : LET n == t.bond[q][x] IN
                              n # Nobody => t.survey[n].state # "NONE"
    BY DEF Named
  <2>2. /\ \A x \in k.held[q] : k.bond[q][x] # Nobody
        /\ \A x \in Pairings : LET n == k.bond[q][x] IN n # Nobody => k.survey[n].state # "NONE"
    BY <1>5 DEF Named
  <2>3. CASE q = r
    <3>1. t.bond[q] = b /\ t.held[q] = k.held[q] \cup {p} /\ k.held[q] \subseteq Pairings
      BY <1>2, <1>10, <1>12, <1>13, <2>3 DEF Typed
    <3>2. \A x \in t.held[q] : t.bond[q][x] # Nobody
      BY <1>11, <2>2, <2>3, <3>1, RequestsAssumption
    <3>3. t.survey = k.survey /\ k.survey[m].state # "NONE"
      BY <1>4, <1>10
    <3>4. \A x \in Pairings : LET n == t.bond[q][x] IN n # Nobody => t.survey[n].state # "NONE"
      BY <1>11, <2>2, <2>3, <3>1, <3>3
    <3>5. QED
      BY <3>2, <3>4
  <2>4. CASE q # r
    <3>1. t.bond[q] = k.bond[q] /\ t.held[q] = k.held[q] /\ t.survey = k.survey
      BY <1>10, <1>12, <1>13, <2>4
    <3>2. QED
      BY <2>2, <3>1
  <2>5. QED
    BY <2>3, <2>4
<1>18. Served(t, X \ {<<p, m>>}, R)
  <2>1. SUFFICES ASSUME NEW x \in Live(t), NEW n \in t.pairing[x].roster,
                        <<x, n>> \notin X \ {<<p, m>>}
                 PROVE  \E q \in Requests : (Open(t, q) \/ q \in R) /\ <<x, n>> \in Assignments(t, q)
    BY DEF Served
  <2>2. t.pairing = k.pairing /\ t.made = k.made /\ \A q : Open(t, q) = Open(k, q)
    BY <1>10 DEF Open
  <2>3. Live(t) = Live(k) /\ x \in Pairings
    BY <1>14, <2>2, SameReading, LivePairings
  <2>4. Mapped(t, r)
    <3>1. t.bond[r][p] # Nobody
      BY <1>10, <1>11, <1>12, RequestsAssumption
    <3>2. QED
      BY <3>1 DEF Mapped
  <2>5. Assignments(t, r) = OnRecord(t, r)
    BY <2>4 DEF Assignments, OnRecord
  <2>6. CASE x = p
    <3>1. n = m
      BY <1>4, <1>10, <2>1, <2>6
    <3>2. p \in t.held[r] /\ t.bond[r][p] = m
      BY <1>10, <1>11, <1>12, <1>13
    <3>3. <<p, m>> \in OnRecord(t, r)
      BY <2>1, <2>6, <3>1, <3>2 DEF OnRecord
    <3>4. Open(t, r)
      BY <1>4, <2>2 DEF Open
    <3>5. QED
      BY <2>5, <2>6, <3>1, <3>3, <3>4
  <2>7. CASE x # p
    <3>1. <<x, n>> \notin X
      BY <2>1, <2>7
    <3>2. PICK q \in Requests : (Open(k, q) \/ q \in R) /\ <<x, n>> \in Assignments(k, q)
      BY <1>5, <2>1, <2>2, <2>3, <3>1 DEF Served
    <3>3. CASE q # r
      <4>1. t.bond[q] = k.bond[q] /\ t.held[q] = k.held[q]
        BY <1>10, <1>12, <1>13, <3>3
      <4>2. Assignments(t, q) = Assignments(k, q)
        BY <2>2, <4>1, SameAssignments
      <4>3. QED
        BY <2>2, <3>2, <4>2
    <3>4. CASE q = r
      <4>1. <<x, n>> \in OnRecord(k, r)
        BY <1>2, <3>2, <3>4, RecordForm
      <4>2. x \in k.held[r] /\ k.bond[r][x] = n
        BY <4>1 DEF OnRecord
      <4>3. x \in t.held[r] /\ t.bond[r][x] = n
        BY <1>10, <1>11, <1>12, <1>13, <2>3, <2>7, <4>2
      <4>4. <<x, n>> \in OnRecord(t, r)
        BY <2>1, <4>3 DEF OnRecord
      <4>5. QED
        BY <2>2, <2>5, <3>2, <3>4, <4>4
    <3>5. QED
      BY <3>3, <3>4
  <2>8. QED
    BY <2>6, <2>7
<1>19. t.survey = s.survey /\ t.profile = s.profile
  BY <1>4, <1>10
<1>20. QED
  BY <1>14, <1>15, <1>16, <1>17, <1>18, <1>19 DEF Sound

------------------------------------------------------------------------------
(* A request lets go of pairings: the members that leave (Released).         *)

(* What request r gives up of pairings ps, and the rows without it.          *)
Gone(k, r, ps) == {a \in Assignments(k, r) : a[1] \in ps /\ ~Needed(k, r, a[1], a[2])}

Shed(k, r, ps) ==
    [k EXCEPT !.held[r] = @ \ ps,
              !.pairing = [p \in Pairings |->
                  [k.pairing[p] EXCEPT !.roster = @ \ {m \in Requests : <<p, m>> \in Gone(k, r, ps)}]]]

Touched(s, r) ==
    IF s.profile[r].status = "NONE" THEN {}
    ELSE {Exec(s, r)} \cup {s.bond[r][p] : p \in s.held[r]}

Rested(u, r, ts, idle) ==
    [x \in Requests |-> IF x \in ts THEN [u.profile[x] EXCEPT !.status = Rest(u, r, x, idle)]
                        ELSE u.profile[x]]

LEMMA ReleasedForm ==
    ASSUME NEW s, NEW r, NEW ps, NEW idle, NEW u, u = Shed(Retained(s, r), r, ps)
    PROVE  Released(s, r, ps, idle) = [u EXCEPT !.profile = Rested(u, r, Touched(s, r), idle)]
  BY Zenon DEF Released, Shed, Gone, Touched, Rested

LEMMA InGone ==
    ASSUME NEW k, NEW r, NEW ps, NEW p, NEW m
    PROVE  <<p, m>> \in Gone(k, r, ps) <=>
             <<p, m>> \in Assignments(k, r) /\ p \in ps /\ ~Needed(k, r, p, m)
<1>1. <<p, m>>[1] = p /\ <<p, m>>[2] = m
  OBVIOUS
<1>2. QED
  BY <1>1, Zenon DEF Gone

LEMMA InAssignments ==
    ASSUME NEW k, NEW r, NEW p, NEW m, <<p, m>> \in Assignments(k, r)
    PROVE  p \in Live(k) /\ m \in k.pairing[p].roster
<1>1. CASE Mapped(k, r)
  BY <1>1 DEF Assignments
<1>2. CASE ~Mapped(k, r)
  <2>1. p \in Own(k, r) /\ m = r
    BY <1>2 DEF Assignments
  <2>2. QED
    BY <2>1 DEF Own, On
<1>3. QED
  BY <1>1, <1>2

LEMMA ShedRows ==
    ASSUME NEW k, Typed(k), NEW r \in Requests, NEW ps, NEW u, u = Shed(k, r, ps)
    PROVE  /\ Typed(u)
           /\ u.survey = k.survey /\ u.profile = k.profile /\ u.bond = k.bond /\ u.made = k.made
           /\ u.held[r] = k.held[r] \ ps /\ \A q \in Requests \ {r} : u.held[q] = k.held[q]
           /\ \A p \in Pairings :
                 /\ u.pairing[p].next = k.pairing[p].next
                 /\ u.pairing[p].roster = k.pairing[p].roster \ {m \in Requests : <<p, m>> \in Gone(k, r, ps)}
                 /\ p \notin Live(k) => u.pairing[p] = k.pairing[p]
<1>1. PICK h : h = [k.held EXCEPT ![r] = @ \ ps]
  OBVIOUS
<1>2. PICK g : g = [p \in Pairings |->
         [k.pairing[p] EXCEPT !.roster = @ \ {m \in Requests : <<p, m>> \in Gone(k, r, ps)}]]
  OBVIOUS
<1>3. u = [k EXCEPT !.held = h, !.pairing = g]
  BY <1>1, <1>2, Zenon DEF Shed, Typed
<1>4. u = [survey |-> k.survey, profile |-> k.profile, bond |-> k.bond, held |-> h,
           pairing |-> g, made |-> k.made]
  BY <1>3 DEF Typed
<1>5. /\ h \in [Requests -> SUBSET Pairings]
      /\ h[r] = k.held[r] \ ps /\ \A q \in Requests \ {r} : h[q] = k.held[q]
  BY <1>1 DEF Typed
<1>6. ASSUME NEW p \in Pairings
      PROVE  /\ g[p] \in PairingRows /\ g[p].next = k.pairing[p].next
             /\ g[p].roster = k.pairing[p].roster \ {m \in Requests : <<p, m>> \in Gone(k, r, ps)}
             /\ p \notin Live(k) => g[p] = k.pairing[p]
  <2>1. PICK G : G = {m \in Requests : <<p, m>> \in Gone(k, r, ps)}
    OBVIOUS
  <2>2. g[p] = [k.pairing[p] EXCEPT !.roster = @ \ G]
    BY <1>2, <2>1
  <2>3. k.pairing[p] \in PairingRows
    BY DEF Typed
  <2>4. g[p] \in PairingRows /\ g[p].next = k.pairing[p].next /\ g[p].roster = k.pairing[p].roster \ G
    BY <2>2, <2>3 DEF PairingRows
  <2>5. p \notin Live(k) => G = {}
    BY <2>1, InGone, InAssignments
  <2>6. G = {} => g[p] = k.pairing[p]
    BY <2>2, <2>3 DEF PairingRows
  <2>7. QED
    BY <2>1, <2>4, <2>5, <2>6
<1>7. g \in [Pairings -> PairingRows]
  BY <1>2, <1>6
<1>8. Typed(u)
  BY <1>4, <1>5, <1>7 DEF Typed
<1>9. QED
  BY <1>4, <1>5, <1>6, <1>8

(* A member that another open request holds on to stays, and so does that    *)
(* request's assignment.                                                     *)
LEMMA ShedOthers ==
    ASSUME NEW k, Typed(k), NEW r \in Requests, NEW ps, NEW u, u = Shed(k, r, ps),
           NEW q \in Requests \ {r}, Open(k, q)
    PROVE  Assignments(u, q) = Assignments(k, q)
<1>1. /\ Typed(u)
      /\ u.survey = k.survey /\ u.profile = k.profile /\ u.bond = k.bond /\ u.made = k.made
      /\ u.held[q] = k.held[q]
      /\ \A p \in Pairings :
            /\ u.pairing[p].next = k.pairing[p].next
            /\ u.pairing[p].roster = k.pairing[p].roster \ {m \in Requests : <<p, m>> \in Gone(k, r, ps)}
  BY ShedRows
<1>2. Live(u) = Live(k)
  <2>1. 1 .. k.made \subseteq Pairings
    BY RequestsAssumption DEF Typed, Pairings
  <2>2. QED
    BY <1>1, <2>1 DEF Live
<1>3. Successors(u) = Successors(k)
  BY <1>1 DEF Successors
<1>4. Mapped(u, q) = Mapped(k, q)
  BY <1>1 DEF Mapped
<1>5. Live(k) \subseteq Pairings
  BY LivePairings
<1>6. CASE Mapped(k, q)
  <2>1. ASSUME NEW p \in k.held[q] \cap Live(k), k.bond[q][p] \in k.pairing[p].roster
        PROVE  k.bond[q][p] \in u.pairing[p].roster
    <3>1. Needed(k, r, p, k.bond[q][p])
      BY <2>1 DEF Needed
    <3>2. <<p, k.bond[q][p]>> \notin Gone(k, r, ps)
      BY <3>1, InGone
    <3>3. QED
      BY <1>1, <1>5, <2>1, <3>2
  <2>2. \A p \in k.held[q] \cap Live(k) :
            k.bond[q][p] \in u.pairing[p].roster <=> k.bond[q][p] \in k.pairing[p].roster
    BY <1>1, <1>5, <2>1
  <2>3. {x \in u.held[q] \cap Live(u) : u.bond[q][x] \in u.pairing[x].roster}
        = {x \in k.held[q] \cap Live(k) : k.bond[q][x] \in k.pairing[x].roster}
    BY <1>1, <1>2, <2>2
  <2>4. QED
    BY <1>1, <1>4, <1>6, <2>3 DEF Assignments
<1>7. CASE ~Mapped(k, q)
  <2>1. ASSUME NEW p \in Own(k, q) PROVE p \in Own(u, q)
    <3>1. p \in Pairings /\ q \in k.pairing[p].roster /\ p \in Live(k) /\ p \notin Successors(k)
      BY <2>1 DEF Own, On
    <3>2. Needed(k, r, p, q)
      BY <1>7, <3>1 DEF Needed
    <3>3. <<p, q>> \notin Gone(k, r, ps)
      BY <3>2, InGone
    <3>4. q \in u.pairing[p].roster
      BY <1>1, <3>1, <3>3
    <3>5. QED
      BY <1>2, <1>3, <3>1, <3>4 DEF Own, On
  <2>2. ASSUME NEW p \in Own(u, q) PROVE p \in Own(k, q)
    BY <1>1, <1>2, <1>3, <2>2 DEF Own, On
  <2>3. Own(u, q) = Own(k, q)
    BY <2>1, <2>2
  <2>4. QED
    BY <1>4, <1>7, <2>3 DEF Assignments
<1>8. QED
  BY <1>6, <1>7

LEMMA ShedSound ==
    ASSUME NEW s, NEW X, NEW r \in Requests, Sound(s, X, {r}), s.survey[r].state # "NONE",
           NEW ps, ps = Pairings \/ Open(s, r), NEW u, u = Shed(Retained(s, r), r, ps)
    PROVE  /\ Sound(u, X, {}) /\ Alike(s, u)
           /\ u.survey = s.survey /\ u.profile = s.profile /\ u.made = s.made
           /\ \A p \in Pairings : /\ u.pairing[p].next = s.pairing[p].next
                                  /\ u.pairing[p].roster \subseteq s.pairing[p].roster
                                  /\ p \notin Live(s) => u.pairing[p] = s.pairing[p]
           /\ \A q \in Requests \ {r} : Open(s, q) => Assignments(u, q) = Assignments(s, q)
<1>1. PICK k : k = Retained(s, r)
  OBVIOUS
<1>2. Typed(s) /\ Typed(k) /\ Kept(s, k, {r})
  BY <1>1, RetainedKept DEF Sound
<1>3. Sound(k, X, {r}) /\ Alike(s, k)
  BY <1>2, KeptSound
<1>4. k.survey = s.survey /\ k.profile = s.profile /\ k.pairing = s.pairing /\ k.made = s.made
  BY <1>2 DEF Kept
<1>5. Signed(k) /\ Acyclic(k) /\ Alone(k) /\ Named(k) /\ Served(k, X, {r})
  BY <1>3 DEF Sound
<1>6. /\ Typed(u)
      /\ u.survey = k.survey /\ u.profile = k.profile /\ u.bond = k.bond /\ u.made = k.made
      /\ u.held[r] = k.held[r] \ ps /\ \A q \in Requests \ {r} : u.held[q] = k.held[q]
      /\ \A p \in Pairings :
            /\ u.pairing[p].next = k.pairing[p].next
            /\ u.pairing[p].roster = k.pairing[p].roster \ {m \in Requests : <<p, m>> \in Gone(k, r, ps)}
            /\ p \notin Live(k) => u.pairing[p] = k.pairing[p]
  BY <1>1, <1>2, ShedRows
<1>7. Alike(k, u) /\ Alike(s, u)
  BY <1>4, <1>6 DEF Alike
<1>8. Signed(u) /\ Acyclic(u) /\ Alone(u)
  <2>1. \A q \in Requests : /\ u.survey[q].state # "NONE" => u.survey[q].box \in Mailboxes
                            /\ u.survey[q].leave => u.survey[q].confirmed
                            /\ u.survey[q].state = "NONE" => u.profile[q].status = "NONE"
    BY <1>5, <1>6 DEF Signed
  <2>2. \A q, p : u.bond[q][p] \in {k.bond[q][p], q}
    BY <1>6
  <2>3. QED
    BY <1>2, <1>5, <1>6, <1>7, <2>1, <2>2, Carried
<1>9. Named(u)
  <2>1. \A q \in Requests : u.held[q] \subseteq k.held[q]
    BY <1>6
  <2>2. QED
    BY <1>5, <1>6, <2>1 DEF Named
<1>10. Live(u) = Live(k) /\ Live(k) = Live(s) /\ Live(k) \subseteq Pairings
  <2>1. 1 .. k.made \subseteq Pairings
    BY <1>2, RequestsAssumption DEF Typed, Pairings
  <2>2. Live(u) = Live(k)
    BY <1>6, <2>1 DEF Live
  <2>3. QED
    BY <1>2, <1>4, <2>2, LivePairings, SameReading
<1>11. Served(u, X, {})
  <2>1. SUFFICES ASSUME NEW p \in Live(u), NEW m \in u.pairing[p].roster, <<p, m>> \notin X
                 PROVE  \E q \in Requests : Open(u, q) /\ <<p, m>> \in Assignments(u, q)
    BY DEF Served
  <2>2. p \in Pairings /\ m \in k.pairing[p].roster /\ m \in Requests
    <3>1. p \in Pairings
      BY <1>10
    <3>2. k.pairing[p].roster \subseteq Requests
      BY <1>2, <3>1 DEF Typed, PairingRows
    <3>3. QED
      BY <1>6, <2>1, <3>1, <3>2
  <2>3. PICK q \in Requests : (Open(k, q) \/ q = r) /\ <<p, m>> \in Assignments(k, q)
    BY <1>5, <1>10, <2>1, <2>2 DEF Served
  <2>4. \A x : Open(u, x) = Open(k, x)
    BY <1>6 DEF Open
  <2>5. ASSUME NEW x \in Requests \ {r}, Open(k, x), <<p, m>> \in Assignments(k, x)
        PROVE  \E y \in Requests : Open(u, y) /\ <<p, m>> \in Assignments(u, y)
    <3>1. Assignments(u, x) = Assignments(k, x)
      BY <1>1, <1>2, <2>5, ShedOthers
    <3>2. QED
      BY <2>4, <2>5, <3>1
  <2>6. CASE q # r
    BY <2>3, <2>5, <2>6
  <2>7. CASE q = r /\ p \in ps
    <3>1. <<p, m>> \notin Gone(k, r, ps)
      BY <1>6, <2>1, <2>2
    <3>2. Needed(k, r, p, m)
      BY <2>3, <2>7, <3>1, InGone
    <3>3. PICK x \in Requests \ {r} :
            /\ Open(k, x)
            /\ \/ p \in k.held[x] /\ k.bond[x][p] = m
               \/ x = m /\ ~Mapped(k, x) /\ p \notin Successors(k)
      BY <3>2 DEF Needed
    <3>4. <<p, m>> \in Assignments(k, x)
      <4>1. CASE p \in k.held[x] /\ k.bond[x][p] = m
        <5>1. Mapped(k, x)
          BY <2>2, <4>1, RequestsAssumption DEF Mapped
        <5>2. QED
          BY <1>10, <2>1, <2>2, <4>1, <5>1 DEF Assignments
      <4>2. CASE x = m /\ ~Mapped(k, x) /\ p \notin Successors(k)
        <5>1. p \in Own(k, x)
          BY <1>10, <2>1, <2>2, <4>2 DEF Own, On
        <5>2. QED
          BY <4>2, <5>1 DEF Assignments
      <4>3. QED
        BY <3>3, <4>1, <4>2
    <3>5. QED
      BY <2>5, <3>3, <3>4
  <2>8. CASE q = r /\ p \notin ps
    <3>1. Open(u, r)
      BY <1>4, <1>6, <2>2, <2>8 DEF Open
    <3>2. <<p, m>> \in OnRecord(k, r)
      BY <1>2, <2>3, <2>8, RecordForm
    <3>3. p \in k.held[r] /\ k.bond[r][p] = m
      BY <3>2 DEF OnRecord
    <3>4. Mapped(u, r)
      BY <1>6, <2>2, <3>3, RequestsAssumption DEF Mapped
    <3>5. p \in u.held[r] /\ u.bond[r][p] = m
      BY <1>6, <2>8, <3>3
    <3>6. <<p, m>> \in Assignments(u, r)
      BY <2>1, <3>4, <3>5 DEF Assignments
    <3>7. QED
      BY <3>1, <3>6
  <2>9. QED
    BY <2>6, <2>7, <2>8
<1>12. ASSUME NEW q \in Requests \ {r}, Open(s, q) PROVE Assignments(u, q) = Assignments(s, q)
  <2>1. Open(k, q)
    BY <1>4, <1>12 DEF Open
  <2>2. Assignments(u, q) = Assignments(k, q)
    BY <1>1, <1>2, <2>1, ShedOthers
  <2>3. Assignments(k, q) = Assignments(s, q)
    BY <1>2, KeptSame
  <2>4. QED
    BY <2>2, <2>3
<1>13. Sound(u, X, {})
  BY <1>6, <1>8, <1>9, <1>11 DEF Sound
<1>14. \A p \in Pairings : /\ u.pairing[p].next = s.pairing[p].next
                           /\ u.pairing[p].roster \subseteq s.pairing[p].roster
                           /\ p \notin Live(s) => u.pairing[p] = s.pairing[p]
  BY <1>4, <1>6, <1>10
<1>15. QED
  BY <1>4, <1>6, <1>7, <1>12, <1>13, <1>14

------------------------------------------------------------------------------
(* The profiles that are at rest then, and the end of a request (Closed).    *)

LEMMA RestOutcome ==
    ASSUME NEW u, NEW r, NEW x, NEW idle
    PROVE  /\ Rest(u, r, x, idle) \in {u.profile[x].status, "INACTIVE", "PENDING", idle}
           /\ ~Current(u, x) => Rest(u, r, x, idle) \in {u.profile[x].status, "INACTIVE"}
<1>1. PICK w : w = IF ~Current(u, x) THEN "INACTIVE"
                   ELSE IF \E q \in Requests \ {r} : Open(u, q) /\ Exec(u, q) = x THEN "PENDING"
                   ELSE idle
  OBVIOUS
<1>2. PICK busy, late : Rest(u, r, x, idle) = IF busy THEN u.profile[x].status
                                              ELSE IF late THEN u.profile[x].status ELSE w
  BY <1>1, Zenon DEF Rest
<1>3. w \in {"INACTIVE", "PENDING", idle} /\ (~Current(u, x) => w = "INACTIVE")
  BY <1>1
<1>4. QED
  BY <1>2, <1>3

(* Only profiles of requests that were made are touched, and only its own   *)
(* while a request is not confirmed.                                         *)
LEMMA TouchedMade ==
    ASSUME NEW s, NEW X, NEW R, Sound(s, X, R), NEW r \in Requests
    PROVE  /\ \A x \in Touched(s, r) \cap Requests : s.survey[x].state # "NONE"
           /\ Early(s, r) => Touched(s, r) \cap Requests \subseteq {r}
<1>1. Typed(s) /\ Signed(s) /\ Acyclic(s) /\ Alone(s) /\ Named(s)
  BY DEF Sound
<1>2. s.profile \in [Requests -> ProfileRows] /\ s.held[r] \subseteq Pairings
  BY <1>1 DEF Typed
<1>3. s.profile[r].status = "NONE" \/ s.survey[r].state # "NONE"
  BY <1>1 DEF Signed
<1>4. Exec(s, r) \in Requests /\ (Exec(s, r) = r \/ ~Early(s, Exec(s, r)))
  BY <1>1, <1>2, ExecEnds DEF Alone
<1>5. Early(s, r) => Exec(s, r) = r
  BY <1>1, <1>2, ExecLeads DEF Alone
<1>6. \A p \in s.held[r] : s.bond[r][p] \in Requests => s.survey[s.bond[r][p]].state # "NONE"
  BY <1>1, <1>2, RequestsAssumption DEF Named
<1>7. Early(s, r) => \A p \in s.held[r] : s.bond[r][p] \in {Nobody, r}
  BY <1>1, <1>2 DEF Alone
<1>8. CASE s.profile[r].status = "NONE"
  BY <1>8 DEF Touched
<1>9. CASE s.profile[r].status # "NONE"
  <2>1. Touched(s, r) = {Exec(s, r)} \cup {s.bond[r][p] : p \in s.held[r]}
    BY <1>9 DEF Touched
  <2>2. s.survey[Exec(s, r)].state # "NONE"
    BY <1>1, <1>3, <1>4, <1>9 DEF Early, Signed
  <2>3. \A x \in Touched(s, r) \cap Requests : s.survey[x].state # "NONE"
    BY <1>6, <2>1, <2>2
  <2>4. Early(s, r) => Touched(s, r) \cap Requests \subseteq {r}
    BY <1>5, <1>7, <2>1, RequestsAssumption
  <2>5. QED
    BY <2>3, <2>4
<1>10. QED
  BY <1>8, <1>9

(* Current rosters lose members; what other open requests have is theirs;    *)
(* and the status of the profiles concerned follows.                         *)
Slimmer(s, t) ==
    \A p \in Pairings : /\ t.pairing[p].roster \subseteq s.pairing[p].roster
                        /\ p \notin Live(s) => t.pairing[p] = s.pairing[p]

OthersHave(s, t, r) ==
    \A q \in Requests \ {r} : Open(s, q) => Assignments(t, q) = Assignments(s, q)

Rests(s, t, r) ==
    \A x \in Requests :
        /\ x \notin Touched(s, r) => t.profile[x].status = s.profile[x].status
        /\ ~Current(s, x) => t.profile[x].status \in {s.profile[x].status, "INACTIVE"}

LEMMA ReleasedSound ==
    ASSUME NEW s, NEW X, NEW r \in Requests, Sound(s, X, {r}), s.survey[r].state # "NONE",
           NEW ps, ps = Pairings \/ Open(s, r), NEW idle \in Status,
           NEW t, t = Released(s, r, ps, idle)
    PROVE  /\ Sound(t, X, {}) /\ Alike(s, t) /\ t.survey = s.survey
           /\ Slimmer(s, t) /\ OthersHave(s, t, r) /\ Rests(s, t, r)
<1>1. PICK u : u = Shed(Retained(s, r), r, ps)
  OBVIOUS
<1>2. /\ Sound(u, X, {}) /\ Alike(s, u)
      /\ u.survey = s.survey /\ u.profile = s.profile /\ u.made = s.made
      /\ \A p \in Pairings : /\ u.pairing[p].roster \subseteq s.pairing[p].roster
                             /\ p \notin Live(s) => u.pairing[p] = s.pairing[p]
      /\ \A q \in Requests \ {r} : Open(s, q) => Assignments(u, q) = Assignments(s, q)
  BY <1>1, ShedSound
<1>3. PICK f : f = Rested(u, r, Touched(s, r), idle)
  OBVIOUS
<1>4. t = [u EXCEPT !.profile = f]
  BY <1>1, <1>3, ReleasedForm
<1>5. Typed(u)
  BY <1>2 DEF Sound
<1>6. ASSUME NEW x \in Requests
      PROVE  /\ f[x] \in ProfileRows
             /\ f[x].into = u.profile[x].into /\ f[x].owner = u.profile[x].owner
             /\ x \notin Touched(s, r) => f[x].status = u.profile[x].status
             /\ ~Current(u, x) => f[x].status \in {u.profile[x].status, "INACTIVE"}
  <2>1. u.profile[x] \in ProfileRows
    BY <1>5 DEF Typed
  <2>2. PICK k : k = Rest(u, r, x, idle)
    OBVIOUS
  <2>3. k \in {u.profile[x].status, "INACTIVE", "PENDING", idle}
        /\ (~Current(u, x) => k \in {u.profile[x].status, "INACTIVE"})
    BY <2>2, RestOutcome
  <2>4. k \in {"NONE"} \cup Status
    BY <2>1, <2>3 DEF ProfileRows, Status
  <2>5. f[x] = IF x \in Touched(s, r) THEN [u.profile[x] EXCEPT !.status = k] ELSE u.profile[x]
    BY <1>3, <2>2 DEF Rested
  <2>6. [u.profile[x] EXCEPT !.status = k] \in ProfileRows
        /\ [u.profile[x] EXCEPT !.status = k].into = u.profile[x].into
        /\ [u.profile[x] EXCEPT !.status = k].owner = u.profile[x].owner
        /\ [u.profile[x] EXCEPT !.status = k].status = k
    BY <2>1, <2>4 DEF ProfileRows
  <2>7. QED
    BY <2>1, <2>3, <2>5, <2>6
<1>7. f \in [Requests -> ProfileRows]
  BY <1>3, <1>6 DEF Rested
<1>8. \A x \in Requests : u.survey[x].state = "NONE" => f[x].status = "NONE"
  <2>1. \A x \in Touched(s, r) \cap Requests : s.survey[x].state # "NONE"
    BY TouchedMade
  <2>2. \A x \in Requests : s.survey[x].state = "NONE" => s.profile[x].status = "NONE"
    BY DEF Sound, Signed
  <2>3. QED
    BY <1>2, <1>6, <2>1, <2>2
<1>9. Sound(t, X, {}) /\ Alike(u, t)
  BY <1>2, <1>4, <1>6, <1>7, <1>8, NewStatus
<1>10. /\ t.profile = f /\ t.survey = u.survey /\ t.bond = u.bond /\ t.held = u.held
       /\ t.pairing = u.pairing /\ t.made = u.made
  BY <1>4, <1>5, <1>7, NewProfiles
<1>11. Alike(s, t)
  BY <1>2, <1>9 DEF Alike
<1>12. \A q \in Requests : Assignments(t, q) = Assignments(u, q)
  BY <1>10, SameAssignments
<1>13. \A x : Current(u, x) = Current(s, x)
  BY <1>2 DEF Current, Open, Overdue
<1>14. Rests(s, t, r)
  BY <1>2, <1>6, <1>10, <1>13 DEF Rests
<1>15. Slimmer(s, t) /\ OthersHave(s, t, r)
  BY <1>2, <1>10, <1>12 DEF Slimmer, OthersHave
<1>16. QED
  BY <1>2, <1>9, <1>10, <1>11, <1>14, <1>15

(* The row of a request that ends.                                           *)
EndRow(s, r, state) ==
    [s EXCEPT !.survey[r].state = state, !.survey[r].leave = FALSE, !.survey[r].conflicts = {}]

RowEnded(s, t, r, state) ==
    /\ t.survey[r].state = state /\ t.survey[r].confirmed = s.survey[r].confirmed
    /\ \A q \in Requests \ {r} : t.survey[q] = s.survey[q]
    /\ t.profile = s.profile /\ t.bond = s.bond /\ t.held = s.held
    /\ t.pairing = s.pairing /\ t.made = s.made

LEMMA EndRowSound ==
    ASSUME NEW s, NEW X, Sound(s, X, {}), NEW r \in Requests, Open(s, r), NEW state \in Terminal,
           NEW t, t = EndRow(s, r, state)
    PROVE  Sound(t, X, {r}) /\ RowEnded(s, t, r, state)
<1>1. Typed(s) /\ Signed(s) /\ Acyclic(s) /\ Alone(s) /\ Named(s) /\ Served(s, X, {})
  BY DEF Sound
<1>2. PICK n : n = [s.survey[r] EXCEPT !.state = state, !.leave = FALSE, !.conflicts = {}]
  OBVIOUS
<1>3. s.survey[r] \in SurveyRows
  BY <1>1 DEF Typed
<1>4. n \in SurveyRows /\ n.state = state /\ ~n.leave /\ n.confirmed = s.survey[r].confirmed
      /\ n.box = s.survey[r].box
  BY <1>2, <1>3 DEF SurveyRows
<1>5. PICK f : f = [s.survey EXCEPT ![r] = n]
  OBVIOUS
<1>6. t = [s EXCEPT !.survey = f]
  BY <1>1, <1>2, <1>5 DEF EndRow, Typed, SurveyRows
<1>7. t = [survey |-> f, profile |-> s.profile, bond |-> s.bond, held |-> s.held,
           pairing |-> s.pairing, made |-> s.made]
  BY <1>1, <1>6 DEF Typed
<1>8. f \in [Requests -> SurveyRows] /\ f[r] = n /\ \A q \in Requests \ {r} : f[q] = s.survey[q]
  BY <1>1, <1>4, <1>5 DEF Typed
<1>9. Typed(t)
  BY <1>1, <1>7, <1>8 DEF Typed
<1>10. \A q \in Requests : t.survey[q].state = "NONE" <=> s.survey[q].state = "NONE"
  BY <1>4, <1>7, <1>8 DEF Terminal, Open
<1>11. Signed(t)
  BY <1>1, <1>4, <1>7, <1>8, <1>10 DEF Signed
<1>12. Acyclic(t)
  BY <1>1, <1>7 DEF Acyclic
<1>13. Alone(t)
  <2>1. \A q \in Requests : Early(t, q) => Early(s, q)
    BY <1>4, <1>7, <1>8 DEF Early, Terminal
  <2>2. QED
    BY <1>1, <1>7, <2>1 DEF Alone
<1>14. Named(t)
  <2>1. \A q \in Requests : \A p \in Pairings : s.bond[q][p] \in Requests \cup {Nobody}
    BY <1>1 DEF Typed
  <2>2. QED
    BY <1>1, <1>7, <1>10, <2>1 DEF Named
<1>15. Served(t, X, {r})
  <2>1. Thinner(s, t)
    BY <1>7 DEF Thinner
  <2>2. \A q \in Requests : Open(s, q) => Open(t, q) \/ q \in {r}
    BY <1>7, <1>8 DEF Open
  <2>3. QED
    BY <1>1, <1>9, <2>1, <2>2, ThinnerServed
<1>16. RowEnded(s, t, r, state)
  BY <1>4, <1>7, <1>8 DEF RowEnded
<1>17. QED
  BY <1>9, <1>11, <1>12, <1>13, <1>14, <1>15, <1>16 DEF Sound

(* A request ends.                                                           *)
Ends(s, t, r, state) ==
    /\ t.survey[r].state = state /\ t.survey[r].confirmed = s.survey[r].confirmed
    /\ \A q \in Requests \ {r} : t.survey[q] = s.survey[q]
    /\ \A x \in Requests : /\ t.profile[x].into = s.profile[x].into
                           /\ t.profile[x].owner = s.profile[x].owner
    /\ OthersHave(s, t, r)

LEMMA ClosedSound ==
    ASSUME NEW s, NEW X, Sound(s, X, {}), NEW r \in Requests, Open(s, r), NEW state \in Terminal,
           NEW t, t = Closed(s, r, state)
    PROVE  /\ Sound(t, X, {}) /\ Ends(s, t, r, state) /\ Slimmer(s, t)
           /\ Early(s, r) => \A x \in Requests : t.profile[x].status \in
                 {s.profile[x].status} \cup (IF x = r THEN {"INACTIVE"} ELSE {})
<1>1. PICK u : u = EndRow(s, r, state)
  OBVIOUS
<1>2. Sound(u, X, {r}) /\ RowEnded(s, u, r, state)
  BY <1>1, EndRowSound
<1>3. t = Released(u, r, Pairings, "INACTIVE")
  BY <1>1 DEF Closed, EndRow
<1>4. u.survey[r].state # "NONE" /\ "INACTIVE" \in Status
  BY <1>2 DEF Terminal, Status, RowEnded
<1>5. /\ Sound(t, X, {}) /\ Alike(u, t) /\ t.survey = u.survey
      /\ Slimmer(u, t) /\ OthersHave(u, t, r) /\ Rests(u, t, r)
  BY <1>2, <1>3, <1>4, ReleasedSound
<1>6. /\ u.survey[r].state = state /\ u.survey[r].confirmed = s.survey[r].confirmed
      /\ \A q \in Requests \ {r} : u.survey[q] = s.survey[q]
      /\ u.profile = s.profile /\ u.bond = s.bond /\ u.held = s.held
      /\ u.pairing = s.pairing /\ u.made = s.made
  BY <1>2 DEF RowEnded
<1>7. \A q : Assignments(u, q) = Assignments(s, q)
  BY <1>6, SameAssignments
<1>8. OthersHave(s, t, r)
  BY <1>5, <1>6, <1>7 DEF OthersHave, Open
<1>9. Ends(s, t, r, state)
  BY <1>5, <1>6, <1>8 DEF Ends, Alike
<1>10. Slimmer(s, t)
  <2>1. Live(u) = Live(s)
    BY <1>6, SameReading
  <2>2. QED
    BY <1>5, <1>6, <2>1 DEF Slimmer
<1>11. ASSUME Early(s, r), NEW x \in Requests
       PROVE  t.profile[x].status \in
                 {s.profile[x].status} \cup (IF x = r THEN {"INACTIVE"} ELSE {})
  <2>1. Exec(u, r) = Exec(s, r)
    <3>1. u.profile \in [Requests -> ProfileRows] /\ s.profile \in [Requests -> ProfileRows]
          /\ Acyclic(s)
      BY <1>2 DEF Sound, Typed
    <3>2. QED
      BY <1>6, <3>1, SameExec
  <2>2. Touched(u, r) = Touched(s, r)
    BY <1>6, <2>1 DEF Touched
  <2>3. Touched(u, r) \cap Requests \subseteq {r}
    BY <1>11, <2>2, TouchedMade
  <2>4. ~Current(u, r)
    BY <1>6 DEF Current, Open, Terminal
  <2>5. QED
    BY <1>5, <1>6, <2>3, <2>4 DEF Rests
<1>12. QED
  BY <1>5, <1>9, <1>10, <1>11

------------------------------------------------------------------------------
(* A transfer: successors are numbered.                                      *)

(* The pairings that a transfer replaces get the next numbers, one each.     *)
Numbering(old, k, f) ==
    /\ \A p \in old : f[p] \in (k + 1) .. (k + Cardinality(old))
    /\ \A n \in (k + 1) .. (k + Cardinality(old)) : \E p \in old : f[p] = n

LEMMA Numbered ==
    ASSUME NEW old \in SUBSET Nat, IsFiniteSet(old), NEW k \in Nat,
           NEW f, f = [p \in old |-> k + Cardinality({x \in old : x <= p})]
    PROVE  Numbering(old, k, f)
<1> DEFINE Upto(p) == {x \in old : x <= p}
           c == Cardinality(old)
<1>1. c \in Nat
  BY FS_CardinalityType
<1>2. ASSUME NEW p \in old
      PROVE  IsFiniteSet(Upto(p)) /\ Cardinality(Upto(p)) \in 1 .. c
  <2>1. Upto(p) \in SUBSET old
    OBVIOUS
  <2>2. IsFiniteSet(Upto(p)) /\ Cardinality(Upto(p)) <= c
    BY <2>1, FS_Subset
  <2>3. Cardinality(Upto(p)) \in Nat
    BY <2>2, FS_CardinalityType
  <2>4. p \in Upto(p)
    OBVIOUS
  <2>5. Cardinality(Upto(p)) # 0
    BY <2>2, <2>4, FS_EmptySet
  <2> HIDE DEF Upto
  <2>6. QED
    BY <1>1, <2>2, <2>3, <2>5
<1>3. ASSUME NEW p \in old, NEW q \in old, p < q
      PROVE  Cardinality(Upto(p)) # Cardinality(Upto(q))
  <2>1. Upto(p) \in SUBSET Upto(q) /\ q \in Upto(q) /\ q \notin Upto(p)
    <3>1. \A x \in old : x \in Nat
      OBVIOUS
    <3>2. p \in Nat /\ q \in Nat /\ p < q
      BY <1>3, <3>1
    <3>3. \A x \in Upto(p) : x \in Upto(q)
      BY <3>1, <3>2
    <3>4. q \in Upto(q) /\ q \notin Upto(p)
      BY <3>2
    <3> HIDE DEF Upto
    <3>5. QED
      BY <3>3, <3>4
  <2> HIDE DEF Upto
  <2>2. QED
    BY <1>2, <2>1, FS_Subset
<1> DEFINE g == [p \in old |-> Cardinality(Upto(p))]
<1>4. g \in Injection(old, 1 .. c)
  <2>1. g \in [old -> 1 .. c]
    BY <1>2
  <2>2. ASSUME NEW p \in old, NEW q \in old, g[p] = g[q] PROVE p = q
    <3>1. p \in Nat /\ q \in Nat
      OBVIOUS
    <3>2. g[p] = Cardinality(Upto(p)) /\ g[q] = Cardinality(Upto(q))
      OBVIOUS
    <3> HIDE DEF g, Upto
    <3>3. Cardinality(Upto(p)) = Cardinality(Upto(q))
      BY <2>2, <3>2
    <3>4. ~(p < q) /\ ~(q < p)
      BY <1>3, <3>3
    <3>5. QED
      BY <3>1, <3>4
  <2> HIDE DEF g
  <2>3. QED
    BY <2>1, <2>2 DEF Injection, IsInjective
<1>5. IsFiniteSet(1 .. c) /\ Cardinality(1 .. c) = c
  <2> HIDE DEF c
  <2>1. QED
    BY <1>1, FS_Interval
<1>6. g \in Surjection(old, 1 .. c)
  <2> HIDE DEF g
  <2>1. QED
    BY <1>4, <1>5, FS_Injection
<1>7. \A n \in 1 .. c : \E p \in old : g[p] = n
  <2> HIDE DEF g
  <2>1. QED
    BY <1>6 DEF Surjection
<1>8. \A p \in old : f[p] = k + g[p] /\ g[p] \in 1 .. c
  BY <1>2
<1>9. ASSUME NEW n \in (k + 1) .. (k + c) PROVE \E p \in old : f[p] = n
  <2> HIDE DEF c, g
  <2>1. n - k \in 1 .. c
    BY <1>1
  <2>2. PICK p \in old : g[p] = n - k
    BY <1>7, <2>1
  <2>3. QED
    BY <1>8, <2>1, <2>2
<1>10. \A p \in old : f[p] \in (k + 1) .. (k + c)
  <2> HIDE DEF c, g
  <2>1. QED
    BY <1>1, <1>8
<1>11. QED
  BY <1>9, <1>10 DEF Numbering

------------------------------------------------------------------------------
(* The rows a transfer writes (Moved).                                       *)

By(src, tgt, m) == IF m = src THEN tgt ELSE m

Carries(s, back, q, n) == Open(s, q) /\ <<back[n], s.bond[q][back[n]]>> \in Assignments(s, q)

(* Rows t are rows s with src's pairings replaced by the pairings of new;    *)
(* back leads from those to the ones they replace.                           *)
Moves(s, t, src, tgt, old, new, back) ==
    /\ t.survey = s.survey /\ t.profile = s.profile /\ t.made = s.made + Cardinality(old)
    /\ Cardinality(old) \in Nat /\ new = (s.made + 1) .. (s.made + Cardinality(old))
    /\ new \subseteq Pairings /\ \A n \in new : back[n] \in old
    /\ \A q \in Requests : \A n \in Pairings :
          t.bond[q][n] = IF n \in new /\ Carries(s, back, q, n)
                         THEN By(src, tgt, s.bond[q][back[n]]) ELSE s.bond[q][n]
    /\ \A q \in Requests :
          t.held[q] = (s.held[q] \ old) \cup {n \in new : Carries(s, back, q, n)}
    /\ \A p \in old : t.pairing[p].next \in new /\ p \notin new
    /\ \A n \in new : /\ t.pairing[n].next = None
                      /\ t.pairing[n].roster = {By(src, tgt, m) : m \in s.pairing[back[n]].roster}
    /\ \A p \in Pairings \ (old \cup new) : t.pairing[p] = s.pairing[p]

LEMMA MovedRows ==
    ASSUME NEW s, Typed(s), NEW src \in Requests, NEW tgt \in Requests,
           s.made + Cardinality(On(s, src) \cap Live(s)) <= MaxPairings,
           NEW t, t = Moved(s, src, tgt)
    PROVE  Typed(t) /\ \E new, back : Moves(s, t, src, tgt, On(s, src) \cap Live(s), new, back)
<1> DEFINE old == On(s, src) \cap Live(s)
           f == [p \in old |-> s.made + Cardinality({x \in old : x <= p})]
           new == {f[p] : p \in old}
           source(n) == CHOOSE p \in old : f[p] = n
           by(m) == IF m = src THEN tgt ELSE m
           serves(q, n) == <<source(n), s.bond[q][source(n)]>> \in Assignments(s, q)
           c == [q \in Requests |-> [n \in Pairings |->
                   IF n \in new /\ Open(s, q) /\ serves(q, n)
                   THEN by(s.bond[q][source(n)]) ELSE s.bond[q][n]]]
           h == [q \in Requests |->
                   (s.held[q] \ old) \cup {n \in new : Open(s, q) /\ serves(q, n)}]
           g == [p \in Pairings |->
                   CASE p \in old -> [s.pairing[p] EXCEPT !.next = f[p]]
                     [] p \in new -> [roster |-> {by(m) : m \in s.pairing[source(p)].roster},
                                      next |-> None]
                     [] OTHER -> s.pairing[p]]
           back == [n \in new |-> source(n)]
<1>1. t = [s EXCEPT !.made = @ + Cardinality(old), !.bond = c, !.held = h, !.pairing = g]
  BY Zenon DEF Moved
<1>2. old \subseteq 1 .. s.made /\ old \subseteq Pairings /\ s.made \in Nat
  BY LivePairings DEF Live, Typed
<1>3. old \in SUBSET Nat /\ IsFiniteSet(old)
  <2>1. IsFiniteSet(1 .. s.made) /\ 1 .. s.made \subseteq Nat
    BY <1>2, FS_Interval
  <2> HIDE DEF old
  <2>2. QED
    BY <1>2, <2>1, FS_Subset
<1>4. /\ Cardinality(old) \in Nat
      /\ \A p \in old : f[p] \in (s.made + 1) .. (s.made + Cardinality(old))
      /\ \A n \in (s.made + 1) .. (s.made + Cardinality(old)) : \E p \in old : f[p] = n
  <2>1. f = [p \in old |-> s.made + Cardinality({x \in old : x <= p})]
    OBVIOUS
  <2> HIDE DEF old, f
  <2>2. Numbering(old, s.made, f)
    BY <1>2, <1>3, <2>1, Numbered, Zenon
  <2>3. Cardinality(old) \in Nat
    BY <1>3, FS_CardinalityType
  <2>4. QED
    BY <2>2, <2>3 DEF Numbering
<1>5. new = (s.made + 1) .. (s.made + Cardinality(old))
  <2> HIDE DEF old, f
  <2>1. QED
    BY <1>4
<1>6. new \subseteq Pairings /\ \A p \in old : p \notin new
  <2> HIDE DEF new, f
  <2>1. s.made + Cardinality(old) <= MaxPairings
    OBVIOUS
  <2> HIDE DEF old
  <2>2. QED
    BY <1>2, <1>4, <1>5, <2>1, RequestsAssumption DEF Pairings
<1>7. \A n \in new : back[n] = source(n) /\ source(n) \in old
  <2> HIDE DEF old, f
  <2>1. \A n \in new : \E p \in old : f[p] = n
    OBVIOUS
  <2> HIDE DEF new
  <2>2. \A n \in new : source(n) \in old
    BY <2>1, Zenon
  <2> HIDE DEF source
  <2>3. QED
    BY <2>2
<1>8. t = [survey |-> s.survey, profile |-> s.profile, bond |-> c, held |-> h, pairing |-> g,
           made |-> s.made + Cardinality(old)]
  <2> HIDE DEF old, c, h, g
  <2>1. QED
    BY <1>1 DEF Typed
<1>9. ASSUME NEW q \in Requests, NEW n \in Pairings
      PROVE  c[q][n] = IF n \in new /\ Carries(s, back, q, n)
                       THEN By(src, tgt, s.bond[q][back[n]]) ELSE s.bond[q][n]
  <2>1. c[q][n] = IF n \in new /\ Open(s, q) /\ serves(q, n)
                  THEN by(s.bond[q][source(n)]) ELSE s.bond[q][n]
    <3> HIDE DEF new, old, source, by, serves
    <3>1. QED
      OBVIOUS
  <2>2. ASSUME n \in new PROVE back[n] = source(n)
    BY <1>7, <2>2
  <2> HIDE DEF new, old, source, back, c
  <2>3. QED
    BY <2>1, <2>2 DEF Carries, By
<1>10. ASSUME NEW q \in Requests
       PROVE  h[q] = (s.held[q] \ old) \cup {n \in new : Carries(s, back, q, n)}
  <2>1. h[q] = (s.held[q] \ old) \cup {n \in new : Open(s, q) /\ serves(q, n)}
    <3> HIDE DEF new, old, source, serves
    <3>1. QED
      OBVIOUS
  <2>2. \A n \in new : back[n] = source(n)
    BY <1>7
  <2> HIDE DEF new, old, source, back, h
  <2>3. QED
    BY <2>1, <2>2 DEF Carries
<1>11. ASSUME NEW p \in Pairings
       PROVE  /\ p \in old => g[p] = [s.pairing[p] EXCEPT !.next = f[p]]
              /\ p \in new => g[p] = [roster |-> {By(src, tgt, m) : m \in s.pairing[back[p]].roster},
                                      next |-> None]
              /\ p \notin old /\ p \notin new => g[p] = s.pairing[p]
  <2>1. g[p] = CASE p \in old -> [s.pairing[p] EXCEPT !.next = f[p]]
                 [] p \in new -> [roster |-> {by(m) : m \in s.pairing[source(p)].roster}, next |-> None]
                 [] OTHER -> s.pairing[p]
    <3> HIDE DEF new, old, source, by, f
    <3>1. QED
      OBVIOUS
  <2>2. p \in new => back[p] = source(p) /\ p \notin old
    BY <1>6, <1>7
  <2>3. PICK fresh : fresh = [roster |-> {by(m) : m \in s.pairing[source(p)].roster}, next |-> None]
    OBVIOUS
  <2>4. p \in new => fresh = [roster |-> {By(src, tgt, m) : m \in s.pairing[back[p]].roster},
                              next |-> None]
    <3> HIDE DEF new, old, source, back
    <3>1. QED
      BY <2>2, <2>3 DEF By
  <2>5. g[p] = CASE p \in old -> [s.pairing[p] EXCEPT !.next = f[p]]
                 [] p \in new -> fresh
                 [] OTHER -> s.pairing[p]
    <3> HIDE DEF new, old, source, by, f, g
    <3>1. QED
      BY <2>1, <2>3
  <2> HIDE DEF new, old, source, back, f, g
  <2>6. QED
    BY <2>2, <2>4, <2>5
<1>12. Typed(t)
  <2>1. c \in [Requests -> [Pairings -> Requests \cup {Nobody}]]
    <3>1. ASSUME NEW q \in Requests, NEW n \in Pairings PROVE c[q][n] \in Requests \cup {Nobody}
      <4>1. n \in new => back[n] \in Pairings
        BY <1>2, <1>7
      <4>2. \A p \in Pairings : s.bond[q][p] \in Requests \cup {Nobody}
        BY DEF Typed
      <4> HIDE DEF new, back, c
      <4>3. QED
        BY <1>9, <4>1, <4>2 DEF By
    <3>2. \A q \in Requests : c[q] = [n \in Pairings |-> c[q][n]]
      OBVIOUS
    <3>3. c = [q \in Requests |-> c[q]]
      OBVIOUS
    <3> HIDE DEF c
    <3>4. \A q \in Requests : c[q] \in [Pairings -> Requests \cup {Nobody}]
      BY <3>1, <3>2
    <3>5. QED
      BY <3>3, <3>4
  <2>2. h \in [Requests -> SUBSET Pairings]
    <3>1. h = [q \in Requests |-> h[q]]
      OBVIOUS
    <3>2. \A q \in Requests : h[q] \in SUBSET Pairings
      <4> HIDE DEF new, back, h, old
      <4>1. QED
        BY <1>6, <1>10 DEF Typed
    <3> HIDE DEF h
    <3>3. QED
      BY <3>1, <3>2
  <2>3. g \in [Pairings -> PairingRows]
    <3>1. g = [p \in Pairings |-> g[p]]
      OBVIOUS
    <3>2. ASSUME NEW p \in Pairings PROVE g[p] \in PairingRows
      <4>1. \A x \in Pairings : s.pairing[x] \in PairingRows
        BY DEF Typed
      <4>2. CASE p \in old
        <5>1. f[p] \in 0 .. MaxPairings
          <6>1. f[p] \in new
            BY <4>2
          <6>2. new \subseteq Pairings
            BY <1>6
          <6> HIDE DEF new, f, old
          <6>3. f[p] \in Pairings /\ MaxPairings \in Nat
            BY <6>1, <6>2, RequestsAssumption
          <6>4. QED
            BY <6>3 DEF Pairings
        <5>2. g[p] = [s.pairing[p] EXCEPT !.next = f[p]]
          BY <1>11, <4>2
        <5>3. PICK k : k = f[p]
          OBVIOUS
        <5> HIDE DEF f, g, old
        <5>4. k \in 0 .. MaxPairings /\ s.pairing[p] \in PairingRows /\ g[p] = [s.pairing[p] EXCEPT !.next = k]
          BY <4>1, <5>1, <5>2, <5>3
        <5>5. QED
          BY <5>4 DEF PairingRows
      <4>3. CASE p \in new
        <5>1. back[p] \in Pairings
          BY <1>2, <1>7, <4>3
        <5>2. s.pairing[back[p]].roster \subseteq Requests
          <6> HIDE DEF back
          <6>1. QED
            BY <4>1, <5>1 DEF PairingRows
        <5>3. g[p] = [roster |-> {By(src, tgt, m) : m \in s.pairing[back[p]].roster}, next |-> None]
          BY <1>11, <4>3
        <5> HIDE DEF new, back, g
        <5>4. PICK ms : ms = {By(src, tgt, m) : m \in s.pairing[back[p]].roster}
          OBVIOUS
        <5>5. ms \in SUBSET Requests
          BY <5>2, <5>4 DEF By
        <5>6. None \in 0 .. MaxPairings
          BY RequestsAssumption DEF None
        <5>7. g[p] = [roster |-> ms, next |-> None]
          BY <5>3, <5>4
        <5>8. QED
          BY <5>5, <5>6, <5>7 DEF PairingRows
      <4>4. CASE p \notin old /\ p \notin new
        <5> HIDE DEF new, old, g
        <5>1. QED
          BY <1>11, <4>1, <4>4
      <4>5. QED
        BY <4>2, <4>3, <4>4
    <3> HIDE DEF g
    <3>3. QED
      BY <3>1, <3>2
  <2>4. s.made + Cardinality(old) \in 0 .. MaxPairings
    <3>1. s.made + Cardinality(old) <= MaxPairings
      OBVIOUS
    <3> HIDE DEF old
    <3>2. QED
      BY <1>2, <1>4, <3>1, RequestsAssumption
  <2> HIDE DEF c, h, g, old
  <2>5. QED
    BY <1>8, <2>1, <2>2, <2>3, <2>4 DEF Typed
<1>13. Moves(s, t, src, tgt, old, new, back)
  <2>1. \A p \in old : t.pairing[p].next \in new
    <3>1. ASSUME NEW p \in old PROVE t.pairing[p].next \in new
      <4>1. f[p] \in new /\ p \in Pairings
        BY <1>2
      <4>2. t.pairing = g
        <5> HIDE DEF old, c, h, g
        <5>1. QED
          BY <1>8
      <4> HIDE DEF f, g, old, new
      <4>3. s.pairing[p] \in PairingRows
        BY <4>1 DEF Typed
      <4>4. QED
        BY <1>11, <4>1, <4>2, <4>3 DEF PairingRows
    <3>2. QED
      BY <3>1
  <2>2. \A n \in new : back[n] \in old
    BY <1>7
  <2> HIDE DEF old, c, h, g, new, back, f
  <2>3. /\ t.survey = s.survey /\ t.profile = s.profile /\ t.made = s.made + Cardinality(old)
        /\ t.bond = c /\ t.held = h /\ t.pairing = g
    BY <1>8
  <2>4. \A n \in new : /\ t.pairing[n].next = None
                       /\ t.pairing[n].roster = {By(src, tgt, m) : m \in s.pairing[back[n]].roster}
    <3>1. ASSUME NEW n \in new
          PROVE  /\ t.pairing[n].next = None
                 /\ t.pairing[n].roster = {By(src, tgt, m) : m \in s.pairing[back[n]].roster}
      <4>1. PICK ms : ms = {By(src, tgt, m) : m \in s.pairing[back[n]].roster}
        OBVIOUS
      <4>2. t.pairing[n] = [roster |-> ms, next |-> None]
        BY <1>6, <1>11, <2>3, <4>1
      <4>3. t.pairing[n].next = None /\ t.pairing[n].roster = ms
        BY <4>2
      <4>4. QED
        BY <4>1, <4>3
    <3>2. QED
      BY <3>1
  <2>5. \A p \in Pairings \ (old \cup new) : t.pairing[p] = s.pairing[p]
    BY <1>11, <2>3
  <2>6. QED
    BY <1>4, <1>5, <1>6, <1>9, <1>10, <2>1, <2>2, <2>3, <2>4, <2>5 DEF Moves
<1>14. QED
  <2> HIDE DEF old, new, back
  <2>1. Typed(t) /\ \E n, b : Moves(s, t, src, tgt, old, n, b)
    BY <1>12, <1>13
  <2>2. QED
    BY <2>1 DEF old

------------------------------------------------------------------------------
(* Who is served after a transfer.                                           *)

LEMMA MovedNamed ==
    ASSUME NEW s, Typed(s), Named(s), NEW src \in Requests, NEW tgt \in Requests,
           s.survey[tgt].state # "NONE", NEW old, old \subseteq Live(s), NEW new, NEW back,
           NEW t, Moves(s, t, src, tgt, old, new, back)
    PROVE  Named(t)
<1>1. old \subseteq Pairings
  BY LivePairings
<1>2. SUFFICES ASSUME NEW q \in Requests
               PROVE  /\ \A p \in t.held[q] : t.bond[q][p] # Nobody
                      /\ \A p \in Pairings : LET m == t.bond[q][p] IN
                            m # Nobody => t.survey[m].state # "NONE"
  BY DEF Named
<1>3. /\ new \subseteq Pairings /\ \A n \in new : back[n] \in old
      /\ \A n \in Pairings :
            t.bond[q][n] = IF n \in new /\ Carries(s, back, q, n)
                           THEN By(src, tgt, s.bond[q][back[n]]) ELSE s.bond[q][n]
      /\ t.held[q] = (s.held[q] \ old) \cup {n \in new : Carries(s, back, q, n)}
      /\ t.survey = s.survey
  BY DEF Moves
<1>4. /\ \A p \in s.held[q] : s.bond[q][p] # Nobody
      /\ \A p \in Pairings : LET m == s.bond[q][p] IN m # Nobody => s.survey[m].state # "NONE"
  BY DEF Named
<1>5. s.held[q] \subseteq Pairings
  BY DEF Typed
<1>6. ASSUME NEW n \in new, Carries(s, back, q, n)
      PROVE  back[n] \in Pairings /\ s.bond[q][back[n]] \in Requests
  <2>1. back[n] \in Pairings
    BY <1>1, <1>3
  <2>2. s.bond[q][back[n]] \in s.pairing[back[n]].roster
    BY <1>6, InAssignments DEF Carries
  <2>3. s.pairing[back[n]].roster \subseteq Requests
    BY <2>1 DEF Typed, PairingRows
  <2>4. QED
    BY <2>1, <2>2, <2>3
<1>7. ASSUME NEW p \in t.held[q] PROVE t.bond[q][p] # Nobody
  <2>1. CASE p \in new /\ Carries(s, back, q, p)
    BY <1>3, <1>6, <2>1, RequestsAssumption DEF By
  <2>2. CASE ~(p \in new /\ Carries(s, back, q, p))
    <3>1. p \in s.held[q] /\ p \in Pairings
      BY <1>3, <1>5, <1>7, <2>2
    <3>2. QED
      BY <1>3, <1>4, <2>2, <3>1
  <2>3. QED
    BY <2>1, <2>2
<1>8. ASSUME NEW p \in Pairings, t.bond[q][p] # Nobody PROVE t.survey[t.bond[q][p]].state # "NONE"
  <2>1. CASE p \in new /\ Carries(s, back, q, p)
    <3>1. t.bond[q][p] = By(src, tgt, s.bond[q][back[p]])
      BY <1>3, <2>1
    <3>2. s.survey[s.bond[q][back[p]]].state # "NONE"
      BY <1>4, <1>6, <2>1, RequestsAssumption
    <3>3. QED
      BY <1>3, <3>1, <3>2 DEF By
  <2>2. CASE ~(p \in new /\ Carries(s, back, q, p))
    BY <1>3, <1>4, <1>8, <2>2
  <2>3. QED
    BY <2>1, <2>2
<1>9. QED
  BY <1>7, <1>8

LEMMA MovedServed ==
    ASSUME NEW s, Typed(s), Served(s, {}, {}), NEW src \in Requests, NEW tgt \in Requests,
           NEW old, old \subseteq Live(s), NEW new, NEW back,
           NEW t, Typed(t), Moves(s, t, src, tgt, old, new, back),
           \A q \in Requests : \A p \in old : \A m :
              Open(s, q) /\ <<p, m>> \in Assignments(s, q) => p \in s.held[q] /\ s.bond[q][p] = m
    PROVE  Served(t, {}, {})
<1>1. old \subseteq Pairings /\ Live(s) \subseteq Pairings /\ Live(t) \subseteq Pairings
      /\ s.made \in Nat
  <2>1. Live(s) \subseteq Pairings /\ Live(t) \subseteq Pairings
    BY LivePairings
  <2>2. s.made \in Nat
    BY DEF Typed
  <2>3. QED
    BY <2>1, <2>2
<1>2. SUFFICES ASSUME NEW p \in Live(t), NEW m \in t.pairing[p].roster
               PROVE  \E q \in Requests : Open(t, q) /\ <<p, m>> \in Assignments(t, q)
  BY DEF Served
<1>3. /\ t.survey = s.survey /\ t.made = s.made + Cardinality(old)
      /\ Cardinality(old) \in Nat /\ new = (s.made + 1) .. (s.made + Cardinality(old))
      /\ new \subseteq Pairings /\ \A n \in new : back[n] \in old
      /\ \A x \in old : t.pairing[x].next \in new /\ x \notin new
  BY DEF Moves
<1>4. \A q \in Requests : \A n \in Pairings :
            t.bond[q][n] = IF n \in new /\ Carries(s, back, q, n)
                           THEN By(src, tgt, s.bond[q][back[n]]) ELSE s.bond[q][n]
  BY DEF Moves
<1>5. \A q \in Requests : t.held[q] = (s.held[q] \ old) \cup {n \in new : Carries(s, back, q, n)}
  BY DEF Moves
<1>6. \A n \in new : /\ t.pairing[n].next = None
                     /\ t.pairing[n].roster = {By(src, tgt, x) : x \in s.pairing[back[n]].roster}
  BY DEF Moves
<1>7. \A x \in Pairings \ (old \cup new) : t.pairing[x] = s.pairing[x]
  BY DEF Moves
<1>8. \A q : Open(t, q) = Open(s, q)
  BY <1>3 DEF Open
<1>9. p \in Pairings /\ t.pairing[p].next = None /\ p \in 1 .. (s.made + Cardinality(old))
  BY <1>1, <1>3 DEF Live
<1>10. None \notin Pairings
  BY RequestsAssumption DEF None, Pairings
<1>11. p \notin old
  BY <1>3, <1>9, <1>10
<1>12. CASE p \in new
  <2>1. PICK k : k \in s.pairing[back[p]].roster /\ m = By(src, tgt, k)
    BY <1>6, <1>12
  <2>2. back[p] \in old /\ back[p] \in Live(s)
    BY <1>3, <1>12
  <2>3. PICK q \in Requests : Open(s, q) /\ <<back[p], k>> \in Assignments(s, q)
    BY <2>1, <2>2 DEF Served
  <2>4. s.bond[q][back[p]] = k
    BY <2>2, <2>3
  <2>5. Carries(s, back, q, p)
    BY <2>3, <2>4 DEF Carries
  <2>6. t.bond[q][p] = m /\ p \in t.held[q]
    BY <1>4, <1>5, <1>9, <1>12, <2>1, <2>4, <2>5
  <2>7. m \in Requests
    BY <1>2, <1>9 DEF Typed, PairingRows
  <2>8. Mapped(t, q)
    BY <1>9, <2>6, <2>7, RequestsAssumption DEF Mapped
  <2>9. <<p, m>> \in Assignments(t, q)
    BY <1>2, <2>6, <2>8 DEF Assignments
  <2>10. QED
    BY <1>8, <2>3, <2>9
<1>13. CASE p \notin new
  <2>1. p \in 1 .. s.made /\ t.pairing[p] = s.pairing[p]
    BY <1>1, <1>3, <1>7, <1>9, <1>11, <1>13
  <2>2. p \in Live(s) /\ m \in s.pairing[p].roster
    BY <1>2, <1>9, <2>1 DEF Live
  <2>3. PICK q \in Requests : Open(s, q) /\ <<p, m>> \in Assignments(s, q)
    BY <2>2 DEF Served
  <2>4. CASE Mapped(s, q)
    <3>1. p \in s.held[q] /\ s.bond[q][p] = m
      BY <2>3, <2>4 DEF Assignments
    <3>2. p \in t.held[q] /\ t.bond[q][p] = m
      BY <1>4, <1>5, <1>9, <1>11, <1>13, <3>1
    <3>3. m \in Requests
      BY <1>2, <1>9 DEF Typed, PairingRows
    <3>4. Mapped(t, q)
      BY <1>9, <3>2, <3>3, RequestsAssumption DEF Mapped
    <3>5. <<p, m>> \in Assignments(t, q)
      BY <1>2, <3>2, <3>4 DEF Assignments
    <3>6. QED
      BY <1>8, <2>3, <3>5
  <2>5. CASE ~Mapped(s, q)
    <3>1. p \in Own(s, q) /\ m = q
      BY <2>3, <2>5 DEF Assignments
    <3>2. \A x \in Pairings : s.bond[q][x] = Nobody
      BY <2>5 DEF Mapped
    <3>3. ASSUME NEW n \in new PROVE ~Carries(s, back, q, n)
      <4>1. back[n] \in Pairings
        BY <1>1, <1>3
      <4>2. s.pairing[back[n]].roster \subseteq Requests
        BY <4>1 DEF Typed, PairingRows
      <4>3. Nobody \notin s.pairing[back[n]].roster
        BY <4>2, RequestsAssumption
      <4>4. QED
        BY <3>2, <4>1, <4>3, InAssignments DEF Carries
    <3>4. \A x \in Pairings : t.bond[q][x] = Nobody
      BY <1>4, <3>2, <3>3
    <3>5. ~Mapped(t, q)
      BY <3>4 DEF Mapped
    <3>6. p \notin Successors(t)
      <4>1. ASSUME NEW x \in Pairings, t.pairing[x].next = p PROVE FALSE
        <5>1. x \notin old
          BY <1>3, <1>13, <4>1
        <5>2. x \notin new
          BY <1>6, <1>9, <1>10, <4>1
        <5>3. s.pairing[x].next = p
          BY <1>7, <4>1, <5>1, <5>2
        <5>4. QED
          BY <3>1, <5>3 DEF Own, Successors
      <4>2. QED
        BY <4>1 DEF Successors
    <3>7. p \in Own(t, q)
      BY <1>2, <1>9, <3>1, <3>6 DEF Own, On
    <3>8. <<p, m>> \in Assignments(t, q)
      BY <3>1, <3>5, <3>7 DEF Assignments
    <3>9. QED
      BY <1>8, <2>3, <3>8
  <2>6. QED
    BY <2>4, <2>5
<1>14. QED
  BY <1>12, <1>13

(* Everything a transfer can find on a pairing is in X.                      *)
LEMMA AllExtra ==
    ASSUME NEW s, Typed(s), NEW R
    PROVE  Served(s, Pairings \X Requests, R)
<1>1. \A p \in Live(s) : p \in Pairings /\ s.pairing[p].roster \subseteq Requests
  BY LivePairings DEF Typed, PairingRows
<1>2. QED
  BY <1>1 DEF Served

LEMMA MovedBond ==
    ASSUME NEW s, NEW src \in Requests, NEW tgt, NEW old, NEW new, NEW back, old \subseteq Pairings,
           NEW t, Moves(s, t, src, tgt, old, new, back),
           NEW q \in Requests \ {src}, \A p \in Pairings : s.bond[q][p] \in {Nobody, q},
           NEW n \in Pairings
    PROVE  t.bond[q][n] \in {Nobody, q}
<1>1. t.bond[q][n] = IF n \in new /\ Carries(s, back, q, n)
                     THEN By(src, tgt, s.bond[q][back[n]]) ELSE s.bond[q][n]
  BY DEF Moves
<1>2. n \in new => back[n] \in Pairings
  BY DEF Moves
<1>3. QED
  BY <1>1, <1>2, RequestsAssumption DEF By

------------------------------------------------------------------------------
(* Two profiles are joined: the whole of a transfer.                         *)

(* Profiles src and tgt are joined, tgt working on for account a.             *)
Joins(s, f, src, tgt, a) ==
    /\ f \in [Requests -> ProfileRows]
    /\ f[src] = [status |-> "INACTIVE", owner |-> a, into |-> tgt]
    /\ f[tgt] = [status |-> "ACTIVE", owner |-> a, into |-> Nobody]
    /\ \A x \in Requests \ {src, tgt} : f[x] = s.profile[x]

(* What MayTransfer says of rows s.                                          *)
Joinable(s, src, tgt) ==
    /\ src # tgt /\ s.profile[src].into = Nobody /\ s.profile[src].status = "ACTIVE"
    /\ \/ s.profile[tgt].into = Nobody /\ s.profile[tgt].status = "ACTIVE"
       \/ s.profile[tgt].into = src
    /\ \A q \in Requests : Exec(s, q) \in {src, tgt} => (Open(s, q) => s.survey[q].confirmed)

LEMMA JoinedMade ==
    ASSUME NEW s, NEW X, NEW R, Sound(s, X, R), NEW src \in Requests, NEW tgt \in Requests,
           Joinable(s, src, tgt)
    PROVE  /\ Exec(s, src) = src /\ Exec(s, tgt) \in {src, tgt}
           /\ \A x \in {src, tgt} : ~Early(s, x) /\ s.survey[x].state # "NONE"
<1>1. Typed(s) /\ Signed(s) /\ Alone(s) /\ s.profile \in [Requests -> ProfileRows]
  BY DEF Sound, Typed
<1>2. Exec(s, src) = src
  BY <1>1, ExecLeads DEF Joinable
<1>3. Exec(s, tgt) \in {src, tgt}
  BY <1>1, <1>2, ExecLeads, RequestsAssumption DEF Joinable
<1>4. s.survey[src].state # "NONE"
  BY <1>1 DEF Signed, Joinable
<1>5. ~Early(s, src)
  BY <1>2, <1>4 DEF Joinable, Open, Early
<1>6. s.survey[tgt].state # "NONE"
  <2>1. CASE s.profile[tgt].into = Nobody /\ s.profile[tgt].status = "ACTIVE"
    BY <1>1, <2>1 DEF Signed
  <2>2. CASE s.profile[tgt].into = src
    <3>1. ~Early(s, tgt)
      BY <1>1, <2>2, RequestsAssumption DEF Alone
    <3>2. QED
      BY <1>1, <3>1 DEF Early, Signed
  <2>3. QED
    BY <2>1, <2>2 DEF Joinable
<1>7. ~Early(s, tgt)
  BY <1>3, <1>6 DEF Joinable, Open, Early
<1>8. QED
  BY <1>2, <1>3, <1>4, <1>5, <1>6, <1>7

(* Whoever worked through either profile works through tgt.                  *)
LEMMA JoinedExec ==
    ASSUME NEW s, NEW X, NEW R, Sound(s, X, R), NEW src \in Requests, NEW tgt \in Requests,
           Joinable(s, src, tgt), NEW a, NEW t, Joins(s, t.profile, src, tgt, a)
    PROVE  /\ Acyclic(t)
           /\ \A q \in Requests : Exec(t, q) = IF Exec(s, q) \in {src, tgt} THEN tgt ELSE Exec(s, q)
<1>1. s.profile \in [Requests -> ProfileRows] /\ t.profile \in [Requests -> ProfileRows] /\ Acyclic(s)
  BY DEF Sound, Typed, Joins
<1>2. /\ t.profile[src].into = tgt /\ t.profile[tgt].into = Nobody
      /\ \A x \in Requests \ {src, tgt} : t.profile[x].into = s.profile[x].into
  BY DEF Joins
<1>3. Acyclic(t)
  <2>1. SUFFICES ASSUME NEW S \in SUBSET Requests, S # {}
                 PROVE  \E x \in S : t.profile[x].into \notin S
    BY DEF Acyclic
  <2>2. CASE tgt \in S
    BY <1>2, <2>2, RequestsAssumption
  <2>3. CASE tgt \notin S /\ src \in S
    BY <1>2, <2>3
  <2>4. CASE tgt \notin S /\ src \notin S
    <3>1. PICK x \in S : s.profile[x].into \notin S
      BY <1>1, <2>1 DEF Acyclic
    <3>2. QED
      BY <1>2, <2>4, <3>1
  <2>5. QED
    BY <2>2, <2>3, <2>4
<1> DEFINE Want(q) == IF Exec(s, q) \in {src, tgt} THEN tgt ELSE Exec(s, q)
           Bad == {q \in Requests : Exec(t, q) # Want(q)}
<1>4. Exec(s, src) = src /\ Exec(s, tgt) \in {src, tgt}
  BY JoinedMade
<1>5. ASSUME NEW q \in Requests, s.profile[q].into \notin Bad PROVE Exec(t, q) = Want(q)
  <2>1. Exec(t, tgt) = tgt
    BY <1>1, <1>2, ExecLeads
  <2>2. Exec(t, src) = tgt
    BY <1>1, <1>2, <2>1, ExecLeads, RequestsAssumption
  <2>3. CASE q \in {src, tgt}
    BY <1>4, <2>1, <2>2, <2>3
  <2>4. CASE q \notin {src, tgt} /\ s.profile[q].into = Nobody
    <3>1. Exec(s, q) = q /\ Exec(t, q) = q
      BY <1>1, <1>2, <2>4, ExecLeads
    <3>2. QED
      BY <2>4, <3>1
  <2>5. CASE q \notin {src, tgt} /\ s.profile[q].into # Nobody
    <3>1. s.profile[q].into \in Requests
      BY <1>1, <2>5 DEF ProfileRows
    <3>2. Exec(t, s.profile[q].into) = Want(s.profile[q].into)
      BY <1>5, <3>1
    <3>3. Exec(s, q) = Exec(s, s.profile[q].into)
      BY <1>1, <2>5, ExecLeads
    <3>4. Exec(t, q) = Exec(t, s.profile[q].into)
      BY <1>1, <1>2, <2>5, ExecLeads
    <3>5. QED
      BY <3>2, <3>3, <3>4
  <2>6. QED
    BY <2>3, <2>4, <2>5
<1>6. Bad = {}
  <2>1. Bad \in SUBSET Requests
    OBVIOUS
  <2> HIDE DEF Want
  <2>2. ASSUME Bad # {} PROVE FALSE
    <3>1. PICK q \in Bad : s.profile[q].into \notin Bad
      BY <1>1, <2>1, <2>2 DEF Acyclic
    <3>2. QED
      BY <1>5, <3>1
  <2>3. QED
    BY <2>2
<1>7. QED
  BY <1>3, <1>6

LEMMA SameServed ==
    ASSUME NEW s, NEW t, t.survey = s.survey, t.bond = s.bond, t.held = s.held,
           t.pairing = s.pairing, t.made = s.made, NEW X, NEW R, Served(s, X, R)
    PROVE  Served(t, X, R)
<1>1. Live(t) = Live(s) /\ \A q : Open(t, q) = Open(s, q)
  BY SameReading DEF Open
<1>2. \A q : Assignments(t, q) = Assignments(s, q)
  BY SameAssignments
<1>3. QED
  BY <1>1, <1>2 DEF Served

(* The rows a transfer leaves.                                               *)
(* Requests seen fit to be kept before pairings old move, and their moving.   *)
Sees(d, src, old, seen) ==
    /\ old = On(d, src) \cap Live(d) /\ d.made + Cardinality(old) <= MaxPairings
    /\ seen \subseteq Requests /\ \A q \in seen : Open(d, q)
    /\ \A q \in Requests : \A p \in old : Open(d, q) /\ q \in d.pairing[p].roster => q \in seen

Rehomes(s, t, src, tgt, f) == t = [Moved(s, src, tgt) EXCEPT !.profile = f]

Rehomed(d, t, X, f) == Sound(t, X, {}) /\ t.survey = d.survey /\ t.profile = f

LEMMA JoinedSound ==
    ASSUME NEW d, NEW X, Sound(d, X, {}), X \in {{}, Pairings \X Requests},
           NEW src \in Requests, NEW tgt \in Requests, NEW a \in Accounts, Joinable(d, src, tgt),
           NEW old, NEW seen, Sees(d, src, old, seen), NEW s, Typed(s), Kept(d, s, seen),
           NEW f, Joins(d, f, src, tgt, a), NEW t, Rehomes(s, t, src, tgt, f)
    PROVE  Rehomed(d, t, X, f)
<1>1. Typed(d) /\ Signed(d) /\ Acyclic(d) /\ Alone(d) /\ Named(d) /\ Served(d, X, {})
  BY DEF Sound
<1>2. Sound(s, X, {})
  <2>1. \A q \in seen : d.survey[q].state # "NONE"
    BY DEF Sees, Open
  <2>2. QED
    BY <2>1, KeptSound
<1>3. Signed(s) /\ Acyclic(s) /\ Alone(s) /\ Named(s) /\ Served(s, X, {})
  BY <1>2 DEF Sound
<1>4. s.survey = d.survey /\ s.profile = d.profile /\ s.pairing = d.pairing /\ s.made = d.made
  BY DEF Kept
<1>5. old = On(s, src) \cap Live(s) /\ old \subseteq Pairings /\ old \subseteq Live(s)
  <2>1. old = On(d, src) \cap Live(d)
    BY DEF Sees
  <2>2. QED
    BY <1>1, <1>4, <2>1, SameReading, LivePairings
<1>6. s.made + Cardinality(On(s, src) \cap Live(s)) <= MaxPairings
  BY <1>4, <1>5 DEF Sees
<1>7. PICK m : m = Moved(s, src, tgt)
  OBVIOUS
<1>8. Typed(m) /\ \E new, back : Moves(s, m, src, tgt, On(s, src) \cap Live(s), new, back)
  BY <1>6, <1>7, MovedRows
<1>9. t = [m EXCEPT !.profile = f]
  BY <1>7 DEF Rehomes
<1>10. PICK new, back : Moves(s, m, src, tgt, old, new, back)
  BY <1>5, <1>8
<1>11. m.survey = d.survey /\ m.profile = d.profile
  BY <1>4, <1>10 DEF Moves
<1>12. f \in [Requests -> ProfileRows]
  BY DEF Joins
<1>13. /\ Typed(t) /\ t.profile = f
       /\ t.survey = m.survey /\ t.bond = m.bond /\ t.held = m.held
       /\ t.pairing = m.pairing /\ t.made = m.made
  BY <1>12, <1>8, <1>9, NewProfiles
<1>14. \A x \in {src, tgt} : ~Early(d, x) /\ d.survey[x].state # "NONE"
  BY JoinedMade
<1>15. Signed(t)
  <2>1. t.survey = d.survey
    BY <1>11, <1>13
  <2>2. f[src].owner = a /\ f[tgt].owner = a /\ \A x \in Requests \ {src, tgt} : f[x] = d.profile[x]
    BY DEF Joins
  <2>3. QED
    BY <1>1, <1>13, <1>14, <2>1, <2>2 DEF Signed
<1>16. Acyclic(t)
  <2>1. Joins(d, t.profile, src, tgt, a)
    BY <1>13
  <2>2. QED
    BY <2>1, JoinedExec
<1>17. Alone(t)
  <2>1. SUFFICES ASSUME NEW r \in Requests, Early(t, r)
                 PROVE  /\ t.profile[r].into = Nobody /\ \A x \in Requests : t.profile[x].into # r
                        /\ \A p \in Pairings : t.bond[r][p] \in {Nobody, r}
    BY DEF Alone
  <2>2. Early(d, r) /\ Early(s, r) /\ r \notin {src, tgt}
    BY <1>4, <1>11, <1>13, <1>14, <2>1 DEF Early
  <2>3. d.profile[r].into = Nobody /\ \A x \in Requests : d.profile[x].into # r
    BY <1>1, <2>2 DEF Alone
  <2>4. \A p \in Pairings : s.bond[r][p] \in {Nobody, r}
    BY <1>3, <2>2 DEF Alone
  <2>5. ASSUME NEW p \in Pairings PROVE m.bond[r][p] \in {Nobody, r}
    <3>1. r \in Requests \ {src}
      BY <2>2
    <3>2. old \subseteq Pairings
      BY <1>5
    <3>3. QED
      BY <1>10, <2>4, <3>1, <3>2, MovedBond
  <2>6. f[r].into = Nobody /\ \A x \in Requests : f[x].into # r
    BY <2>2, <2>3, RequestsAssumption DEF Joins
  <2>7. QED
    BY <1>13, <2>5, <2>6
<1>18. Named(t)
  <2>1. s.survey[tgt].state # "NONE"
    BY <1>4, <1>14
  <2>2. Named(m)
    BY <1>3, <1>5, <1>10, <2>1, MovedNamed
  <2>3. QED
    BY <1>13, <2>2 DEF Named
<1>19. Served(t, X, {})
  <2>1. CASE X = Pairings \X Requests
    BY <1>13, <2>1, AllExtra
  <2>2. CASE X = {}
    <3>1. ASSUME NEW q \in Requests, NEW p \in old, NEW k, Open(s, q), <<p, k>> \in Assignments(s, q)
          PROVE  p \in s.held[q] /\ s.bond[q][p] = k
      <4>1. Open(d, q) /\ Assignments(s, q) = Assignments(d, q)
        BY <1>1, <1>4, <3>1, KeptSame DEF Open
      <4>2. CASE Mapped(d, q)
        <5>1. p \in d.held[q] /\ d.bond[q][p] = k
          BY <3>1, <4>1, <4>2 DEF Assignments
        <5>2. QED
          BY <4>2, <5>1 DEF Kept
      <4>3. CASE ~Mapped(d, q)
        <5>1. p \in Own(d, q) /\ k = q
          BY <3>1, <4>1, <4>3 DEF Assignments
        <5>2. q \in d.pairing[p].roster /\ p \in Pairings
          BY <5>1 DEF Own, On
        <5>3. q \in seen
          BY <3>1, <4>1, <5>2 DEF Sees
        <5>4. QED
          BY <4>3, <5>1, <5>2, <5>3 DEF Kept
      <4>4. QED
        BY <4>2, <4>3
    <3>2. Served(m, {}, {})
      BY <1>3, <1>5, <1>10, <1>8, <2>2, <3>1, MovedServed
    <3>3. Served(t, {}, {})
      BY <1>13, <3>2, SameServed
    <3>4. QED
      BY <2>2, <3>3
  <2>3. QED
    BY <2>1, <2>2
<1>20. QED
  BY <1>11, <1>13, <1>15, <1>16, <1>17, <1>18, <1>19 DEF Sound, Rehomed

------------------------------------------------------------------------------
(* The commit, and the tools that know no requests.                          *)

LEMMA Committed ==
    ASSUME NEW s, Typed(s), Commit(s)
    PROVE  Db' = s /\ Guarded(s)
<1>1. /\ survey' = s.survey /\ profile' = s.profile /\ bond' = s.bond /\ held' = s.held
      /\ pairing' = s.pairing /\ made' = s.made /\ Guarded(s)
  BY Zenon DEF Commit
<1>2. QED
  BY <1>1 DEF Db, Typed

LEMMA Widen ==
    ASSUME NEW s, NEW X, NEW R, Sound(s, X, R)
    PROVE  Sound(s, Pairings \X Requests, R)
  BY AllExtra DEF Sound

LEMMA ThinRosters ==
    ASSUME NEW s, NEW X, NEW R, Sound(s, X, R), NEW g \in [Pairings -> PairingRows],
           \A p \in Pairings : /\ g[p].next = s.pairing[p].next
                               /\ g[p].roster \subseteq s.pairing[p].roster,
           NEW t, t = [s EXCEPT !.pairing = g]
    PROVE  Sound(t, X, R) /\ Alike(s, t) /\ t.profile = s.profile /\ t.survey = s.survey
<1>1. Typed(s) /\ Signed(s)
  BY DEF Sound
<1>2. /\ Typed(t) /\ t.pairing = g
      /\ t.survey = s.survey /\ t.bond = s.bond /\ t.held = s.held
      /\ t.profile = s.profile /\ t.made = s.made
  BY <1>1 DEF Typed
<1>3. Alike(s, t) /\ Thinner(s, t)
  BY <1>2 DEF Alike, Thinner
<1>4. \A r \in Requests : /\ t.survey[r].box = s.survey[r].box
                          /\ t.survey[r].leave => t.survey[r].confirmed
                          /\ t.survey[r].state = "NONE" => t.profile[r].status = "NONE"
  BY <1>1, <1>2 DEF Signed
<1>5. QED
  BY <1>2, <1>3, <1>4, StatusSound

LEMMA SamePeople ==
    ASSUME NEW s, NEW t, Typed(s), Typed(t), Signed(s), Acyclic(s), Alone(s), Named(s),
           t.survey = s.survey, t.profile = s.profile, t.bond = s.bond, t.held = s.held
    PROVE  Alike(s, t) /\ Signed(t) /\ Acyclic(t) /\ Alone(t) /\ Named(t)
<1>1. Alike(s, t)
  BY DEF Alike
<1>2. Signed(t)
  BY DEF Signed
<1>3. Acyclic(t)
  BY DEF Acyclic
<1>4. Alone(t)
  BY DEF Alone, Early
<1>5. Named(t)
  BY DEF Named
<1>6. QED
  BY <1>1, <1>2, <1>3, <1>4, <1>5

(* A tool writes a roster.                                                   *)
LEMMA RosterSound ==
    ASSUME NEW s, NEW X, NEW R, Sound(s, X, R), NEW p \in Pairings, NEW ts \in SUBSET Requests,
           NEW t, t = [s EXCEPT !.pairing[p].roster = ts]
    PROVE  Sound(t, Pairings \X Requests, R) /\ Alike(s, t)
<1>1. Typed(s) /\ Signed(s) /\ Acyclic(s) /\ Alone(s) /\ Named(s)
  BY DEF Sound
<1>2. PICK n : n = [s.pairing[p] EXCEPT !.roster = ts]
  OBVIOUS
<1>3. s.pairing[p] \in PairingRows
  BY <1>1 DEF Typed
<1>4. n \in PairingRows
  BY <1>2, <1>3 DEF PairingRows
<1>5. PICK g : g = [s.pairing EXCEPT ![p] = n]
  OBVIOUS
<1>6. g \in [Pairings -> PairingRows]
  BY <1>1, <1>4, <1>5 DEF Typed
<1>7. t = [s EXCEPT !.pairing = g]
  BY <1>2, <1>5
<1>8. /\ Typed(t)
      /\ t.survey = s.survey /\ t.bond = s.bond /\ t.held = s.held
      /\ t.profile = s.profile /\ t.made = s.made
  BY <1>1, <1>6, <1>7 DEF Typed
<1>9. Alike(s, t) /\ Signed(t) /\ Acyclic(t) /\ Alone(t) /\ Named(t)
  BY <1>1, <1>8, SamePeople
<1>10. Served(t, Pairings \X Requests, R)
  BY <1>8, AllExtra
<1>11. QED
  BY <1>8, <1>9, <1>10 DEF Sound

(* One row of the surveys, states and owners aside.                          *)
LEMMA RowSound ==
    ASSUME NEW s, NEW X, NEW R, Sound(s, X, R), NEW r \in Requests, NEW n \in SurveyRows,
           n.state = s.survey[r].state, n.box = s.survey[r].box,
           n.confirmed <=> s.survey[r].confirmed, n.leave => n.confirmed,
           NEW t, t = [s EXCEPT !.survey = [s.survey EXCEPT ![r] = n]]
    PROVE  /\ Sound(t, X, R) /\ Alike(s, t) /\ t.survey = [s.survey EXCEPT ![r] = n]
           /\ t.profile = s.profile /\ t.pairing = s.pairing
<1>1. Typed(s) /\ Signed(s)
  BY DEF Sound
<1>2. PICK f : f = [s.survey EXCEPT ![r] = n]
  OBVIOUS
<1>3. t = [s EXCEPT !.survey = f]
  BY <1>2
<1>4. f \in [Requests -> SurveyRows] /\ f[r] = n /\ \A x \in Requests \ {r} : f[x] = s.survey[x]
  BY <1>1, <1>2 DEF Typed
<1>5. n.confirmed = s.survey[r].confirmed
  <2>1. n.confirmed \in BOOLEAN /\ s.survey[r].confirmed \in BOOLEAN
    BY <1>1 DEF Typed, SurveyRows
  <2>2. QED
    BY <2>1
<1>6. \A x \in Requests : /\ f[x].state = s.survey[x].state /\ f[x].box = s.survey[x].box
                          /\ f[x].confirmed = s.survey[x].confirmed
                          /\ f[x].leave => f[x].confirmed
  BY <1>1, <1>4, <1>5 DEF Signed
<1>7. Sound(t, X, R) /\ Alike(s, t)
  BY <1>3, <1>4, <1>6, NewSurveys
<1>8. t.survey = f /\ t.profile = s.profile /\ t.pairing = s.pairing
  BY <1>1, <1>3 DEF Typed
<1>9. QED
  BY <1>2, <1>7, <1>8

------------------------------------------------------------------------------
(* Who has the seat of an account.                                           *)

(* A confirmed request that is open takes its owner's seat; while at most one *)
(* transfer was made, the account works with the profile of that request.    *)
Sits(s, r) == Open(s, r) /\ s.survey[r].confirmed

SeatsOf(s, st, n) ==
    /\ n = 0 => \A r \in Requests : s.profile[r].into = Nobody
    /\ n <= 1 => \A r \in Requests : Sits(s, r) =>
          /\ st[s.profile[r].owner] \in Requests
          /\ Exec(s, r) = Exec(s, st[s.profile[r].owner])
    /\ n <= 2 => \A q, r \in Requests :
          Sits(s, q) /\ Sits(s, r) /\ s.profile[q].owner = s.profile[r].owner
          => Exec(s, q) = Exec(s, r)

SamePlaces(s, t) ==
    \A x \in Requests : /\ t.profile[x].into = s.profile[x].into
                        /\ t.profile[x].owner = s.profile[x].owner

LEMMA SeatsStay ==
    ASSUME NEW s, Typed(s), Acyclic(s), NEW t, Typed(t), SamePlaces(s, t),
           \A r \in Requests : Sits(t, r) => Sits(s, r), NEW st, NEW n, SeatsOf(s, st, n)
    PROVE  SeatsOf(t, st, n)
<1>1. \A x \in Requests : Exec(t, x) = Exec(s, x)
  BY SameExec DEF Typed, SamePlaces
<1>2. \A x \in Requests : /\ t.profile[x].into = s.profile[x].into
                          /\ t.profile[x].owner = s.profile[x].owner
  BY DEF SamePlaces
<1>3. n = 0 => \A r \in Requests : t.profile[r].into = Nobody
  BY <1>2 DEF SeatsOf
<1>4. ASSUME n <= 1, NEW r \in Requests, Sits(t, r)
      PROVE  /\ st[t.profile[r].owner] \in Requests
             /\ Exec(t, r) = Exec(t, st[t.profile[r].owner])
  <2>1. Sits(s, r)
    BY <1>4
  <2>2. st[s.profile[r].owner] \in Requests /\ Exec(s, r) = Exec(s, st[s.profile[r].owner])
    BY <1>4, <2>1 DEF SeatsOf
  <2>3. QED
    BY <1>1, <1>2, <2>2
<1>5. ASSUME n <= 2, NEW q \in Requests, NEW r \in Requests, Sits(t, q), Sits(t, r),
             t.profile[q].owner = t.profile[r].owner
      PROVE  Exec(t, q) = Exec(t, r)
  <2>1. Sits(s, q) /\ Sits(s, r) /\ s.profile[q].owner = s.profile[r].owner
    BY <1>2, <1>5
  <2>2. Exec(s, q) = Exec(s, r)
    BY <1>5, <2>1 DEF SeatsOf
  <2>3. QED
    BY <1>1, <2>2
<1>6. QED
  BY <1>3, <1>4, <1>5 DEF SeatsOf

(* Request r is confirmed for account h, which owns no other open one.       *)
LEMMA SeatsConfirmed ==
    ASSUME NEW s, Typed(s), Signed(s), Acyclic(s), NEW t, Typed(t), NEW r \in Requests,
           NEW h \in Accounts, NEW st \in [Accounts -> Requests \cup {Nobody}], NEW n,
           \A x \in Requests : t.profile[x].into = s.profile[x].into,
           \A x \in Requests \ {r} : t.profile[x].owner = s.profile[x].owner,
           \A q \in Requests \ {r} : Sits(t, q) => Sits(s, q),
           \A q \in Requests \ {r} : Sits(s, q) => s.profile[q].owner # h,
           t.profile[r].owner = h, SeatsOf(s, st, n)
    PROVE  SeatsOf(t, [st EXCEPT ![h] = r], n)
<1> DEFINE su == [st EXCEPT ![h] = r]
<1>1. \A x \in Requests : Exec(t, x) = Exec(s, x)
  BY SameExec DEF Typed
<1>2. su[h] = r /\ \A b \in Accounts \ {h} : su[b] = st[b]
  OBVIOUS
<1>3. ASSUME NEW q \in Requests \ {r}, Sits(s, q)
      PROVE  s.profile[q].owner \in Accounts \ {h}
  BY <1>3 DEF Sits, Signed
<1> HIDE DEF su
<1>4. n = 0 => \A q \in Requests : t.profile[q].into = Nobody
  BY DEF SeatsOf
<1>5. ASSUME n <= 1, NEW q \in Requests, Sits(t, q)
      PROVE  /\ su[t.profile[q].owner] \in Requests
             /\ Exec(t, q) = Exec(t, su[t.profile[q].owner])
  <2>1. CASE q = r
    BY <1>2, <2>1
  <2>2. CASE q # r
    <3>1. Sits(s, q)
      BY <1>5, <2>2
    <3>2. s.profile[q].owner \in Accounts \ {h} /\ t.profile[q].owner = s.profile[q].owner
      BY <1>3, <2>2, <3>1
    <3>3. st[s.profile[q].owner] \in Requests /\ Exec(s, q) = Exec(s, st[s.profile[q].owner])
      BY <1>5, <3>1 DEF SeatsOf
    <3>4. QED
      BY <1>1, <1>2, <3>2, <3>3
  <2>3. QED
    BY <2>1, <2>2
<1>6. ASSUME n <= 2, NEW q \in Requests, NEW x \in Requests, Sits(t, q), Sits(t, x),
             t.profile[q].owner = t.profile[x].owner
      PROVE  Exec(t, q) = Exec(t, x)
  <2>1. CASE q = r \/ x = r
    <3>1. q = r /\ x = r
      BY <1>6, <2>1
    <3>2. QED
      BY <3>1
  <2>2. CASE q # r /\ x # r
    <3>1. Sits(s, q) /\ Sits(s, x) /\ s.profile[q].owner = s.profile[x].owner
      BY <1>6, <2>2
    <3>2. Exec(s, q) = Exec(s, x)
      BY <1>6, <3>1 DEF SeatsOf
    <3>3. QED
      BY <1>1, <3>2
  <2>3. QED
    BY <2>1, <2>2
<1>7. SeatsOf(t, su, n)
  BY <1>4, <1>5, <1>6 DEF SeatsOf
<1>8. QED
  BY <1>7 DEF su

Redirected(s, t, src, tgt) ==
    \A q \in Requests : Exec(t, q) = IF Exec(s, q) \in {src, tgt} THEN tgt ELSE Exec(s, q)

LEMMA JoinedRedirects ==
    ASSUME NEW s, NEW X, NEW R, Sound(s, X, R), NEW src \in Requests, NEW tgt \in Requests,
           Joinable(s, src, tgt), NEW a, NEW t, Joins(s, t.profile, src, tgt, a)
    PROVE  Redirected(s, t, src, tgt)
  BY JoinedExec DEF Redirected

(* Profiles src and tgt are joined for account a.                            *)
LEMMA SeatsJoined ==
    ASSUME NEW s, NEW X, NEW R, Sound(s, X, R), NEW src \in Requests, NEW tgt \in Requests,
           Joinable(s, src, tgt), NEW a \in Accounts, NEW t, Joins(s, t.profile, src, tgt, a),
           t.survey = s.survey,
           NEW st \in [Accounts -> Requests \cup {Nobody}], st[a] \in {Nobody, src, tgt},
           NEW su, su = [b \in Accounts |-> IF b = a THEN tgt
                                            ELSE IF st[b] \in {src, tgt} THEN Nobody ELSE st[b]],
           NEW n \in Nat, SeatsOf(s, st, n)
    PROVE  SeatsOf(t, su, n + 1)
<1>1. \A q \in Requests : Exec(t, q) = IF Exec(s, q) \in {src, tgt} THEN tgt ELSE Exec(s, q)
  <2>1. Redirected(s, t, src, tgt)
    BY JoinedRedirects
  <2>2. QED
    BY <2>1 DEF Redirected
<1>2. Exec(s, src) = src /\ Exec(s, tgt) \in {src, tgt}
  BY JoinedMade
<1>3. \A r : Sits(t, r) = Sits(s, r)
  BY DEF Sits, Open
<1>4. Signed(s) /\ s.profile \in [Requests -> ProfileRows] /\ src # tgt
  BY DEF Sound, Typed, Joinable
<1>5. /\ t.profile[src].owner = a /\ t.profile[tgt].owner = a
      /\ \A x \in Requests \ {src, tgt} : t.profile[x].owner = s.profile[x].owner
  BY DEF Joins
<1>6. ASSUME n <= 1, NEW r \in Requests, Sits(s, r), s.profile[r].owner = a
      PROVE  Exec(t, r) = tgt
  <2>1. st[a] \in Requests /\ Exec(s, r) = Exec(s, st[a])
    BY <1>6 DEF SeatsOf
  <2>2. st[a] \in {src, tgt}
    BY <2>1, RequestsAssumption
  <2>3. QED
    BY <1>1, <1>2, <2>1, <2>2
<1>7. ASSUME NEW r \in {src, tgt} PROVE Exec(t, r) = tgt
  BY <1>1, <1>2
<1>8. ASSUME n + 1 <= 1, NEW r \in Requests, Sits(t, r)
      PROVE  /\ su[t.profile[r].owner] \in Requests
             /\ Exec(t, r) = Exec(t, su[t.profile[r].owner])
  <2>1. n = 0
    BY <1>8
  <2>2. su[a] = tgt /\ Exec(t, tgt) = tgt
    BY <1>7
  <2>3. CASE r \in {src, tgt}
    BY <1>5, <1>7, <2>2, <2>3
  <2>4. CASE r \notin {src, tgt}
    <3>1. \A x \in Requests : Exec(s, x) = x
      BY <1>4, <2>1, ExecLeads DEF SeatsOf
    <3>2. s.profile[r].owner \in Accounts
      BY <1>3, <1>4, <1>8 DEF Sits, Signed
    <3>3. st[s.profile[r].owner] \in Requests /\ Exec(s, r) = Exec(s, st[s.profile[r].owner])
      BY <1>3, <1>8, <2>1 DEF SeatsOf
    <3>4. st[s.profile[r].owner] = r
      BY <3>1, <3>3
    <3>5. s.profile[r].owner # a
      BY <2>4, <3>4, RequestsAssumption
    <3>6. su[s.profile[r].owner] = r
      BY <2>4, <3>2, <3>4, <3>5
    <3>7. QED
      BY <1>5, <2>4, <3>6
  <2>5. QED
    BY <2>3, <2>4
<1>9. ASSUME n + 1 <= 2, NEW q \in Requests, NEW r \in Requests, Sits(t, q), Sits(t, r),
             t.profile[q].owner = t.profile[r].owner
      PROVE  Exec(t, q) = Exec(t, r)
  <2>1. n <= 1
    BY <1>9
  <2>2. ASSUME NEW x \in Requests, Sits(t, x), t.profile[x].owner = a PROVE Exec(t, x) = tgt
    <3>1. CASE x \in {src, tgt}
      BY <1>7, <3>1
    <3>2. CASE x \notin {src, tgt}
      BY <1>3, <1>5, <1>6, <2>1, <2>2, <3>2
    <3>3. QED
      BY <3>1, <3>2
  <2>3. CASE t.profile[q].owner = a
    BY <1>9, <2>2, <2>3
  <2>4. CASE t.profile[q].owner # a
    <3>1. q \notin {src, tgt} /\ r \notin {src, tgt}
      BY <1>5, <1>9, <2>4
    <3>2. Sits(s, q) /\ Sits(s, r) /\ s.profile[q].owner = s.profile[r].owner
      BY <1>3, <1>5, <1>9, <3>1
    <3>3. n <= 2
      BY <2>1
    <3>4. Exec(s, q) = Exec(s, r)
      BY <3>2, <3>3 DEF SeatsOf
    <3>5. QED
      BY <1>1, <3>4
  <2>5. QED
    BY <2>3, <2>4
<1>10. n + 1 # 0
  OBVIOUS
<1>11. QED
  BY <1>8, <1>9, <1>10 DEF SeatsOf

------------------------------------------------------------------------------
(* The invariant, and steps that leave the people alone.                     *)

(* A membership that is recorded for no request needs a roster tool.         *)
Extra == IF tools = 0 THEN {} ELSE Pairings \X Requests

Booked ==
    /\ home \in [Mailboxes -> Accounts] /\ student \in [Accounts -> Requests \cup {Nobody}]
    /\ blocks \subseteq Mailboxes \X Accounts
    /\ tools \in 0 .. MaxTools /\ transfers \in 0 .. MaxTransfers

WInv == Sound(Db, Extra, {}) /\ Booked /\ SeatsOf(Db, student, transfers)

(* A request that ends leaves the others their assignments.                  *)
Lets(s, t) == \A r \in Requests : Open(s, r) /\ ~Open(t, r) => OthersHave(s, t, r)

LEMMA DbRows ==
    /\ Db.survey = survey /\ Db.profile = profile /\ Db.bond = bond /\ Db.held = held
    /\ Db.pairing = pairing /\ Db.made = made
  BY DEF Db

LEMMA AlikeLets ==
    ASSUME NEW s, NEW t, Alike(s, t)
    PROVE  Lets(s, t)
  BY DEF Alike, Lets, Open

LEMMA SeatsAlike ==
    ASSUME NEW s, Typed(s), Acyclic(s), NEW t, Typed(t), Alike(s, t),
           NEW st, NEW n, SeatsOf(s, st, n)
    PROVE  SeatsOf(t, st, n)
<1>1. SamePlaces(s, t)
  BY DEF Alike, SamePlaces
<1>2. \A r \in Requests : Sits(t, r) => Sits(s, r)
  BY DEF Alike, Sits, Open
<1>3. QED
  BY <1>1, <1>2, SeatsStay

LEMMA ExtraTools ==
    ASSUME WInv, tools' = tools \/ tools' = tools + 1,
           NEW t, Sound(t, IF tools' = tools THEN Extra ELSE Pairings \X Requests, {})
    PROVE  Sound(t, Extra', {})
<1>1. tools \in Nat
  BY DEF WInv, Booked
<1>2. CASE tools' = tools
  BY <1>2 DEF Extra
<1>3. CASE tools' = tools + 1
  <2>1. tools' # 0 /\ tools' # tools
    BY <1>1, <1>3
  <2>2. Extra' = Pairings \X Requests
    BY <2>1 DEF Extra
  <2>3. QED
    BY <2>1, <2>2
<1>4. QED
  BY <1>2, <1>3

(* A step that leaves the people and the states as they were.                *)
LEMMA AlikeStep ==
    ASSUME WInv, NEW t, Db' = t, Sound(t, Extra', {}), Alike(Db, t), Booked',
           UNCHANGED <<student, transfers>>
    PROVE  WInv' /\ Lets(Db, Db')
<1>1. Typed(Db) /\ Acyclic(Db) /\ Typed(t) /\ SeatsOf(Db, student, transfers)
  BY DEF WInv, Sound
<1>2. SeatsOf(t, student, transfers)
  BY <1>1, SeatsAlike
<1>3. SeatsOf(Db, student, transfers)'
  BY <1>2
<1>4. Sound(Db, Extra, {})'
  OBVIOUS
<1>5. WInv'
  BY <1>3, <1>4 DEF WInv
<1>6. Lets(Db, Db')
  BY AlikeLets
<1>7. QED
  BY <1>5, <1>6

LEMMA SameRowsStep ==
    ASSUME WInv, UNCHANGED <<rows, student, tools, transfers>>, Booked'
    PROVE  WInv' /\ Lets(Db, Db')
<1>1. Db' = Db
  BY DEF rows, Db
<1>2. Extra' = Extra
  BY DEF Extra
<1>3. Alike(Db, Db)
  BY DEF Alike
<1>4. Sound(Db, Extra', {})
  BY <1>2 DEF WInv
<1>5. QED
  BY <1>1, <1>3, <1>4, AlikeStep

LEMMA MailSteps ==
    ASSUME WInv,
           \/ \E w \in Senders : Mail(w) \/ GiveUp(w) \/ \E r \in Requests : StartResend(w, r)
           \/ \E m, a \in Mailboxes : ConfirmSecondaryEmail(m, a)
    PROVE  WInv' /\ Lets(Db, Db')
<1>1. UNCHANGED <<rows, student, tools, transfers>>
  BY DEF Mail, GiveUp, StartResend, ConfirmSecondaryEmail
<1>2. blocks' = blocks /\ home' \in [Mailboxes -> Accounts]
  BY DEF Mail, GiveUp, StartResend, ConfirmSecondaryEmail, WInv, Booked, Accounts
<1>3. Booked'
  BY <1>1, <1>2 DEF WInv, Booked
<1>4. QED
  BY <1>1, <1>3, SameRowsStep

(* One row of the surveys is written.                                        *)
LEMMA SurveyRowStep ==
    ASSUME WInv, NEW r \in Requests, NEW n \in SurveyRows,
           n.state = survey[r].state, n.box = survey[r].box,
           n.confirmed <=> survey[r].confirmed, n.leave => n.confirmed,
           survey' = [survey EXCEPT ![r] = n],
           UNCHANGED <<profile, bond, held, pairing, made, home, student, blocks, tools, transfers>>
    PROVE  WInv' /\ Lets(Db, Db')
<1>1. PICK t : t = [Db EXCEPT !.survey = [Db.survey EXCEPT ![r] = n]]
  OBVIOUS
<1>2. Db' = t
  BY <1>1 DEF Db
<1>3. Sound(Db, Extra, {}) /\ Extra' = Extra
  BY DEF WInv, Extra
<1>4. Sound(t, Extra', {}) /\ Alike(Db, t)
  BY <1>1, <1>3, DbRows, RowSound
<1>5. Booked'
  BY DEF WInv, Booked
<1>6. QED
  BY <1>2, <1>4, <1>5, AlikeStep

------------------------------------------------------------------------------
(* Intake.                                                                   *)

LEMMA SurveyTyped ==
    ASSUME WInv, NEW r \in Requests
    PROVE  /\ survey \in [Requests -> SurveyRows] /\ survey[r] \in SurveyRows
           /\ survey[r].leave => survey[r].confirmed
  BY DbRows DEF WInv, Sound, Typed, Signed

LEMMA SurveyRowSteps ==
    ASSUME WInv, NEW r \in Requests,
           \/ DeadlinePasses(r) \/ Flag(r) \/ Unflag(r) \/ ApplyAbort(r) \/ DenyAbort(r)
           \/ \E p \in Pairings : ApplyScheduleRejection(r, p) \/ DenyScheduleRejection(r, p)
    PROVE  WInv' /\ Lets(Db, Db')
<1>1. survey[r] \in SurveyRows /\ (survey[r].leave => survey[r].confirmed)
  BY SurveyTyped
<1>2. UNCHANGED <<profile, bond, held, pairing, made, home, student, blocks, tools, transfers>>
  BY DEF DeadlinePasses, Flag, Unflag, ApplyAbort, DenyAbort,
         ApplyScheduleRejection, DenyScheduleRejection
<1>3. CASE DeadlinePasses(r)
  <2>1. PICK n : n = [survey[r] EXCEPT !.due = "past"]
    OBVIOUS
  <2>2. n \in SurveyRows /\ survey' = [survey EXCEPT ![r] = n]
    BY <1>1, <1>3, <2>1 DEF DeadlinePasses, SurveyRows
  <2>3. /\ n.state = survey[r].state /\ n.box = survey[r].box
        /\ n.confirmed = survey[r].confirmed /\ n.leave = survey[r].leave
    BY <1>1, <2>1 DEF SurveyRows
  <2>4. QED
    BY <1>1, <1>2, <2>2, <2>3, SurveyRowStep
<1>4. CASE Flag(r)
  <2>1. PICK n : n = [survey[r] EXCEPT !.flagged = TRUE]
    OBVIOUS
  <2>2. n \in SurveyRows /\ survey' = [survey EXCEPT ![r] = n]
    BY <1>1, <1>4, <2>1 DEF Flag, SurveyRows
  <2>3. /\ n.state = survey[r].state /\ n.box = survey[r].box
        /\ n.confirmed = survey[r].confirmed /\ n.leave = survey[r].leave
    BY <1>1, <2>1 DEF SurveyRows
  <2>4. QED
    BY <1>1, <1>2, <2>2, <2>3, SurveyRowStep
<1>5. CASE Unflag(r)
  <2>1. PICK n : n = [survey[r] EXCEPT !.flagged = FALSE]
    OBVIOUS
  <2>2. n \in SurveyRows /\ survey' = [survey EXCEPT ![r] = n]
    BY <1>1, <1>5, <2>1 DEF Unflag, SurveyRows
  <2>3. /\ n.state = survey[r].state /\ n.box = survey[r].box
        /\ n.confirmed = survey[r].confirmed /\ n.leave = survey[r].leave
    BY <1>1, <2>1 DEF SurveyRows
  <2>4. QED
    BY <1>1, <1>2, <2>2, <2>3, SurveyRowStep
<1>6. CASE ApplyAbort(r)
  <2>1. PICK n : n = [survey[r] EXCEPT !.leave = TRUE]
    OBVIOUS
  <2>2. n \in SurveyRows /\ survey' = [survey EXCEPT ![r] = n]
    BY <1>1, <1>6, <2>1 DEF ApplyAbort, SurveyRows
  <2>3. /\ n.state = survey[r].state /\ n.box = survey[r].box
        /\ n.confirmed = survey[r].confirmed /\ survey[r].confirmed
    BY <1>1, <1>6, <2>1 DEF ApplyAbort, Owned, SurveyRows
  <2>4. QED
    BY <1>1, <1>2, <2>2, <2>3, SurveyRowStep
<1>7. CASE DenyAbort(r)
  <2>1. PICK n : n = [survey[r] EXCEPT !.leave = FALSE]
    OBVIOUS
  <2>2. n \in SurveyRows /\ survey' = [survey EXCEPT ![r] = n]
    BY <1>1, <1>7, <2>1 DEF DenyAbort, SurveyRows
  <2>3. /\ n.state = survey[r].state /\ n.box = survey[r].box
        /\ n.confirmed = survey[r].confirmed /\ ~n.leave
    BY <1>1, <2>1 DEF SurveyRows
  <2>4. QED
    BY <1>1, <1>2, <2>2, <2>3, SurveyRowStep
<1>8. ASSUME NEW p \in Pairings, ApplyScheduleRejection(r, p) \/ DenyScheduleRejection(r, p)
      PROVE  WInv' /\ Lets(Db, Db')
  <2>1. PICK c \in SUBSET Pairings : survey' = [survey EXCEPT ![r].conflicts = c]
    <3>1. survey[r].conflicts \in SUBSET Pairings
      BY <1>1 DEF SurveyRows
    <3>2. \/ survey' = [survey EXCEPT ![r].conflicts = survey[r].conflicts \cup {p}]
          \/ survey' = [survey EXCEPT ![r].conflicts = survey[r].conflicts \ {p}]
      BY <1>8 DEF ApplyScheduleRejection, DenyScheduleRejection
    <3>3. QED
      BY <3>1, <3>2
  <2>2. PICK n : n = [survey[r] EXCEPT !.conflicts = c]
    OBVIOUS
  <2>3. n \in SurveyRows /\ survey' = [survey EXCEPT ![r] = n]
    BY <1>1, <2>1, <2>2 DEF SurveyRows
  <2>4. /\ n.state = survey[r].state /\ n.box = survey[r].box
        /\ n.confirmed = survey[r].confirmed /\ n.leave = survey[r].leave
    BY <1>1, <2>2 DEF SurveyRows
  <2>5. QED
    BY <1>1, <1>2, <2>3, <2>4, SurveyRowStep
<1>9. QED
  BY <1>3, <1>4, <1>5, <1>6, <1>7, <1>8

LEMMA PublishRows ==
    ASSUME WInv, IInv, NEW w \in Senders, Publish(w)
    PROVE  WInv' /\ Lets(Db, Db')
<1>1. sender[w] \in SenderRows /\ sender[w].of \in Requests
  BY DEF IInv, MailTyped, Knows, Publish
<1>2. PICK r \in Requests : r = sender[w].of
  BY <1>1
<1>3. UNCHANGED <<profile, bond, held, pairing, made, home, student, blocks, tools, transfers>>
  BY DEF Publish
<1>4. survey[r] \in SurveyRows /\ (survey[r].leave => survey[r].confirmed)
  BY SurveyTyped
<1>5. CASE MayPublish(w)
  <2>1. PICK n : n = [survey[r] EXCEPT !.link = sender[w].fresh]
    OBVIOUS
  <2>2. n \in SurveyRows /\ survey' = [survey EXCEPT ![r] = n]
    BY <1>1, <1>2, <1>4, <1>5, <2>1 DEF Publish, SurveyRows, SenderRows
  <2>3. /\ n.state = survey[r].state /\ n.box = survey[r].box
        /\ n.confirmed = survey[r].confirmed /\ n.leave = survey[r].leave
    BY <1>4, <2>1 DEF SurveyRows
  <2>4. QED
    BY <1>3, <1>4, <2>2, <2>3, SurveyRowStep
<1>6. CASE ~MayPublish(w)
  <2>1. UNCHANGED <<rows, student, tools, transfers>>
    BY <1>6 DEF Publish, rows
  <2>2. Booked'
    BY <1>3 DEF WInv, Booked
  <2>3. QED
    BY <2>1, <2>2, SameRowsStep
<1>7. QED
  BY <1>5, <1>6

(* A request is submitted.                                                   *)
LEMMA SubmittedSound ==
    ASSUME NEW s, NEW X, NEW R, Sound(s, X, R), NEW r \in Requests, s.survey[r].state = "NONE",
           NEW n \in SurveyRows, n.state = "OPEN", n.box \in Mailboxes,
           n.confirmed <=> s.survey[r].confirmed, n.leave <=> s.survey[r].leave,
           NEW t, t = [s EXCEPT !.survey = [s.survey EXCEPT ![r] = n]]
    PROVE  /\ Sound(t, X, R) /\ SamePlaces(s, t) /\ Lets(s, t)
           /\ \A q \in Requests : Sits(t, q) => Sits(s, q)
<1>1. Typed(s) /\ Signed(s) /\ Acyclic(s) /\ Alone(s) /\ Named(s) /\ Served(s, X, R)
  BY DEF Sound
<1>2. Typed(t)
  BY <1>1 DEF Typed
<1>3. /\ t.profile = s.profile /\ t.bond = s.bond /\ t.held = s.held
      /\ t.pairing = s.pairing /\ t.made = s.made
      /\ t.survey[r] = n /\ \A q \in Requests \ {r} : t.survey[q] = s.survey[q]
  BY <1>1 DEF Typed

<1>4. ~s.survey[r].confirmed /\ ~s.survey[r].leave
  BY <1>1 DEF Signed
<1>5. Signed(t)
  BY <1>1, <1>3, <1>4 DEF Signed
<1>6. Acyclic(t)
  BY <1>1, <1>3 DEF Acyclic
<1>7. \A q \in Requests : Early(t, q) => Early(s, q)
  BY <1>3, <1>4 DEF Early
<1>8. Alone(t)
  BY <1>1, <1>3, <1>7 DEF Alone
<1>9. \A q \in Requests : s.survey[q].state # "NONE" => t.survey[q].state # "NONE"
  BY <1>3
<1>10. Named(t)
  <2>1. \A q \in Requests, p \in Pairings : s.bond[q][p] \in Requests \cup {Nobody}
    BY <1>1 DEF Typed
  <2>2. QED
    BY <1>1, <1>3, <1>9, <2>1 DEF Named
<1>11. Served(t, X, R)
  <2>1. Thinner(s, t)
    BY <1>3 DEF Thinner
  <2>2. \A q \in Requests : Open(s, q) => Open(t, q) \/ q \in R
    BY <1>3 DEF Open
  <2>3. QED
    BY <1>1, <1>2, <2>1, <2>2, ThinnerServed
<1>12. SamePlaces(s, t)
  BY <1>3 DEF SamePlaces
<1>13. Lets(s, t)
  BY <1>3 DEF Lets, Open
<1>14. \A q \in Requests : Sits(t, q) => Sits(s, q)
  BY <1>3, <1>4 DEF Sits, Open
<1>15. QED
  BY <1>2, <1>5, <1>6, <1>8, <1>10, <1>11, <1>12, <1>13, <1>14 DEF Sound

LEMMA SubmitRows ==
    ASSUME WInv, NEW w \in Senders, NEW r \in Requests, NEW m \in Mailboxes, Submit(w, r, m)
    PROVE  WInv' /\ Lets(Db, Db')
<1>1. PICK n : n = [survey[r] EXCEPT !.state = "OPEN", !.box = m]
  OBVIOUS
<1>2. survey[r] \in SurveyRows
  BY SurveyTyped
<1>3. n \in SurveyRows /\ survey' = [survey EXCEPT ![r] = n]
  BY <1>1, <1>2 DEF Submit, SurveyRows
<1>4. /\ n.state = "OPEN" /\ n.box = m
      /\ n.confirmed = survey[r].confirmed /\ n.leave = survey[r].leave
  BY <1>1, <1>2 DEF SurveyRows
<1>5. PICK t : t = [Db EXCEPT !.survey = [Db.survey EXCEPT ![r] = n]]
  OBVIOUS
<1>6. UNCHANGED <<profile, bond, held, pairing, made, home, student, blocks, tools, transfers>>
      /\ survey[r].state = "NONE"
  BY DEF Submit
<1>7. Db' = t
  BY <1>3, <1>5, <1>6 DEF Db
<1>8. Sound(Db, Extra, {}) /\ Extra' = Extra /\ SeatsOf(Db, student, transfers)
  BY <1>6 DEF WInv, Extra
<1>9. /\ Sound(t, Extra, {}) /\ SamePlaces(Db, t) /\ Lets(Db, t)
      /\ \A q \in Requests : Sits(t, q) => Sits(Db, q)
  BY <1>3, <1>4, <1>5, <1>6, <1>8, DbRows, SubmittedSound
<1>10. SeatsOf(t, student, transfers)
  BY <1>8, <1>9, SeatsStay DEF Sound
<1>11. Booked'
  BY <1>6 DEF WInv, Booked
<1>12. SeatsOf(Db, student, transfers)' /\ Sound(Db, Extra, {})'
  BY <1>6, <1>7, <1>8, <1>9, <1>10
<1>13. QED
  BY <1>7, <1>9, <1>11, <1>12 DEF WInv

------------------------------------------------------------------------------
(* Assignment.                                                               *)

LEMMA Enough ==
    ASSUME NEW s, NEW X, NEW R, Sound(s, X, R), NEW Y, X \subseteq Y, NEW Q, R \subseteq Q
    PROVE  Sound(s, Y, Q)
  BY DEF Sound, Served

LEMMA AlikeChain ==
    ASSUME NEW s, NEW t, NEW u, Alike(s, t), Alike(t, u)
    PROVE  Alike(s, u)
  BY DEF Alike

LEMMA ExecMade ==
    ASSUME NEW s, NEW X, NEW R, Sound(s, X, R), NEW r \in Requests, s.survey[r].state # "NONE"
    PROVE  /\ Exec(s, r) \in Requests /\ s.survey[Exec(s, r)].state # "NONE"
           /\ Early(s, r) => Exec(s, r) = r
<1>1. Typed(s) /\ Signed(s) /\ Acyclic(s) /\ Alone(s) /\ s.profile \in [Requests -> ProfileRows]
  BY DEF Sound, Typed
<1>2. PICK m : m = Exec(s, r)
  OBVIOUS
<1>3. m \in Requests /\ (m = r \/ \E x \in Requests : s.profile[x].into = m)
  BY <1>1, <1>2, ExecEnds
<1>4. s.survey[m].state # "NONE"
  <2>1. CASE m = r
    BY <2>1
  <2>2. CASE \E x \in Requests : s.profile[x].into = m
    <3>1. ~Early(s, m)
      BY <1>1, <1>3, <2>2 DEF Alone
    <3>2. QED
      BY <1>1, <1>3, <3>1 DEF Early, Signed
  <2>3. QED
    BY <1>3, <2>1, <2>2
<1>5. ASSUME Early(s, r) PROVE m = r
  <2>1. s.profile[r].into = Nobody
    BY <1>1, <1>5 DEF Alone
  <2>2. QED
    BY <1>1, <1>2, <2>1, ExecLeads
<1>6. QED
  BY <1>2, <1>3, <1>4, <1>5

LEMMA AlikeCommit ==
    ASSUME WInv, NEW t, Commit(t), Alike(Db, t),
           tools' = tools \/ (tools' = tools + 1 /\ tools < MaxTools),
           Sound(t, IF tools' = tools THEN Extra ELSE Pairings \X Requests, {}),
           UNCHANGED <<home, student, blocks, transfers>>
    PROVE  WInv' /\ Lets(Db, Db')
<1>1. Typed(t)
  BY DEF Sound
<1>2. Db' = t
  BY <1>1, Committed
<1>3. Sound(t, Extra', {})
  BY ExtraTools
<1>4. tools' \in 0 .. MaxTools
  BY RequestsAssumption DEF WInv, Booked
<1>5. Booked'
  BY <1>4 DEF WInv, Booked
<1>6. QED
  BY <1>2, <1>3, <1>5, AlikeStep

LEMMA AssignRows ==
    ASSUME WInv, NEW r \in Requests, Assign(r)
    PROVE  WInv' /\ Lets(Db, Db')
<1>1. Sound(Db, Extra, {}) /\ Open(Db, r) /\ Db.survey[r].state # "NONE" /\ made < MaxPairings
  BY DEF WInv, Assign, Processable, Current, Open
<1>2. PICK s : s = Materialized(Db, r)
  OBVIOUS
<1>3. Sound(s, Extra, {}) /\ Alike(Db, s)
  BY <1>1, <1>2, MaterializedSound
<1>4. s.made = made /\ s.survey = survey
  BY <1>2, DbRows DEF Materialized
<1>5. s.survey[r].state # "NONE" /\ Open(s, r)
  BY <1>1, <1>4, DbRows DEF Open
<1>6. PICK m : m = Exec(s, r)
  OBVIOUS
<1>7. m \in Requests /\ s.survey[m].state # "NONE" /\ (Early(s, r) => m = r)
  BY <1>3, <1>5, <1>6, ExecMade
<1>8. PICK p : p = made + 1
  OBVIOUS
<1>9. PICK np : np = NewPairing(s, {m})
  OBVIOUS
<1>10. s.made < MaxPairings /\ {m} \in SUBSET Requests
  BY <1>1, <1>4, <1>7
<1>11. /\ Sound(np, Extra \cup ({p} \X {m}), {}) /\ Alike(s, np)
       /\ p \in Pairings /\ np.pairing[p].roster = {m}
       /\ np.survey = s.survey
  <2>1. PICK ts \in SUBSET Requests : ts = {m}
    BY <1>10
  <2>2. np = NewPairing(s, ts) /\ s.made < MaxPairings
    BY <1>9, <1>10, <2>1
  <2>3. /\ Sound(np, Extra \cup ({s.made + 1} \X ts), {}) /\ Alike(s, np)
        /\ s.made + 1 \in Pairings /\ np.pairing[s.made + 1].roster = ts
        /\ np.survey = s.survey
    BY <1>3, <2>2, NewPairingSound
  <2>4. p = s.made + 1
    BY <1>4, <1>8
  <2>5. QED
    BY <2>1, <2>3, <2>4
<1>12. Open(np, r) /\ np.survey[m].state # "NONE" /\ (Early(np, r) => m = r)
  BY <1>5, <1>7, <1>11 DEF Open, Early
<1>13. PICK t : t = Recorded(np, r, p, m)
  OBVIOUS
<1>14. Sound(t, (Extra \cup ({p} \X {m})) \ {<<p, m>>}, {}) /\ Alike(np, t) /\ t.survey = np.survey
  BY <1>7, <1>11, <1>12, <1>13, RecordedSound
<1>15. Sound(t, Extra, {})
  <2>1. (Extra \cup ({p} \X {m})) \ {<<p, m>>} \subseteq Extra
    OBVIOUS
  <2>2. QED
    BY <1>14, <2>1, Enough
<1>16. PICK u : u = [t EXCEPT !.profile[m].status = "ACTIVE"]
  OBVIOUS
<1>17. t.survey[m].state # "NONE" /\ "ACTIVE" \in Status
  BY <1>7, <1>11, <1>14 DEF Status
<1>18. Sound(u, Extra, {}) /\ Alike(t, u)
  BY <1>7, <1>15, <1>16, <1>17, StatusOf
<1>19. PICK v : v = Stamped(u, {r})
  OBVIOUS
<1>20. Sound(v, Extra, {}) /\ Alike(u, v)
  BY <1>18, <1>19, StampedSound
<1>21. Commit(v) /\ UNCHANGED <<home, student, blocks, tools, transfers>>
  BY <1>2, <1>6, <1>8, <1>9, <1>13, <1>16, <1>19, Zenon DEF Assign
<1>22. Alike(Db, v)
  BY <1>3, <1>11, <1>14, <1>18, <1>20, AlikeChain
<1>23. QED
  BY <1>20, <1>21, <1>22, AlikeCommit

LEMMA CreatePairingRows ==
    ASSUME WInv, NEW ts \in SUBSET Requests, CreatePairing(ts)
    PROVE  WInv' /\ Lets(Db, Db')
<1>1. Sound(Db, Extra, {}) /\ Db.made < MaxPairings
  BY DbRows DEF WInv, CreatePairing
<1>2. PICK s : s = NewPairing(Db, ts)
  OBVIOUS
<1>3. Sound(s, Extra \cup ({Db.made + 1} \X ts), {}) /\ Alike(Db, s)
  BY <1>1, <1>2, NewPairingSound
<1>4. PICK t : t = Stamped(s, ts)
  OBVIOUS
<1>5. Sound(t, Extra \cup ({Db.made + 1} \X ts), {}) /\ Alike(s, t)
  BY <1>3, <1>4, StampedSound
<1>6. Sound(t, Pairings \X Requests, {}) /\ Alike(Db, t)
  BY <1>3, <1>5, Widen, AlikeChain
<1>7. /\ Commit(t) /\ tools' = tools + 1 /\ tools < MaxTools
      /\ UNCHANGED <<home, student, blocks, transfers>>
  BY <1>2, <1>4 DEF CreatePairing
<1>8. tools' # tools
  BY <1>7 DEF WInv, Booked
<1>9. QED
  BY <1>6, <1>7, <1>8, AlikeCommit

LEMMA UpdatePairingRows ==
    ASSUME WInv, NEW p \in Pairings, NEW ts \in SUBSET Requests, UpdatePairing(p, ts)
    PROVE  WInv' /\ Lets(Db, Db')
<1>1. Sound(Db, Extra, {})
  BY DEF WInv
<1>2. PICK s : s = [Db EXCEPT !.pairing[p].roster = ts]
  OBVIOUS
<1>3. Sound(s, Pairings \X Requests, {}) /\ Alike(Db, s)
  BY <1>1, <1>2, RosterSound
<1>4. PICK t : t = Stamped(s, ts)
  OBVIOUS
<1>5. Sound(t, Pairings \X Requests, {}) /\ Alike(s, t)
  BY <1>3, <1>4, StampedSound
<1>6. Alike(Db, t)
  BY <1>3, <1>5, AlikeChain
<1>7. /\ Commit(t) /\ tools' = tools + 1 /\ tools < MaxTools
      /\ UNCHANGED <<home, student, blocks, transfers>>
  BY <1>2, <1>4 DEF UpdatePairing
<1>8. tools' # tools
  BY <1>7 DEF WInv, Booked
<1>9. QED
  BY <1>5, <1>6, <1>7, <1>8, AlikeCommit

LEMMA AssignTuteeRows ==
    ASSUME WInv, NEW r \in Requests, AssignTutee(r)
    PROVE  WInv' /\ Lets(Db, Db')
<1>1. /\ Sound(Db, Extra, {}) /\ Db.made < MaxPairings /\ Db.survey[r].state # "NONE"
      /\ {r} \in SUBSET Requests
  BY DbRows DEF WInv, AssignTutee, Assignable, Processable, Current, Open
<1>2. PICK s : s = NewPairing(Db, {r})
  OBVIOUS
<1>3. /\ Sound(s, Extra \cup ({Db.made + 1} \X {r}), {}) /\ Alike(Db, s)
      /\ s.survey = Db.survey
  BY <1>1, <1>2, NewPairingSound
<1>4. PICK u : u = [s EXCEPT !.profile[r].status = "ACTIVE"]
  OBVIOUS
<1>5. s.survey[r].state # "NONE" /\ "ACTIVE" \in Status
  BY <1>1, <1>3 DEF Status
<1>6. Sound(u, Extra \cup ({Db.made + 1} \X {r}), {}) /\ Alike(s, u)
  BY <1>3, <1>4, <1>5, StatusOf
<1>7. PICK t : t = Stamped(u, {r})
  OBVIOUS
<1>8. Sound(t, Extra \cup ({Db.made + 1} \X {r}), {}) /\ Alike(u, t)
  BY <1>6, <1>7, StampedSound
<1>9. Sound(t, Pairings \X Requests, {}) /\ Alike(Db, t)
  BY <1>3, <1>6, <1>8, Widen, AlikeChain
<1>10. /\ Commit(t) /\ tools' = tools + 1 /\ tools < MaxTools
       /\ UNCHANGED <<home, student, blocks, transfers>>
  BY <1>2, <1>4, <1>7, Zenon DEF AssignTutee
<1>11. tools' # tools
  BY <1>10 DEF WInv, Booked
<1>12. QED
  BY <1>9, <1>10, <1>11, AlikeCommit

------------------------------------------------------------------------------
(* Head unassignment and statuses.                                           *)

LEMMA UntouchedTools ==
    ASSUME WInv, NEW t, Commit(t), Alike(Db, t), Sound(t, Extra, {}),
           UNCHANGED <<home, student, blocks, tools, transfers>>
    PROVE  WInv' /\ Lets(Db, Db')
  BY AlikeCommit

LEMMA HeadUnassignRows ==
    ASSUME WInv, NEW r \in Requests, NEW p \in Pairings, HeadUnassign(r, p)
    PROVE  WInv' /\ Lets(Db, Db')
<1>1. Sound(Db, Extra, {}) /\ Typed(Db) /\ Db.survey[r].state # "NONE"
  BY DEF WInv, Sound, HeadUnassign, Current, Open
<1>2. survey[r] \in SurveyRows /\ (survey[r].leave => survey[r].confirmed)
  BY SurveyTyped
<1>3. PICK n : n = [survey[r] EXCEPT !.conflicts = @ \ {p}]
  OBVIOUS
<1>4. /\ n \in SurveyRows /\ n.state = survey[r].state /\ n.box = survey[r].box
      /\ n.confirmed = survey[r].confirmed /\ n.leave = survey[r].leave
  BY <1>2, <1>3 DEF SurveyRows
<1>5. PICK s : s = [Db EXCEPT !.survey = [Db.survey EXCEPT ![r] = n]]
  OBVIOUS
<1>6. Sound(s, Extra, {}) /\ Alike(Db, s) /\ s.pairing = Db.pairing /\ s.profile = Db.profile
      /\ s.survey = [Db.survey EXCEPT ![r] = n]
  <2>1. /\ n.state = Db.survey[r].state /\ n.box = Db.survey[r].box
        /\ n.confirmed <=> Db.survey[r].confirmed
        /\ n.leave => n.confirmed
    BY <1>2, <1>4, DbRows
  <2>2. n \in SurveyRows
    BY <1>4
  <2>3. Sound(s, Extra, {}) /\ Alike(Db, s)
    BY <1>1, <1>5, <2>1, <2>2, RowSound
  <2>4. s.pairing = Db.pairing /\ s.profile = Db.profile /\ s.survey = [Db.survey EXCEPT ![r] = n]
    BY <1>5 DEF Db
  <2>5. QED
    BY <2>3, <2>4
<1>7. PICK g : g = [pairing EXCEPT ![p].roster = @ \ {r}]
  OBVIOUS
<1>8. pairing \in [Pairings -> PairingRows]
  BY <1>1, DbRows DEF Typed
<1>9. /\ g \in [Pairings -> PairingRows]
      /\ \A x \in Pairings : /\ g[x].next = s.pairing[x].next
                             /\ g[x].roster \subseteq s.pairing[x].roster
  BY <1>6, <1>7, <1>8, DbRows DEF PairingRows
<1>10. PICK t : t = [s EXCEPT !.pairing = g]
  OBVIOUS
<1>11. Sound(t, Extra, {}) /\ Alike(s, t) /\ t.survey = s.survey
  BY <1>6, <1>9, <1>10, ThinRosters
<1>12. t = [Db EXCEPT !.pairing[p].roster = @ \ {r}, !.survey[r].conflicts = @ \ {p}]
  BY <1>3, <1>5, <1>7, <1>10 DEF Db
<1>13. PICK u : u = [t EXCEPT !.profile[r].status = "PENDING"]
  OBVIOUS
<1>14. t.survey[r].state # "NONE" /\ "PENDING" \in Status
  BY <1>1, <1>4, <1>6, <1>11, DbRows DEF Status, Typed
<1>15. Sound(u, Extra, {}) /\ Alike(t, u)
  BY <1>11, <1>13, <1>14, StatusOf
<1>16. Alike(Db, t) /\ Alike(Db, u)
  BY <1>6, <1>11, <1>15, AlikeChain
<1>17. Commit(IF On(t, r) = {} THEN u ELSE t) /\ UNCHANGED <<home, student, blocks, tools, transfers>>
  BY <1>12, <1>13, Zenon DEF HeadUnassign
<1>18. Commit(t) \/ Commit(u)
  BY <1>17
<1>19. QED
  BY <1>11, <1>15, <1>16, <1>17, <1>18, UntouchedTools

LEMMA SetTuteeStatusRows ==
    ASSUME WInv, NEW r \in Requests, NEW k \in Status, SetTuteeStatus(r, k)
    PROVE  WInv' /\ Lets(Db, Db')
<1>1. Sound(Db, Extra, {}) /\ Typed(Db) /\ Signed(Db)
  BY DEF WInv, Sound
<1>2. Db.survey[r].state # "NONE"
  BY <1>1, DbRows DEF Signed, SetTuteeStatus
<1>3. PICK s : s = [Db EXCEPT !.profile[r].status = k]
  OBVIOUS
<1>4. Sound(s, Extra, {}) /\ Alike(Db, s)
  BY <1>1, <1>2, <1>3, StatusOf
<1>5. s.pairing = pairing
  BY <1>3 DEF Db
<1>6. PICK g : g = [p \in Pairings |-> [pairing[p] EXCEPT !.roster = @ \ {r}]]
  OBVIOUS
<1>7. pairing \in [Pairings -> PairingRows]
  BY <1>1, DbRows DEF Typed
<1>8. /\ g \in [Pairings -> PairingRows]
      /\ \A x \in Pairings : /\ g[x].next = s.pairing[x].next
                             /\ g[x].roster \subseteq s.pairing[x].roster
  BY <1>5, <1>6, <1>7 DEF PairingRows
<1>9. PICK t : t = [s EXCEPT !.pairing = g]
  OBVIOUS
<1>10. Sound(t, Extra, {}) /\ Alike(s, t)
  BY <1>4, <1>8, <1>9, ThinRosters
<1>11. Alike(Db, t)
  BY <1>4, <1>10, AlikeChain
<1>12. Commit(IF k = "INACTIVE" THEN t ELSE s) /\ UNCHANGED <<home, student, blocks, tools, transfers>>
  BY <1>3, <1>6, <1>9, Zenon DEF SetTuteeStatus
<1>13. Commit(t) \/ Commit(s)
  BY <1>12
<1>14. QED
  BY <1>4, <1>10, <1>11, <1>12, <1>13, UntouchedTools

------------------------------------------------------------------------------
(* Confirmation.                                                             *)

(* Request r is confirmed for account h.                                     *)
Confirms(s, c, r, h) ==
    /\ \A q \in Requests \ {r} : c.survey[q] = s.survey[q] /\ c.profile[q] = s.profile[q]
    /\ c.survey[r].state = s.survey[r].state /\ c.survey[r].box = s.survey[r].box
    /\ c.survey[r].confirmed
    /\ c.profile[r].owner = h /\ c.profile[r].into = s.profile[r].into
    /\ c.profile[r].status = s.profile[r].status
    /\ c.bond = s.bond /\ c.held = s.held /\ c.pairing = s.pairing /\ c.made = s.made

LEMMA RowsTyped ==
    ASSUME NEW s, Typed(s),
           NEW x \in [Requests -> SurveyRows], NEW y \in [Requests -> ProfileRows],
           NEW c, c = [survey |-> x, profile |-> y, bond |-> s.bond, held |-> s.held,
                       pairing |-> s.pairing, made |-> s.made]
    PROVE  Typed(c)
  BY DEF Typed

LEMMA ConfirmsRows ==
    ASSUME NEW s, Typed(s), NEW r \in Requests, NEW h \in Accounts,
           NEW c, c = [s EXCEPT !.survey[r].confirmed = TRUE, !.profile[r].owner = h]
    PROVE  Typed(c) /\ Confirms(s, c, r, h)
<1>1. s.survey[r] \in SurveyRows /\ s.profile[r] \in ProfileRows
  BY DEF Typed
<1>2. PICK n : n = [s.survey[r] EXCEPT !.confirmed = TRUE]
  OBVIOUS
<1>3. PICK o : o = [s.profile[r] EXCEPT !.owner = h]
  OBVIOUS
<1>4. /\ n \in SurveyRows /\ n.state = s.survey[r].state /\ n.box = s.survey[r].box /\ n.confirmed
      /\ o \in ProfileRows /\ o.owner = h /\ o.into = s.profile[r].into
      /\ o.status = s.profile[r].status
  BY <1>1, <1>2, <1>3 DEF SurveyRows, ProfileRows
<1>5. c = [survey |-> [s.survey EXCEPT ![r] = n], profile |-> [s.profile EXCEPT ![r] = o],
           bond |-> s.bond, held |-> s.held, pairing |-> s.pairing, made |-> s.made]
  BY <1>2, <1>3 DEF Typed
<1>6. Typed(c)
  <2>1. /\ [s.survey EXCEPT ![r] = n] \in [Requests -> SurveyRows]
        /\ [s.profile EXCEPT ![r] = o] \in [Requests -> ProfileRows]
    BY <1>4 DEF Typed
  <2>2. PICK x, y : x = [s.survey EXCEPT ![r] = n] /\ y = [s.profile EXCEPT ![r] = o]
    OBVIOUS
  <2>3. c = [survey |-> x, profile |-> y, bond |-> s.bond, held |-> s.held,
             pairing |-> s.pairing, made |-> s.made]
    BY <1>5, <2>2
  <2>4. QED
    BY <2>1, <2>2, <2>3, RowsTyped
<1>7. Confirms(s, c, r, h)
  BY <1>4, <1>5 DEF Typed, Confirms
<1>8. QED
  BY <1>6, <1>7

LEMMA ConfirmsSound ==
    ASSUME NEW s, NEW X, NEW R, Sound(s, X, R), NEW r \in Requests, Open(s, r),
           NEW h \in Accounts, NEW c, Typed(c), Confirms(s, c, r, h)
    PROVE  Sound(c, X, R)
<1>1. Typed(s) /\ Signed(s) /\ Acyclic(s) /\ Alone(s) /\ Named(s) /\ Served(s, X, R)
  BY DEF Sound
<1>2. \A q \in Requests : /\ c.profile[q].into = s.profile[q].into
                          /\ c.profile[q].status = s.profile[q].status
                          /\ c.survey[q].state = s.survey[q].state
                          /\ c.survey[q].box = s.survey[q].box
                          /\ Early(c, q) => Early(s, q)
  BY DEF Confirms, Early
<1>3. Signed(c)
  BY <1>1, <1>2 DEF Signed, Confirms, Open
<1>4. Acyclic(c)
  <2>1. ASSUME NEW S \in SUBSET Requests, S # {}
        PROVE  \E x \in S : c.profile[x].into \notin S
    BY <1>1, <1>2, <2>1 DEF Acyclic
  <2>2. QED
    BY <2>1 DEF Acyclic
<1>5. c.bond = s.bond /\ c.held = s.held
  BY DEF Confirms
<1>6. Alone(c)
  BY <1>1, <1>2, <1>5 DEF Alone
<1>7. Named(c)
  <2>1. \A q \in Requests, p \in Pairings : s.bond[q][p] \in Requests \cup {Nobody}
    BY <1>1 DEF Typed
  <2>2. QED
    BY <1>1, <1>2, <1>5, <2>1 DEF Named
<1>8. Served(c, X, R)
  <2>1. Thinner(s, c)
    BY DEF Thinner, Confirms
  <2>2. \A q \in Requests : Open(s, q) => Open(c, q) \/ q \in R
    BY <1>2 DEF Open
  <2>3. QED
    BY <1>1, <2>1, <2>2, ThinnerServed
<1>9. QED
  BY <1>3, <1>4, <1>6, <1>7, <1>8 DEF Sound

LEMMA ConfirmRows ==
    ASSUME WInv, NEW r \in Requests, Confirm(r)
    PROVE  WInv' /\ Lets(Db, Db')
<1>1. Sound(Db, Extra, {}) /\ SeatsOf(Db, student, transfers) /\ Booked
  BY DEF WInv
<1>2. Typed(Db) /\ Signed(Db) /\ Acyclic(Db) /\ Open(Db, r)
  BY <1>1 DEF Sound, Confirm, Processable, Current
<1>3. survey[r].box \in Mailboxes
  BY <1>2, DbRows DEF Signed, Open
<1>4. PICK h \in Accounts : h = home[survey[r].box]
  BY <1>1, <1>3 DEF Booked
<1>5. PICK c : c = [Db EXCEPT !.survey[r].confirmed = TRUE, !.profile[r].owner = h]
  OBVIOUS
<1>6. Typed(c) /\ Confirms(Db, c, r, h)
  BY <1>2, <1>5, ConfirmsRows
<1>7. Sound(c, Extra, {})
  BY <1>1, <1>2, <1>6, ConfirmsSound
<1>8. PICK t : t = Materialized(c, r)
  OBVIOUS
<1>9. c.survey[r].state # "NONE"
  BY <1>2, <1>6 DEF Confirms, Open
<1>10. Sound(t, Extra, {}) /\ Alike(c, t)
  BY <1>7, <1>8, <1>9, MaterializedSound
<1>11. /\ Commit(t) /\ student' = [student EXCEPT ![h] = r]
       /\ UNCHANGED <<home, blocks, tools, transfers>>
  BY <1>4, <1>5, <1>8, Zenon DEF Confirm
<1>12. Db' = t
  BY <1>10, <1>11, Committed DEF Sound
<1>13. /\ \A x \in Requests : t.profile[x].into = Db.profile[x].into
       /\ \A x \in Requests \ {r} : t.profile[x].owner = Db.profile[x].owner
       /\ \A q \in Requests \ {r} : Sits(t, q) => Sits(Db, q)
       /\ t.profile[r].owner = h
       /\ \A q \in Requests : Open(Db, q) => Open(t, q)
  BY <1>6, <1>10 DEF Alike, Confirms, Sits, Open
<1>14. \A q \in Requests \ {r} : Sits(Db, q) => Db.profile[q].owner # h
  BY <1>4, DbRows DEF Confirm, Eligible, Sits
<1>15. SeatsOf(t, [student EXCEPT ![h] = r], transfers)
  BY <1>1, <1>2, <1>10, <1>13, <1>14, SeatsConfirmed DEF Booked, Sound
<1>16. Lets(Db, t)
  BY <1>13 DEF Lets
<1>17. Booked'
  BY <1>1, <1>11 DEF Booked
<1>18. Extra' = Extra
  BY <1>11 DEF Extra
<1>19. SeatsOf(Db, student, transfers)' /\ Sound(Db, Extra, {})'
  BY <1>10, <1>11, <1>12, <1>15, <1>18
<1>20. QED
  BY <1>12, <1>16, <1>17, <1>19 DEF WInv

------------------------------------------------------------------------------
(* How a request ends, and how it gives up one pairing.                      *)

LEMMA ClosingRows ==
    ASSUME WInv, NEW r \in Requests, Open(Db, r), NEW state \in Terminal,
           Commit(Closed(Db, r, state)), Booked',
           UNCHANGED <<home, student, tools, transfers>>
    PROVE  WInv' /\ Lets(Db, Db')
<1>1. Sound(Db, Extra, {}) /\ SeatsOf(Db, student, transfers) /\ Typed(Db) /\ Acyclic(Db)
  BY DEF WInv, Sound
<1>2. PICK t : t = Closed(Db, r, state)
  OBVIOUS
<1>3. Sound(t, Extra, {}) /\ Ends(Db, t, r, state)
  BY <1>1, <1>2, ClosedSound
<1>4. Typed(t)
  BY <1>3 DEF Sound
<1>5. Db' = t
  BY <1>2, <1>4, Committed
<1>6. state # "OPEN"
  BY DEF Terminal
<1>7. SamePlaces(Db, t) /\ \A q \in Requests : Sits(t, q) => Sits(Db, q)
  BY <1>3, <1>6 DEF Ends, SamePlaces, Sits, Open
<1>8. SeatsOf(t, student, transfers)
  BY <1>1, <1>4, <1>7, SeatsStay
<1>9. Lets(Db, t)
  <2>1. ASSUME NEW q \in Requests, Open(Db, q), ~Open(t, q)
        PROVE  OthersHave(Db, t, q)
    <3>1. q = r
      BY <1>3, <2>1 DEF Ends, Open
    <3>2. QED
      BY <1>3, <3>1 DEF Ends
  <2>2. QED
    BY <2>1 DEF Lets
<1>10. Extra' = Extra
  BY DEF Extra
<1>11. SeatsOf(Db, student, transfers)' /\ Sound(Db, Extra, {})'
  BY <1>3, <1>5, <1>8, <1>10
<1>12. QED
  BY <1>5, <1>9, <1>11 DEF WInv

LEMMA ClosingRowSteps ==
    ASSUME WInv, NEW r \in Requests, Recall(r) \/ ApproveAbort(r) \/ RejectAppeal(r) \/ Expire(r)
    PROVE  WInv' /\ Lets(Db, Db')
<1>1. Open(Db, r) /\ UNCHANGED <<home, student, tools, transfers>>
  BY DEF Recall, ApproveAbort, RejectAppeal, Expire, Owned, Current
<1>2. PICK state \in Terminal : Commit(Closed(Db, r, state))
  BY DEF Recall, ApproveAbort, RejectAppeal, Expire, Terminal
<1>3. blocks' \subseteq Mailboxes \X Accounts
  <2>1. CASE blocks' = blocks
    BY <2>1 DEF WInv, Booked
  <2>2. CASE ApproveAbort(r)
    <3>1. Signed(Db) /\ survey[r].leave
      BY <2>2 DEF WInv, Sound, ApproveAbort
    <3>2. survey[r].box \in Mailboxes /\ profile[r].owner \in Accounts
      BY <1>1, <3>1, DbRows DEF Signed, Open
    <3>3. QED
      BY <2>2, <3>2 DEF ApproveAbort, WInv, Booked
  <2>3. QED
    BY <2>1, <2>2 DEF Recall, RejectAppeal, Expire
<1>4. Booked'
  BY <1>1, <1>3 DEF WInv, Booked
<1>5. QED
  BY <1>1, <1>2, <1>4, ClosingRows

LEMMA ApproveScheduleRejectionRows ==
    ASSUME WInv, NEW r \in Requests, NEW p \in Pairings, ApproveScheduleRejection(r, p)
    PROVE  WInv' /\ Lets(Db, Db') /\ OthersHave(Db, Db', r)
<1>1. Sound(Db, Extra, {}) /\ Open(Db, r)
  BY DEF WInv, ApproveScheduleRejection, Current
<1>2. survey[r] \in SurveyRows /\ (survey[r].leave => survey[r].confirmed)
  BY SurveyTyped
<1>3. PICK n : n = [survey[r] EXCEPT !.conflicts = @ \ {p}]
  OBVIOUS
<1>4. /\ n \in SurveyRows /\ n.state = Db.survey[r].state /\ n.box = Db.survey[r].box
      /\ n.confirmed <=> Db.survey[r].confirmed
      /\ n.leave => n.confirmed
  BY <1>2, <1>3, DbRows DEF SurveyRows
<1>5. PICK s : s = [Db EXCEPT !.survey = [Db.survey EXCEPT ![r] = n]]
  OBVIOUS
<1>6. Sound(s, Extra, {}) /\ Alike(Db, s)
  BY <1>1, <1>4, <1>5, RowSound
<1>7. Open(s, r) /\ s.survey[r].state # "NONE"
  BY <1>1, <1>6 DEF Alike, Open
<1>8. Sound(s, Extra, {r})
  BY <1>6, Enough
<1>9. PICK ps : ps = {ExecPairing(Db, p)}
  OBVIOUS
<1>10. PICK t : t = Released(s, r, ps, "PENDING")
  OBVIOUS
<1>11. "PENDING" \in Status
  BY DEF Status
<1>12. Sound(t, Extra, {}) /\ Alike(s, t) /\ OthersHave(s, t, r)
  BY <1>7, <1>8, <1>10, <1>11, ReleasedSound
<1>13. s = [Db EXCEPT !.survey[r].conflicts = @ \ {p}]
  BY <1>3, <1>5 DEF Db
<1>14. Commit(t) /\ UNCHANGED <<home, student, blocks, tools, transfers>>
  BY <1>9, <1>10, <1>13, Zenon DEF ApproveScheduleRejection
<1>15. Alike(Db, t)
  BY <1>6, <1>12, AlikeChain
<1>16. WInv' /\ Lets(Db, Db')
  BY <1>12, <1>14, <1>15, UntouchedTools
<1>17. Db' = t
  BY <1>12, <1>14, Committed DEF Sound
<1>18. OthersHave(Db, t, r)
  <2>1. s.bond = Db.bond /\ s.held = Db.held /\ s.pairing = Db.pairing /\ s.made = Db.made
    BY <1>5 DEF Db
  <2>2. ASSUME NEW q \in Requests PROVE Assignments(s, q) = Assignments(Db, q)
    BY <2>1, SameAssignments
  <2>3. \A q \in Requests : Open(Db, q) => Open(s, q)
    BY <1>6 DEF Alike, Open
  <2>4. QED
    BY <1>12, <2>2, <2>3 DEF OthersHave
<1>19. QED
  BY <1>16, <1>17, <1>18

------------------------------------------------------------------------------
(* Transfers.                                                                *)

(* The records a transfer makes before it moves anything.                    *)
Keeping(s, seen) ==
    [s EXCEPT
       !.bond = [q \in Requests |-> IF q \in seen THEN Retained(s, q).bond[q] ELSE @[q]],
       !.held = [q \in Requests |-> IF q \in seen THEN Retained(s, q).held[q] ELSE @[q]]]

LEMMA RecordsTyped ==
    ASSUME NEW s, Typed(s), NEW b \in [Requests -> [Pairings -> Requests \cup {Nobody}]],
           NEW h \in [Requests -> SUBSET Pairings],
           NEW t, t = [survey |-> s.survey, profile |-> s.profile, bond |-> b, held |-> h,
                       pairing |-> s.pairing, made |-> s.made]
    PROVE  Typed(t)
  BY DEF Typed

LEMMA KeepingKept ==
    ASSUME NEW s, Typed(s), NEW seen, seen \subseteq Requests, NEW t, t = Keeping(s, seen)
    PROVE  Typed(t) /\ Kept(s, t, seen)
<1>1. PICK b : b = [q \in Requests |-> IF q \in seen THEN Retained(s, q).bond[q] ELSE s.bond[q]]
  OBVIOUS
<1>2. PICK h : h = [q \in Requests |-> IF q \in seen THEN Retained(s, q).held[q] ELSE s.held[q]]
  OBVIOUS
<1>3. t = [survey |-> s.survey, profile |-> s.profile, bond |-> b, held |-> h,
           pairing |-> s.pairing, made |-> s.made]
  BY <1>1, <1>2 DEF Keeping, Typed
<1>4. ASSUME NEW q \in Requests
      PROVE  /\ b[q] \in [Pairings -> Requests \cup {Nobody}] /\ h[q] \in SUBSET Pairings
             /\ IF q \in seen /\ ~Mapped(s, q)
                THEN /\ b[q] = [p \in Pairings |-> IF p \in Own(s, q) THEN q ELSE Nobody]
                     /\ h[q] = Own(s, q)
                ELSE b[q] = s.bond[q] /\ h[q] = s.held[q]
  <2>1. PICK u : u = Retained(s, q)
    OBVIOUS
  <2>2. Typed(u) /\ Kept(s, u, {q})
    BY <2>1, RetainedKept
  <2>3. u.bond[q] \in [Pairings -> Requests \cup {Nobody}] /\ u.held[q] \in SUBSET Pairings
    BY <2>2 DEF Typed
  <2>4. s.bond[q] \in [Pairings -> Requests \cup {Nobody}] /\ s.held[q] \in SUBSET Pairings
    BY DEF Typed
  <2>5. IF ~Mapped(s, q)
        THEN /\ u.bond[q] = [p \in Pairings |-> IF p \in Own(s, q) THEN q ELSE Nobody]
             /\ u.held[q] = Own(s, q)
        ELSE u.bond[q] = s.bond[q] /\ u.held[q] = s.held[q]
    BY <2>2 DEF Kept
  <2>6. /\ b[q] = IF q \in seen THEN u.bond[q] ELSE s.bond[q]
        /\ h[q] = IF q \in seen THEN u.held[q] ELSE s.held[q]
    BY <1>1, <1>2, <2>1
  <2>7. QED
    BY <2>3, <2>4, <2>5, <2>6
<1>5. /\ b \in [Requests -> [Pairings -> Requests \cup {Nobody}]]
      /\ h \in [Requests -> SUBSET Pairings]
  <2>1. /\ b = [q \in Requests |-> b[q]] /\ h = [q \in Requests |-> h[q]]
    BY <1>1, <1>2
  <2>2. QED
    BY <1>4, <2>1
<1>6. Typed(t)
  BY <1>3, <1>5, RecordsTyped
<1>7. /\ t.survey = s.survey /\ t.profile = s.profile /\ t.pairing = s.pairing /\ t.made = s.made
      /\ t.bond = b /\ t.held = h
  BY <1>3
<1>8. Kept(s, t, seen)
  BY <1>4, <1>7 DEF Kept
<1>9. QED
  BY <1>6, <1>8

LEMMA TransferRows ==
    ASSUME WInv, NEW src \in Requests, NEW tgt \in Requests, NEW a \in Accounts,
           TransferParticipation(src, tgt, a)
    PROVE  WInv' /\ Lets(Db, Db')
<1>1. /\ Sound(Db, Extra, {}) /\ Extra \in {{}, Pairings \X Requests} /\ Typed(Db)
      /\ SeatsOf(Db, student, transfers) /\ transfers \in Nat /\ Booked
  BY DEF WInv, Sound, Extra, Booked
<1>2. Joinable(Db, src, tgt)
  BY DbRows DEF TransferParticipation, MayTransfer, Family, Joinable
<1>3. PICK old : old = On(Db, src) \cap Live(Db)
  OBVIOUS
<1>4. PICK seen : seen = {q \in Requests : Open(Db, q) /\ (q \in Family(src, tgt)
                                        \/ \E p \in old : q \in pairing[p].roster)}
  OBVIOUS
<1>5. PICK s : s = Keeping(Db, seen)
  OBVIOUS
<1>6. Typed(s) /\ Kept(Db, s, seen)
  BY <1>1, <1>4, <1>5, KeepingKept
<1>7. PICK m : m = Moved(s, src, tgt)
  OBVIOUS
<1>8. PICK t : t = [m EXCEPT
                !.profile[src] = [status |-> "INACTIVE", owner |-> a, into |-> tgt],
                !.profile[tgt] = [status |-> "ACTIVE", owner |-> a, into |-> Nobody]]
  OBVIOUS
<1>9. /\ made + Cardinality(old) <= MaxPairings /\ Commit(t)
      /\ transfers < MaxTransfers /\ student[a] \in {Nobody, src, tgt}
      /\ student' = [b \in Accounts |-> IF b = a THEN tgt
                                      ELSE IF student[b] \in {src, tgt} THEN Nobody
                                      ELSE student[b]]
      /\ transfers' = transfers + 1
      /\ UNCHANGED <<home, blocks, tools>>
  BY <1>3, <1>4, <1>5, <1>7, <1>8, Zenon DEF TransferParticipation, Keeping, Db
<1>10. PICK f : f = [[Db.profile EXCEPT
                        ![src] = [status |-> "INACTIVE", owner |-> a, into |-> tgt]] EXCEPT
                        ![tgt] = [status |-> "ACTIVE", owner |-> a, into |-> Nobody]]
  OBVIOUS
<1>11. Joins(Db, f, src, tgt, a)
  <2>1. Db.profile \in [Requests -> ProfileRows] /\ src # tgt
    BY <1>1, <1>2 DEF Typed, Joinable
  <2>2. /\ [status |-> "INACTIVE", owner |-> a, into |-> tgt] \in ProfileRows
        /\ [status |-> "ACTIVE", owner |-> a, into |-> Nobody] \in ProfileRows
    BY DEF ProfileRows, Status
  <2>3. QED
    BY <1>10, <2>1, <2>2 DEF Joins
<1>12. m.profile = Db.profile
  <2>1. m.profile = s.profile
    BY <1>7 DEF Moved
  <2>2. QED
    BY <1>6, <2>1 DEF Kept
<1>13. t = [m EXCEPT !.profile = f]
  BY <1>8, <1>10, <1>12
<1>14. Sound(t, Extra, {}) /\ t.survey = Db.survey /\ t.profile = f
  <2>1. \A q \in seen : Open(Db, q)
    BY <1>4
  <2>2. \A q \in Requests : \A p \in old : Open(Db, q) /\ q \in Db.pairing[p].roster => q \in seen
    BY <1>4, DbRows
  <2>3. Db.made + Cardinality(old) <= MaxPairings /\ seen \subseteq Requests
    BY <1>4, <1>9, DbRows
  <2>4. Sees(Db, src, old, seen)
    BY <1>3, <2>1, <2>2, <2>3 DEF Sees
  <2>5. Rehomes(s, t, src, tgt, f)
    BY <1>7, <1>13 DEF Rehomes
  <2>6. Rehomed(Db, t, Extra, f)
    BY <1>1, <1>2, <1>6, <1>11, <2>4, <2>5, JoinedSound
  <2>7. QED
    BY <2>6 DEF Rehomed
<1>15. Db' = t
  BY <1>9, <1>14, Committed DEF Sound
<1>16. SeatsOf(t, student', transfers + 1)
  <2>1. Joins(Db, t.profile, src, tgt, a)
    BY <1>11, <1>14
  <2>2. student \in [Accounts -> Requests \cup {Nobody}]
    BY <1>1 DEF Booked
  <2>3. QED
    BY <1>1, <1>2, <1>9, <1>14, <2>1, <2>2, SeatsJoined
<1>17. Lets(Db, t)
  BY <1>14 DEF Lets, Open
<1>18. Booked'
  <2>1. student' \in [Accounts -> Requests \cup {Nobody}]
    BY <1>1, <1>9 DEF Booked
  <2>2. transfers' \in 0 .. MaxTransfers
    BY <1>1, <1>9, RequestsAssumption DEF Booked
  <2>3. QED
    BY <1>1, <1>9, <2>1, <2>2 DEF Booked
<1>19. Extra' = Extra
  BY <1>9 DEF Extra
<1>20. SeatsOf(Db, student, transfers)' /\ Sound(Db, Extra, {})'
  BY <1>9, <1>14, <1>15, <1>16, <1>19
<1>21. QED
  BY <1>15, <1>17, <1>18, <1>20 DEF WInv

------------------------------------------------------------------------------
(* The rows stay sound.                                                      *)

(* Every step keeps the rows sound.                                          *)
LEMMA InitWInv == Init => WInv
<1>1. SUFFICES ASSUME Init PROVE WInv
  OBVIOUS
<1>2. /\ Db.survey = [r \in Requests |->
          [state |-> "NONE", box |-> Nobody, link |-> 1, confirmed |-> FALSE,
           flagged |-> FALSE, due |-> "none", leave |-> FALSE, conflicts |-> {}]]
      /\ Db.profile = [r \in Requests |-> [status |-> "NONE", owner |-> Nobody, into |-> Nobody]]
      /\ Db.bond = [r \in Requests |-> [p \in Pairings |-> Nobody]]
      /\ Db.held = [r \in Requests |-> {}]
      /\ Db.pairing = [p \in Pairings |-> [roster |-> {}, next |-> None]] /\ Db.made = 0
  BY <1>1 DEF Init, Db
<1>3. 1 \in Links /\ None \in 0 .. MaxPairings /\ 0 \in 0 .. MaxPairings
  BY RequestsAssumption DEF Links, None
<1>4. Typed(Db)
  <2>1. [state |-> "NONE", box |-> Nobody, link |-> 1, confirmed |-> FALSE,
         flagged |-> FALSE, due |-> "none", leave |-> FALSE, conflicts |-> {}] \in SurveyRows
    BY <1>3 DEF SurveyRows
  <2>2. [status |-> "NONE", owner |-> Nobody, into |-> Nobody] \in ProfileRows
    BY DEF ProfileRows
  <2>3. [roster |-> {}, next |-> None] \in PairingRows
    BY <1>3 DEF PairingRows
  <2>4. Db = [survey |-> Db.survey, profile |-> Db.profile, bond |-> Db.bond,
              held |-> Db.held, pairing |-> Db.pairing, made |-> Db.made]
    BY DEF Db
  <2>5. /\ Db.survey \in [Requests -> SurveyRows] /\ Db.profile \in [Requests -> ProfileRows]
        /\ Db.pairing \in [Pairings -> PairingRows]
    BY <1>2, <2>1, <2>2, <2>3
  <2>6. /\ Db.bond \in [Requests -> [Pairings -> Requests \cup {Nobody}]]
        /\ Db.held \in [Requests -> SUBSET Pairings]
        /\ Db.made \in 0 .. MaxPairings
    BY <1>2, <1>3
  <2>7. QED
    BY <2>4, <2>5, <2>6 DEF Typed
<1>5. Signed(Db)
  BY <1>2 DEF Signed
<1>6. Acyclic(Db)
  <2>1. ASSUME NEW S \in SUBSET Requests, S # {} PROVE \E x \in S : Db.profile[x].into \notin S
    <3>1. PICK x : x \in S
      BY <2>1
    <3>2. Db.profile[x].into = Nobody /\ Nobody \notin S
      BY <1>2, <3>1, RequestsAssumption
    <3>3. QED
      BY <3>1, <3>2
  <2>2. QED
    BY <2>1 DEF Acyclic
<1>7. Alone(Db)
  BY <1>2, RequestsAssumption DEF Alone
<1>8. Named(Db)
  BY <1>2 DEF Named
<1>9. Live(Db) = {}
  BY <1>2 DEF Live
<1>10. Served(Db, Extra, {})
  BY <1>9 DEF Served
<1>11. Booked
  BY <1>1, RequestsAssumption DEF Init, Booked, Accounts
<1>12. SeatsOf(Db, student, transfers)
  <2>1. \A r \in Requests : Db.profile[r].into = Nobody /\ ~Sits(Db, r)
    BY <1>2 DEF Sits, Open
  <2>2. QED
    BY <2>1 DEF SeatsOf
<1>13. QED
  BY <1>4, <1>5, <1>6, <1>7, <1>8, <1>10, <1>11, <1>12 DEF WInv, Sound

LEMMA StepRows ==
    ASSUME WInv, IInv, Next
    PROVE  WInv' /\ Lets(Db, Db')
<1>1. ASSUME NEW w \in Senders, Mail(w) \/ GiveUp(w) \/ Publish(w)
      PROVE  WInv' /\ Lets(Db, Db')
  BY <1>1, MailSteps, PublishRows
<1>2. ASSUME NEW w \in Senders, NEW r \in Requests, StartResend(w, r)
      PROVE  WInv' /\ Lets(Db, Db')
  BY <1>2, MailSteps
<1>3. ASSUME NEW w \in Senders, NEW r \in Requests, NEW m \in Mailboxes, Submit(w, r, m)
      PROVE  WInv' /\ Lets(Db, Db')
  BY <1>3, SubmitRows
<1>4. ASSUME NEW m \in Mailboxes, NEW a \in Mailboxes, ConfirmSecondaryEmail(m, a)
      PROVE  WInv' /\ Lets(Db, Db')
  BY <1>4, MailSteps
<1>5. ASSUME NEW r \in Requests,
             \/ Confirm(r) \/ DeadlinePasses(r) \/ Flag(r) \/ Unflag(r) \/ Assign(r)
             \/ AssignTutee(r) \/ Recall(r) \/ ApplyAbort(r) \/ ApproveAbort(r) \/ DenyAbort(r)
             \/ RejectAppeal(r) \/ Expire(r)
      PROVE  WInv' /\ Lets(Db, Db')
  <2>1. CASE Confirm(r) \/ Assign(r) \/ AssignTutee(r)
    BY <2>1, ConfirmRows, AssignRows, AssignTuteeRows
  <2>2. CASE DeadlinePasses(r) \/ Flag(r) \/ Unflag(r) \/ ApplyAbort(r) \/ DenyAbort(r)
    BY <2>2, SurveyRowSteps
  <2>3. CASE Recall(r) \/ ApproveAbort(r) \/ RejectAppeal(r) \/ Expire(r)
    BY <2>3, ClosingRowSteps
  <2>4. QED
    BY <1>5, <2>1, <2>2, <2>3
<1>6. ASSUME NEW r \in Requests, NEW p \in Pairings,
             \/ HeadUnassign(r, p) \/ ApplyScheduleRejection(r, p)
             \/ ApproveScheduleRejection(r, p) \/ DenyScheduleRejection(r, p)
      PROVE  WInv' /\ Lets(Db, Db')
  <2>1. CASE HeadUnassign(r, p)
    BY <2>1, HeadUnassignRows
  <2>2. CASE ApplyScheduleRejection(r, p) \/ DenyScheduleRejection(r, p)
    BY <2>2, SurveyRowSteps
  <2>3. CASE ApproveScheduleRejection(r, p)
    BY <2>3, ApproveScheduleRejectionRows
  <2>4. QED
    BY <1>6, <2>1, <2>2, <2>3
<1>7. ASSUME NEW r \in Requests, NEW k \in Status, SetTuteeStatus(r, k)
      PROVE  WInv' /\ Lets(Db, Db')
  BY <1>7, SetTuteeStatusRows
<1>8. ASSUME NEW ts \in SUBSET Requests,
             CreatePairing(ts) \/ \E p \in Pairings : UpdatePairing(p, ts)
      PROVE  WInv' /\ Lets(Db, Db')
  BY <1>8, CreatePairingRows, UpdatePairingRows
<1>9. ASSUME NEW src \in Requests, NEW tgt \in Requests, NEW a \in Accounts,
             TransferParticipation(src, tgt, a)
      PROVE  WInv' /\ Lets(Db, Db')
  BY <1>9, TransferRows
<1>10. QED
  BY <1>1, <1>2, <1>3, <1>4, <1>5, <1>6, <1>7, <1>8, <1>9 DEF Next

LEMMA StutterRows ==
    ASSUME WInv, UNCHANGED vars
    PROVE  WInv'
  BY DEF WInv, Booked, Extra, Db, vars, rows

LEMMA RowsSound == Spec => []WInv
<1>1. WInv /\ IInv /\ [Next]_vars => WInv'
  BY StepRows, StutterRows
<1>2. QED
  BY <1>1, InitWInv, Invariance, PTL DEF Spec

------------------------------------------------------------------------------
(* The theorems.                                                             *)

LEMMA TypesHold == WInv /\ IInv => TypeOK
<1>1. SUFFICES ASSUME WInv, IInv PROVE TypeOK
  OBVIOUS
<1>2. Typed(Db) /\ Booked /\ MailTyped
  BY <1>1 DEF WInv, Sound, IInv
<1>3. /\ survey \in [Requests -> SurveyRows] /\ profile \in [Requests -> ProfileRows]
      /\ bond \in [Requests -> [Pairings -> Requests \cup {Nobody}]]
      /\ held \in [Requests -> SUBSET Pairings]
      /\ pairing \in [Pairings -> PairingRows] /\ made \in 0 .. MaxPairings
  BY <1>2, DbRows DEF Typed
<1>4. QED
  BY <1>2, <1>3 DEF TypeOK, Booked, MailTyped

(* Whatever the workflow, the roster tools and the transfers do, the rows   *)
(* of requests, profiles, records and pairings stay well formed: a request   *)
(* is only served by profiles, on pairings that were made.                   *)
THEOREM TypeCorrect == Spec => []TypeOK
<1>1. WInv /\ IInv => TypeOK
  BY TypesHold
<1>2. QED
  BY <1>1, RowsSound, Invariance, PTL

LEMMA RosterServed == WInv => WorkflowClearsRoster
<1>1. SUFFICES ASSUME WInv, tools = 0, NEW r \in Requests, survey[r].state \in Terminal,
                      NEW p \in On(Db, r) \cap Live(Db)
               PROVE  \E q \in Requests : Open(Db, q) /\ p \in held[q] /\ bond[q][p] = r
  BY DEF WorkflowClearsRoster, ClosedMeansOffRoster, OffRoster
<1>2. Served(Db, {}, {})
  BY <1>1 DEF WInv, Sound, Extra
<1>3. p \in Live(Db) /\ r \in Db.pairing[p].roster
  BY <1>1 DEF On
<1>4. PICK q \in Requests : Open(Db, q) /\ <<p, r>> \in Assignments(Db, q)
  BY <1>2, <1>3 DEF Served
<1>5. q # r
  BY <1>1, <1>4, DbRows DEF Open, Terminal
<1>6. CASE Mapped(Db, q)
  <2>1. p \in Db.held[q] /\ Db.bond[q][p] = r
    BY <1>4, <1>6 DEF Assignments
  <2>2. QED
    BY <1>4, <2>1, DbRows
<1>7. CASE ~Mapped(Db, q)
  BY <1>4, <1>5, <1>7 DEF Assignments
<1>8. QED
  BY <1>6, <1>7

(* While staff assign through the workflow only, the profile of a request    *)
(* that has ended is on no current pairing, unless another open request is   *)
(* recorded there through it (closeStudentRequest), whatever transfers moved *)
(* and whoever shared a member.                                              *)
THEOREM RosterCleared == Spec => []WorkflowClearsRoster
<1>1. WInv => WorkflowClearsRoster
  BY RosterServed
<1>2. QED
  BY <1>1, RowsSound, PTL

LEMMA SeatTaken == WInv => OneSeat
<1>1. SUFFICES ASSUME WInv, transfers <= 2, NEW q \in Requests, NEW r \in Requests,
                      Open(Db, q), Open(Db, r), survey[q].confirmed, survey[r].confirmed,
                      profile[q].owner = profile[r].owner
               PROVE  Exec(Db, q) = Exec(Db, r)
  BY DEF OneSeat
<1>2. Sits(Db, q) /\ Sits(Db, r) /\ Db.profile[q].owner = Db.profile[r].owner
  BY <1>1, DbRows DEF Sits
<1>3. SeatsOf(Db, student, transfers)
  BY <1>1 DEF WInv
<1>4. QED
  BY <1>1, <1>2, <1>3 DEF SeatsOf

(* No account owns two confirmed open requests that different profiles work  *)
(* on (assertIntakeEligibility), whatever mailboxes they came from: without  *)
(* transfers, because a confirmation looks for another; with up to two,      *)
(* because the account's one profile is where its seat is.                   *)
THEOREM SeatKept == Spec => []OneSeat
<1>1. WInv => OneSeat
  BY SeatTaken
<1>2. QED
  BY <1>1, RowsSound, PTL

LEMMA ExpiryGuarded == WInv => ExpiryNeverBlocked
<1>1. SUFFICES ASSUME WInv, NEW r \in Requests, Open(Db, r), Overdue(Db, r)
               PROVE  Guarded(Closed(Db, r, "DISQUALIFIED"))
  BY DEF ExpiryNeverBlocked
<1>2. PICK t : t = Closed(Db, r, "DISQUALIFIED")
  OBVIOUS
<1>3. "DISQUALIFIED" \in Terminal /\ Early(Db, r) /\ Sound(Db, Extra, {})
  BY <1>1 DEF Terminal, Early, Overdue, Open, WInv
<1>4. /\ Slimmer(Db, t) /\ Sound(t, Extra, {})
      /\ Early(Db, r) => \A x \in Requests : t.profile[x].status \in
            {Db.profile[x].status} \cup (IF x = r THEN {"INACTIVE"} ELSE {})
  BY <1>1, <1>2, <1>3, ClosedSound
<1>5. \A p \in Pairings : /\ t.pairing[p].roster \subseteq pairing[p].roster
                          /\ p \notin Live(Db) => t.pairing[p] = pairing[p]
  BY <1>4, DbRows DEF Slimmer
<1>6. \A x \in Requests : t.profile[x].status \in {"INACTIVE", profile[x].status}
  BY <1>3, <1>4, DbRows
<1>7. \A p \in Pairings : \A x \in t.pairing[p].roster \ pairing[p].roster : MayJoin(t, p, x)
  BY <1>5
<1>8. \A x \in Requests : MayRise(t, x)
  BY <1>6 DEF MayRise
<1>9. ASSUME NEW p \in Pairings, pairing[p].next # None PROVE t.pairing[p] = pairing[p]
  <2>1. p \notin Live(Db)
    BY <1>9, DbRows DEF Live
  <2>2. QED
    BY <1>5, <2>1
<1>10. Guarded(t)
  BY <1>7, <1>8, <1>9 DEF Guarded
<1>11. QED
  BY <1>2, <1>10

(* The triggers never refuse the expiry of an overdue request: nobody is put *)
(* on a roster by it, nobody becomes active, and superseded pairings keep    *)
(* their rosters.                                                            *)
THEOREM ExpiryPasses == Spec => []ExpiryNeverBlocked
<1>1. WInv => ExpiryNeverBlocked
  BY ExpiryGuarded
<1>2. QED
  BY <1>1, RowsSound, PTL

LettingGo ==
    \A r \in Requests : LetsGo(r) =>
        \A q \in Requests \ {r} : Open(Db, q) => Assignments(Db, q)' = Assignments(Db, q)

LEMMA LettingGoStep == WInv /\ IInv /\ [Next]_vars => [LettingGo]_vars
<1>1. SUFFICES ASSUME WInv, IInv, Next, NEW r \in Requests, LetsGo(r),
                      NEW q \in Requests \ {r}, Open(Db, q)
               PROVE  Assignments(Db, q)' = Assignments(Db, q)
  BY DEF LettingGo
<1>2. OthersHave(Db, Db', r)
  <2>1. CASE survey[r].state = "OPEN" /\ survey'[r].state # "OPEN"
    <3>1. Lets(Db, Db')
      BY <1>1, StepRows
    <3>2. Open(Db, r) /\ ~Open(Db', r)
      BY <2>1 DEF Open, Db
    <3>3. QED
      BY <3>1, <3>2 DEF Lets
  <2>2. CASE \E p \in Pairings : ApproveScheduleRejection(r, p)
    BY <1>1, <2>2, ApproveScheduleRejectionRows
  <2>3. QED
    BY <1>1, <2>1, <2>2 DEF LetsGo
<1>3. Assignments(Db', q) = Assignments(Db, q)
  BY <1>1, <1>2 DEF OthersHave
<1>4. QED
  BY <1>3

(* A request that ends or gives up a pairing leaves every other open request *)
(* the assignments it had, recorded or derived (releaseStudentRequest-       *)
(* Execution).                                                               *)
THEOREM OthersStay == Spec => OthersKept
<1>1. WInv /\ IInv /\ [Next]_vars => [LettingGo]_vars
  BY LettingGoStep
<1>2. Spec => [][LettingGo]_vars
  BY <1>1, RowsSound, Invariance, PTL DEF Spec
<1>3. QED
  BY <1>2, PTL DEF OthersKept, LettingGo

=============================================================================
