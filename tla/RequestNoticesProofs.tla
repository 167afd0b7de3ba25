------------------------- MODULE RequestNoticesProofs -------------------------
(***************************************************************************)
(* Theorems about RequestNotices, for any number of requests, versions,    *)
(* dispatchers, retries and faults.                                        *)
(***************************************************************************)
EXTENDS RequestNotices, DeliveryRowProofs, TLAPS

(* A flag has a version, and no receipt is ahead of its request.            *)
Versioned ==
    /\ \A s \in Sources : src[s].flagged => src[s].version >= 1
    /\ \A k \in Keys : about[k] # "none" => k.version <= src[k.of].version

(* Receipts of generic requests are appealed, flags of surveys reviewed; only *)
(* the latter have capabilities.                                             *)
KindsApart ==
    \A k \in Keys : /\ appeal[k] # "none" => k.of \in Generic
                    /\ review[k] # "none" => k.of \in Surveys
                    /\ cap[k].proof # "none" => k.of \in Surveys

(* Only receipts are sent.                                                   *)
Unborn == \A k \in Keys : row[k].status \in {"SENDING", "SENT"} => about[k] # "none"

(* What a dispatcher has captured or in hand is a receipt, and it hears only *)
(* of acceptances that happened.                                             *)
Holds(n) ==
    /\ \A c \in n.batch : c.id \in Receipts
    /\ n.pc \in {"send", "accepted", "rejected"} => n.at \in Receipts
    /\ n.pc = "accepted" => n.at \in accepted

InHand == \A w \in Workers : Holds(wk[w])

(* An appeal that waits is about a delivered flag that is still up.  Whether  *)
(* the address is still the same is not part of it: an edit changes that.    *)
Contested(k) ==
    /\ about[k] = "flag" /\ k \in accepted /\ to[k] # Absent
    /\ src[k.of].flagged /\ k.version = src[k.of].version

AppealsContest == \A k \in Keys : appeal[k] = "PENDING" => Contested(k)

IInv == /\ TypeOK /\ Versioned /\ KindsApart /\ Unborn /\ InHand
        /\ AppealsContest /\ DecisionHolds /\ EvidenceAgrees

------------------------------------------------------------------------------
LEMMA KeyIs ==
  ASSUME NEW s \in Sources, NEW n \in 1 .. MaxVersion
  PROVE  /\ [of |-> s, version |-> n] \in Keys
         /\ \A k \in Keys : k.of = s /\ k.version = n <=> k = [of |-> s, version |-> n]
  BY DEF Keys

LEMMA KeyParts == \A k \in Keys : k.of \in Sources /\ k.version \in 1 .. MaxVersion
  BY DEF Keys

LEMMA ForceIs ==
  ASSUME TypeOK, Versioned, NEW s \in Sources, src[s].flagged
  PROVE  /\ InForce(s) \in Keys
         /\ \A k \in Keys : k.of = s /\ k.version = src[s].version <=> k = InForce(s)
  <1>1. src[s].version \in 1 .. MaxVersion
    BY BoundsAssumption DEF TypeOK, Source, Versioned
  <1>. QED BY <1>1, KeyIs DEF InForce

LEMMA InvInit == Init => IInv
  <1>. SUFFICES ASSUME Init PROVE IInv
    OBVIOUS
  <1>1. src \in [Sources -> Source] /\ \A s \in Sources : src[s].flagged => src[s].version = 1
    <2>0. 0 \in 0 .. MaxVersion /\ MaxVersion \in 0 .. MaxVersion
      BY BoundsAssumption
    <2>1. \A x \in Fresh : x \in Source /\ ~x.flagged
      BY <2>0 DEF Fresh, Source, Phases, Addresses
    <2>2. \A x \in Legacy : x \in Source /\ x.version = 1
      BY DEF Legacy, Source, Phases, Addresses
    <2>4. Gone \in Source /\ ~Gone.flagged
      BY <2>0 DEF Gone, Source, Phases, Addresses
    <2>3. src \in [Sources -> Fresh \cup Legacy \cup {Gone}]
      BY DEF Init
    <2>. QED BY <2>1, <2>2, <2>3, <2>4
  <1>2. PICK old \in SUBSET {k \in Keys : k.version = 1 /\ src[k.of].flagged} :
          /\ about = [k \in Keys |-> IF k \in old THEN "flag" ELSE "none"]
          /\ to = [k \in Keys |-> IF k \in old THEN src[k.of].address ELSE Absent]
          /\ row = [k \in Keys |-> IF k \in old
                                   THEN [NewRow("SENT") EXCEPT !.attempts = 1]
                                   ELSE NewRow("PENDING")]
          /\ accepted = old
    BY DEF Init
  <1>3. /\ [NewRow("SENT") EXCEPT !.attempts = 1] \in Row
        /\ [NewRow("SENT") EXCEPT !.attempts = 1].status = "SENT"
    <2>1. 1 \in 0 .. MaxAttempts /\ "SENT" \in Statuses
      BY MaxAttemptsAssumption DEF Statuses
    <2>2. NewRow("SENT") \in Row /\ NewRow("SENT").status = "SENT"
      BY <2>1, NewRowType
    <2>. QED BY <2>1, <2>2 DEF Row
  <1>13. NewRow("PENDING") \in Row /\ NewRow("PENDING").status = "PENDING"
    BY NewRowType DEF Statuses
  <1>4. row \in [Keys -> Row] /\ \A k \in Keys : row[k].status = IF k \in old THEN "SENT" ELSE "PENDING"
    BY <1>2, <1>3, <1>13
  <1>5. NoCapability \in Capability /\ NoCapability.proof = "none"
    BY DEF NoCapability, Capability
  <1>6. Idle \in Worker /\ Idle.batch = {} /\ Idle.pc = "idle"
    BY DEF Idle, Worker
  <1>12. to \in [Keys -> Addresses]
    BY <1>1, <1>2, KeyParts DEF Source, Addresses
  <1>7. TypeOK
    <2>1. /\ about \in [Keys -> {"none", "flag", "clear"}] /\ accepted \subseteq Keys
      BY <1>2
    <2>2. /\ appeal \in [Keys -> {"none", "PENDING", "DECLINED", "CLEARED"}]
          /\ review \in [Keys -> {"none", "PENDING", "ACCEPTED", "REJECTED"}]
          /\ cap \in [Keys -> Capability] /\ wk \in [Workers -> Worker]
      BY <1>5, <1>6 DEF Init
    <2>3. up \in BOOLEAN /\ retries \in 0 .. MaxRetries /\ faults \in 0 .. MaxFaults
      BY BoundsAssumption DEF Init
    <2>. QED BY <1>1, <1>4, <1>12, <2>1, <2>2, <2>3 DEF TypeOK
  <1>8. Versioned
    BY <1>1, <1>2, KeyParts DEF Versioned
  <1>9. KindsApart /\ AppealsContest /\ DecisionHolds
    BY <1>5 DEF Init, KindsApart, AppealsContest, DecisionHolds
  <1>10. Unborn /\ EvidenceAgrees
    BY <1>2, <1>4, <1>5 DEF Init, Unborn, EvidenceAgrees, Receipts
  <1>11. InHand
    BY <1>6 DEF Init, InHand, Holds
  <1>. QED BY <1>7, <1>8, <1>9, <1>10, <1>11 DEF IInv

------------------------------------------------------------------------------
(* What a step does to a receipt.                                            *)
ClosedByDispatcher(k) ==
    \E w \in Workers :
        /\ wk'[w] # wk[w]
        /\ \/ row[k].attempt = w /\ wk[w].pc \in {"accepted", "rejected"}
           \/ row[k].lease = w /\ wk[w].pc = "loop"

(* What is known of the message does not change.                             *)
Steady(k) == /\ about'[k] = about[k] /\ cap'[k].state = cap[k].state
             /\ cap'[k].proof # "none" => cap[k].proof # "none"

RowMove(k) ==
    /\ row'[k] \in Row
    /\ row'[k].status = "SENDING" => about[k] # "none"
    /\ row'[k].status = "SENT" =>
          \/ row[k].status = "SENT" /\ Steady(k)
          \/ /\ about[k] # "none" /\ k \in accepted
             /\ HasCapability(k)' => cap'[k].state = "SENT"
    /\ row[k].status = "SENDING" /\ row'[k].status # "SENDING" => ClosedByDispatcher(k)

RowsMove == row' \in [Keys -> Row] /\ \A k \in Keys : RowMove(k)

LEMMA RowTyped == TypeOK => \A k \in Keys : row[k] \in Row /\ row[k].status \in Statuses
  BY DEF TypeOK, Row

(* It keeps its status, or it is set back or closed while nobody sends it.    *)
LEMMA SameMove ==
  ASSUME IInv, NEW k \in Keys, row'[k] \in Row, row'[k].status = row[k].status, Steady(k)
  PROVE  RowMove(k)
  BY DEF IInv, Unborn, RowMove

LEMMA RestMove ==
  ASSUME NEW k \in Keys, row'[k] \in Row, row'[k].status \notin {"SENDING", "SENT"},
         row[k].status # "SENDING"
  PROVE  RowMove(k)
  BY DEF RowMove

LEMMA QueueMoves ==
  ASSUME IInv, NEW k \in Keys, NEW invalid \in BOOLEAN, about[k] = "none",
         QueueNotice(k, invalid), \A j \in Keys \ {k} : cap'[j] = cap[j]
  PROVE  RowsMove
  <1>1. \A j \in Keys : row[j] \in Row
    BY RowTyped DEF IInv
  <1>2. row' = [j \in Keys |->
                  IF j = k THEN NewRow(IF src[k.of].address \in Mailboxes
                                       THEN "PENDING" ELSE "BLOCKED")
                  ELSE IF j \in Receipts /\ j.of = k.of /\ Withdrawable(row[j])
                       THEN Settled(row[j], "SUPERSEDED") ELSE row[j]]
    BY DEF QueueNotice
  <1>3. row'[k] \in Row /\ row'[k].status \in {"PENDING", "BLOCKED"}
    <2>1. {"PENDING", "BLOCKED"} \subseteq Statuses
      BY DEF Statuses
    <2>2. \A x \in {"PENDING", "BLOCKED"} : NewRow(x) \in Row /\ NewRow(x).status = x
      BY <2>1, NewRowType
    <2>. QED BY <1>2, <2>2
  <1>4. RowMove(k)
    BY <1>3, RestMove DEF IInv, Unborn
  <1>5. ASSUME NEW j \in Keys \ {k} PROVE RowMove(j) /\ row'[j] \in Row
    <2>1. CASE Withdrawable(row[j]) /\ row'[j] = Settled(row[j], "SUPERSEDED")
      <3>1. row'[j] \in Row /\ row'[j].status = "SUPERSEDED"
        BY <1>1, <2>1, SettledType DEF Statuses
      <3>. QED BY <2>1, <3>1, RestMove DEF Withdrawable
    <2>2. CASE row'[j] = row[j]
      <3>1. Steady(j)
        BY DEF Steady, QueueNotice, IInv, TypeOK
      <3>. QED BY <1>1, <2>2, <3>1, SameMove
    <2>. QED BY <1>2, <2>1, <2>2
  <1>. QED BY <1>2, <1>3, <1>4, <1>5 DEF RowsMove

LEMMA RequeueMoves ==
  ASSUME IInv, NEW ids \in SUBSET Keys, Requeue(ids),
         \A k \in ids : row[k].status # "SENDING",
         \A k \in Keys \ ids : Steady(k)
  PROVE  RowsMove
  <1>1. \A k \in Keys : row[k] \in Row
    BY RowTyped DEF IInv
  <1>2. row' = [k \in Keys |-> IF k \in ids THEN Requeued(row[k]) ELSE row[k]]
    BY DEF Requeue
  <1>3. \A x \in Row : Requeued(x) \in Row /\ Requeued(x).status = "PENDING"
    BY NewRowType DEF Requeued, Statuses
  <1>4. ASSUME NEW k \in Keys PROVE RowMove(k) /\ row'[k] \in Row
    <2>1. CASE k \in ids
      <3>1. row'[k] \in Row /\ row'[k].status = "PENDING"
        BY <1>1, <1>2, <1>3, <2>1
      <3>. QED BY <2>1, <3>1, RestMove
    <2>2. CASE k \notin ids
      <3>1. row'[k] = row[k]
        BY <1>2, <2>2
      <3>. QED BY <1>1, <2>2, <3>1, SameMove
    <2>. QED BY <2>1, <2>2
  <1>. QED BY <1>2, <1>4 DEF RowsMove

LEMMA StayMoves ==
  ASSUME IInv, row' \in [Keys -> Row], \A k \in Keys : row'[k].status = row[k].status,
         \A k \in Keys : Steady(k)
  PROVE  RowsMove
  BY SameMove DEF RowsMove

LEMMA StillSteady ==
  ASSUME about' = about, cap' = cap
  PROVE  \A k \in Keys : Steady(k)
  BY DEF Steady

(* A row whose lease, clock or back-off changes.                             *)
LEMMA Touches ==
  ASSUME TypeOK, NEW w \in Workers, NEW ids,
         \/ Update(ids, LAMBDA x : Leased(x, w))
         \/ Update(ids, LAMBDA x : Settled(x, x.status))
         \/ Update(ids, Deferred)
  PROVE  row' \in [Keys -> Row] /\ \A k \in Keys : row'[k].status = row[k].status
  <1>1. \A k \in Keys : row[k] \in Row /\ row[k].status \in Statuses
    BY RowTyped
  <1>2. CASE Update(ids, LAMBDA x : Leased(x, w))
    <2>1. row' = [k \in Keys |-> IF k \in ids THEN Leased(row[k], w) ELSE row[k]]
      BY <1>2 DEF Update
    <2>2. \A k \in Keys : Leased(row[k], w) \in Row /\ Leased(row[k], w).status = row[k].status
      BY <1>1, RowUpdates, RowStatuses
    <2>. QED BY <1>1, <2>1, <2>2
  <1>3. CASE Update(ids, LAMBDA x : Settled(x, x.status))
    <2>1. row' = [k \in Keys |-> IF k \in ids THEN Settled(row[k], row[k].status) ELSE row[k]]
      BY <1>3 DEF Update
    <2>2. \A k \in Keys : /\ Settled(row[k], row[k].status) \in Row
                          /\ Settled(row[k], row[k].status).status = row[k].status
      BY <1>1, SettledType
    <2>. QED BY <1>1, <2>1, <2>2
  <1>4. CASE Update(ids, Deferred)
    <2>1. row' = [k \in Keys |-> IF k \in ids THEN Deferred(row[k]) ELSE row[k]]
      BY <1>4 DEF Update
    <2>2. \A k \in Keys : Deferred(row[k]) \in Row /\ Deferred(row[k]).status = row[k].status
      BY <1>1, RowUpdates, RowStatuses
    <2>. QED BY <1>1, <2>1, <2>2
  <1>. QED BY <1>2, <1>3, <1>4

LEMMA ClockMoves ==
  ASSUME IInv, NEW k \in Keys, about' = about, cap' = cap,
         \/ row' = [row EXCEPT ![k].expired = TRUE]
         \/ row' = [row EXCEPT ![k].due = TRUE]
  PROVE  RowsMove
  <1>1. \A j \in Keys : row[j] \in Row
    BY RowTyped DEF IInv
  <1>2. /\ [row[k] EXCEPT !.expired = TRUE] \in Row
        /\ [row[k] EXCEPT !.expired = TRUE].status = row[k].status
        /\ [row[k] EXCEPT !.due = TRUE] \in Row
        /\ [row[k] EXCEPT !.due = TRUE].status = row[k].status
    BY <1>1 DEF Row
  <1>3. row' \in [Keys -> Row] /\ \A j \in Keys : row'[j].status = row[j].status
    BY <1>1, <1>2 DEF IInv, TypeOK
  <1>. QED BY <1>3, StayMoves, StillSteady

LEMMA AdmitMoves ==
  ASSUME IInv, NEW w \in Workers, NEW c \in wk[w].batch, Admit(w, c)
  PROVE  RowsMove
  <1>1. \A j \in Keys : row[j] \in Row /\ row[j].status \in Statuses
    BY RowTyped DEF IInv
  <1>2. /\ c.id \in Keys /\ about[c.id] # "none" /\ wk[w] \in Worker
        /\ about' = about /\ cap' = cap
    BY DEF IInv, TypeOK, InHand, Holds, Receipts, Admit, others
  <1>3. CASE AdmitRefused(w, c)
    BY <1>1, <1>2, <1>3, StayMoves, StillSteady DEF Admit, IInv, TypeOK
  <1>4. ASSUME ~AdmitRefused(w, c), NEW status \in {"SUPERSEDED", "BLOCKED", "FAILED"},
               Update({c.id}, LAMBDA x : Settled(x, status)),
               Proceed(w, wk[w].batch \ {c})
        PROVE  RowsMove
    <2>1. row' = [k \in Keys |-> IF k \in {c.id} THEN Settled(row[k], status) ELSE row[k]]
      BY <1>4 DEF Update
    <2>2. row'[c.id] \in Row /\ row'[c.id].status = status
      BY <1>1, <1>2, <2>1, <1>4, SettledType DEF Statuses
    <2>3. wk'[w] # wk[w]
      <3>1. c \notin wk'[w].batch
        BY <1>2, <1>4 DEF Proceed, Goto, Idle, IInv, TypeOK
      <3>. QED BY <3>1
    <2>4. row[c.id].lease = w /\ wk[w].pc = "loop"
      BY <1>4 DEF Admit, AdmitRefused, Admissible, Fenced
    <2>5. ClosedByDispatcher(c.id)
      BY <2>3, <2>4 DEF ClosedByDispatcher
    <2>6. RowMove(c.id)
      BY <2>2, <2>5, <1>4 DEF RowMove
    <2>7. ASSUME NEW j \in Keys \ {c.id} PROVE RowMove(j) /\ row'[j] \in Row
      <3>1. row'[j] = row[j]
        BY <2>1
      <3>. QED BY <1>1, <1>2, <3>1, SameMove, StillSteady
    <2>. QED BY <1>2, <2>1, <2>2, <2>6, <2>7 DEF RowsMove
  <1>5. ASSUME ~Spent(row[c.id]), Update({c.id}, LAMBDA x : AttemptBy(x, w))
        PROVE  RowsMove
    <2>1. row' = [k \in Keys |-> IF k \in {c.id} THEN AttemptBy(row[k], w) ELSE row[k]]
      BY <1>5 DEF Update
    <2>2. row'[c.id] \in Row /\ row'[c.id].status = "SENDING"
      <3>1. row[c.id].attempts < MaxAttempts
        BY <1>1, <1>2, <1>5, MaxAttemptsAssumption DEF Row, Spent
      <3>. QED BY <1>1, <1>2, <2>1, <3>1, RowUpdates, RowStatuses
    <2>3. RowMove(c.id)
      BY <1>2, <2>2 DEF RowMove
    <2>4. ASSUME NEW j \in Keys \ {c.id} PROVE RowMove(j) /\ row'[j] \in Row
      <3>1. row'[j] = row[j]
        BY <2>1
      <3>. QED BY <1>1, <1>2, <3>1, SameMove, StillSteady
    <2>. QED BY <1>2, <2>1, <2>2, <2>3, <2>4 DEF RowsMove
  <1>. QED BY <1>3, <1>4, <1>5 DEF Admit

(* The verdict of a worker on its own attempt, and the evidence with it.      *)
LEMMA FinishMoves ==
  ASSUME IInv, NEW w \in Workers, Finish(w)
  PROVE  RowsMove /\ cap' \in [Keys -> Capability] /\ \A k \in Keys : cap'[k].proof = cap[k].proof
  <1>0. PICK k \in Keys : k = wk[w].at
    BY DEF IInv, InHand, Holds, Receipts, Finish
  <1>1. \A j \in Keys : row[j] \in Row /\ row[j].status \in Statuses
    BY RowTyped DEF IInv
  <1>2. /\ about[k] # "none" /\ wk[w].pc \in {"accepted", "rejected"}
        /\ wk[w].pc = "accepted" => k \in accepted
        /\ about' = about
    BY <1>0 DEF IInv, InHand, Holds, Receipts, Finish, others
  <1>3. /\ cap' \in [Keys -> Capability]
        /\ \A j \in Keys : cap'[j].proof = cap[j].proof
        /\ \A j \in Keys \ {k} : cap'[j] = cap[j]
        /\ Settles(w) /\ HasCapability(k) => cap'[k].state = Evidence(w)
        /\ ~Settles(w) => cap' = cap
    <2>1. Evidence(w) \in {"SENT", "FAILED"}
      BY DEF Evidence
    <2>2. cap' = IF Settles(w) /\ HasCapability(k)
                 THEN [cap EXCEPT ![k].state = Evidence(w)] ELSE cap
      BY <1>0 DEF Finish, Stamped
    <2>3. cap \in [Keys -> Capability]
      BY DEF IInv, TypeOK
    <2>4. ASSUME Settles(w), HasCapability(k)
          PROVE  cap' = [cap EXCEPT ![k] = [cap[k] EXCEPT !.state = Evidence(w)]]
      BY <2>2, <2>4
    <2>5. /\ [cap[k] EXCEPT !.state = Evidence(w)] \in Capability
          /\ [cap[k] EXCEPT !.state = Evidence(w)].proof = cap[k].proof
          /\ [cap[k] EXCEPT !.state = Evidence(w)].state = Evidence(w)
      BY <1>2, <2>1, <2>3 DEF Capability
    <2>. QED BY <1>2, <2>2, <2>3, <2>4, <2>5
  <1>4. CASE ~Settles(w)
    <2>1. row' \in [Keys -> Row] /\ \A j \in Keys : row'[j].status = row[j].status
      BY <1>1, <1>4 DEF Finish, Update, IInv, TypeOK
    <2>. QED BY <1>2, <1>3, <1>4, <2>1, StayMoves, StillSteady
  <1>5. CASE Settles(w)
    <2>1. row' = [j \in Keys |-> IF j \in {k} THEN Outcome(w, row[j]) ELSE row[j]]
      BY <1>0, <1>5 DEF Finish, Update
    <2>2. /\ Outcome(w, row[k]) \in Row
          /\ Outcome(w, row[k]).status # "SENDING"
          /\ Outcome(w, row[k]).status = "SENT" <=> wk[w].pc = "accepted"
      <3>1. \A s \in {"SENT", "SUPERSEDED"} : Settled(row[k], s) \in Row /\ Settled(row[k], s).status = s
        BY <1>1, <1>2, SettledType DEF Statuses
      <3>2. row[k].attempts \in 0 .. MaxAttempts
        BY <1>1, <1>2 DEF Row
      <3>3. /\ Rejected(row[k], row[k].attempts) \in Row
            /\ Rejected(row[k], row[k].attempts).status \in {"PENDING", "FAILED"}
        BY <1>1, <1>2, <3>2, RowUpdates, RowStatuses
      <3>. QED BY <1>0, <1>2, <3>1, <3>3 DEF Outcome
    <2>3. wk'[w] # wk[w]
      <3>1. wk'[w].pc \in {"idle", "loop"}
        BY DEF Finish, Proceed, Goto, Idle, IInv, TypeOK
      <3>. QED BY <1>2, <3>1
    <2>4. ClosedByDispatcher(k)
      BY <1>0, <1>2, <1>5, <2>3 DEF Settles, ClosedByDispatcher
    <2>5. row'[k] = Outcome(w, row[k])
      BY <1>2, <2>1
    <2>6. HasCapability(k)' /\ wk[w].pc = "accepted" => cap'[k].state = "SENT"
      <3>1. HasCapability(k)' => HasCapability(k)
        BY <1>2, <1>3 DEF HasCapability
      <3>2. wk[w].pc = "accepted" => Evidence(w) = "SENT"
        BY DEF Evidence
      <3>. QED BY <1>3, <1>5, <3>1, <3>2
    <2>7. RowMove(k)
      BY <1>2, <2>2, <2>4, <2>5, <2>6 DEF RowMove
    <2>8. ASSUME NEW j \in Keys \ {k} PROVE RowMove(j) /\ row'[j] \in Row
      <3>1. row'[j] = row[j]
        BY <2>1
      <3>2. Steady(j)
        BY <1>2, <1>3 DEF Steady
      <3>. QED BY <1>1, <3>1, <3>2, SameMove
    <2>9. RowsMove
      BY <1>2, <2>1, <2>2, <2>7, <2>8 DEF RowsMove
    <2>. QED BY <1>3, <2>9
  <1>. QED BY <1>4, <1>5

(* Every step.                                                               *)
LEMMA StaffMoves ==
  ASSUME IInv, Staff
  PROVE  RowsMove
  <1>1. ASSUME NEW s \in Sources, NEW invalid \in BOOLEAN, NEW proof, SetInvalidity(s, invalid, proof)
        PROVE  RowsMove
    <2>1. PICK k : k = [of |-> s, version |-> src[s].version + 1]
      OBVIOUS
    <2>2. k \in Keys /\ k.of = s /\ k.version = src[s].version + 1
      BY <1>1, <2>1, KeyIs, BoundsAssumption DEF SetInvalidity, IInv, TypeOK, Source
    <2>3. about[k] = "none"
      BY <2>2 DEF IInv, Versioned, TypeOK, Source
    <2>4. QueueNotice(k, invalid) /\ \A j \in Keys \ {k} : cap'[j] = cap[j]
      BY <1>1, <2>1, <2>2 DEF SetInvalidity, IInv, TypeOK
    <2>. QED BY <2>2, <2>3, <2>4, QueueMoves
  <1>2. ASSUME NEW k \in Keys, RetryNotice(k) PROVE RowsMove
    BY <1>2, RequeueMoves, StillSteady DEF RetryNotice, Retryable, Stuck
  <1>3. CASE ResendStuck
    <2>1. PICK ids : ids = {k \in Receipts : Retryable(row[k])}
      OBVIOUS
    <2>2. ids \in SUBSET Keys /\ \A k \in ids : row[k].status # "SENDING"
      BY <2>1 DEF Receipts, Retryable, Stuck
    <2>. QED BY <1>3, <2>1, <2>2, RequeueMoves, StillSteady DEF ResendStuck
  <1>4. ASSUME NEW s \in Surveys, NEW proof \in {"withheld", "bound"}, RenewNotice(s, proof)
        PROVE  RowsMove
    <2>1. PICK k : k = InForce(s)
      OBVIOUS
    <2>2. k \in Keys
      BY <1>4, <2>1, ForceIs DEF RenewNotice, IInv, Sources
    <2>3. \A j \in Keys \ {k} : cap'[j] = cap[j]
      BY <1>4, <2>1 DEF RenewNotice, IInv, TypeOK
    <2>4. CASE k \in Receipts
      <3>1. Requeue({k}) /\ row[k].status # "SENDING" /\ about' = about
        BY <1>4, <2>1, <2>4 DEF RenewNotice, Renewable, Retryable, Stuck
      <3>. QED BY <2>2, <2>3, <3>1, RequeueMoves DEF Steady
    <2>5. CASE k \notin Receipts
      BY <1>4, <2>1, <2>2, <2>3, <2>5, QueueMoves DEF RenewNotice, Receipts
    <2>. QED BY <2>4, <2>5
  <1>5. ASSUME NEW k \in Keys, DeclineAppeal(k) \/ AcceptAppeal(k) \/ RejectAppeal(k)
        PROVE  RowsMove
    BY <1>5, StayMoves, StillSteady DEF DeclineAppeal, AcceptAppeal, RejectAppeal, IInv, TypeOK
  <1>6. ASSUME NEW s \in OldSignups, EditAddress(s) PROVE RowsMove
    BY <1>6, StayMoves, StillSteady DEF EditAddress, request, IInv, TypeOK
  <1>. QED BY <1>1, <1>2, <1>3, <1>4, <1>5, <1>6 DEF Staff, Desk, Flag, Clear

LEMMA OtherMoves ==
  ASSUME IInv, Participant \/ Mishap \/ Time \/ ChangeTransport \/ UNCHANGED vars
  PROVE  RowsMove
  <1>1. ASSUME row' = row, \A k \in Keys : Steady(k) PROVE RowsMove
    BY <1>1, StayMoves DEF IInv, TypeOK
  <1>2. ASSUME NEW s \in Surveys, SessionChanges(s) PROVE RowsMove
    <2>1. \A k \in Keys : cap'[k].state = cap[k].state /\ (cap'[k].proof # "none" => cap[k].proof # "none")
      BY <1>2 DEF SessionChanges, IInv, TypeOK, Capability
    <2>. QED BY <1>1, <1>2, <2>1 DEF SessionChanges, request, Steady
  <1>3. ASSUME NEW k \in Keys, LeaseRunsOut(k) \/ WorkerOverruns(k) \/ BackoffEnds(k) PROVE RowsMove
    BY <1>3, ClockMoves DEF LeaseRunsOut, WorkerOverruns, BackoffEnds, others
  <1>4. ASSUME NEW w \in Workers, ReleaseRest(w) PROVE RowsMove
    BY <1>4, Touches, StayMoves, StillSteady DEF ReleaseRest, others, IInv
  <1>5. ASSUME row' = row, about' = about, cap' = cap PROVE RowsMove
    BY <1>1, <1>5, StillSteady
  <1>. QED BY <1>2, <1>3, <1>4, <1>5
           DEF Participant, Contact, Mishap, Time, ChangeTransport, vars, SubmitAppeal, AppealSignup,
               CloseRequest, PeriodEnds, FinishFails, Crash, request, others, mail

LEMMA DispatchMoves ==
  ASSUME IInv, NEW w \in Workers, Dispatch(w)
  PROVE  RowsMove
  <1>1. CASE LeaseBatch(w)
    BY <1>1, Touches, StayMoves, StillSteady DEF LeaseBatch, others, IInv
  <1>2. ASSUME NEW c \in wk[w].batch, DeferRow(w, c) PROVE RowsMove
    BY <1>2, Touches, StayMoves, StillSteady DEF DeferRow, others, IInv
  <1>3. ASSUME row' = row, about' = about, cap' = cap PROVE RowsMove
    BY <1>3, StayMoves, StillSteady DEF IInv, TypeOK
  <1>. QED BY <1>1, <1>2, <1>3, AdmitMoves, FinishMoves
           DEF Dispatch, PassRow, Transmit, others

LEMMA NextMoves ==
  ASSUME IInv, [Next]_vars
  PROVE  RowsMove
  BY StaffMoves, OtherMoves, DispatchMoves DEF Next

------------------------------------------------------------------------------
(* What a step does to the requests.                                         *)
RequestInv ==
    /\ src \in [Sources -> Source]
    /\ about \in [Keys -> {"none", "flag", "clear"}]
    /\ appeal \in [Keys -> {"none", "PENDING", "DECLINED", "CLEARED"}]
    /\ review \in [Keys -> {"none", "PENDING", "ACCEPTED", "REJECTED"}]
    /\ cap \in [Keys -> Capability]
    /\ to \in [Keys -> Addresses]
    /\ Versioned /\ KindsApart /\ AppealsContest /\ DecisionHolds

LEMMA Before == IInv => RequestInv
  BY DEF IInv, TypeOK, RequestInv

LEMMA IssuedType ==
  ASSUME NEW proof \in {"withheld", "bound"}
  PROVE  Issued(proof) \in Capability /\ Issued(proof).proof # "none"
  BY DEF Issued, Capability

(* A flag or a clear: a new version, and no appeal waits across it.           *)
LEMMA SetRequests ==
  ASSUME IInv, NEW s \in Sources, NEW invalid \in BOOLEAN, NEW proof \in {"withheld", "bound"},
         SetInvalidity(s, invalid, proof)
  PROVE  RequestInv'
  <1>0. RequestInv
    BY Before
  <1>1. PICK k : k = [of |-> s, version |-> src[s].version + 1]
    OBVIOUS
  <1>2. k \in Keys /\ k.of = s /\ k.version = src[s].version + 1
    BY <1>1, KeyIs, BoundsAssumption DEF SetInvalidity, IInv, TypeOK, Source
  <1>3. /\ src' \in [Sources -> Source]
        /\ src'[s].flagged = invalid /\ src'[s].version = src[s].version + 1
        /\ src'[s].phase = src[s].phase /\ src[s].address \in Addresses
        /\ \A t \in Sources \ {s} : src'[t] = src[t]
        /\ src[s].flagged # invalid
        /\ invalid /\ s \in Surveys => src[s].phase # "closed"
    <2>1. src[s] \in Source /\ src[s].version + 1 \in 0 .. MaxVersion
      BY <1>0, BoundsAssumption DEF RequestInv, Source, SetInvalidity
    <2> DEFINE n == src[s].version + 1
    <2>2. src' = [src EXCEPT ![s] = [src[s] EXCEPT !.flagged = invalid, !.version = n]]
      BY <1>0 DEF SetInvalidity, RequestInv
    <2>3. n \in 0 .. MaxVersion
      BY <2>1
    <2> HIDE DEF n
    <2>4. /\ [src[s] EXCEPT !.flagged = invalid, !.version = n] \in Source
          /\ [src[s] EXCEPT !.flagged = invalid, !.version = n].flagged = invalid
          /\ [src[s] EXCEPT !.flagged = invalid, !.version = n].version = n
          /\ [src[s] EXCEPT !.flagged = invalid, !.version = n].phase = src[s].phase
      BY <2>1, <2>3 DEF Source
    <2>5. src' \in [Sources -> Source] /\ src'[s] = [src[s] EXCEPT !.flagged = invalid, !.version = n]
          /\ \A t \in Sources \ {s} : src'[t] = src[t]
      BY <1>0, <2>2, <2>4 DEF RequestInv
    <2>6. src[s].address \in Addresses
      BY <2>1 DEF Source
    <2>. QED BY <2>4, <2>5, <2>6 DEF SetInvalidity, n
  <1>4. /\ cap' \in [Keys -> Capability]
        /\ \A j \in Keys : cap'[j].proof # "none" => j.of \in Surveys
    <2>1. CASE invalid /\ s \in Surveys
      BY <1>0, <1>1, <1>2, <2>1, IssuedType DEF SetInvalidity, RequestInv, KindsApart
    <2>2. CASE ~(invalid /\ s \in Surveys)
      BY <1>0, <1>1, <2>2 DEF SetInvalidity, RequestInv, KindsApart
    <2>. QED BY <2>1, <2>2
  <1>5. /\ about' = [about EXCEPT ![k] = IF invalid THEN "flag" ELSE "clear"]
        /\ appeal' = [j \in Keys |->
                        IF ~invalid /\ j.of = s /\ appeal[j] = "PENDING"
                        THEN "CLEARED" ELSE appeal[j]]
        /\ to' = [to EXCEPT ![k] = src[s].address]
        /\ review' = review /\ accepted' = accepted
    BY <1>1, <1>2 DEF SetInvalidity, QueueNotice, mail
  <1>6. /\ about' \in [Keys -> {"none", "flag", "clear"}]
        /\ appeal' \in [Keys -> {"none", "PENDING", "DECLINED", "CLEARED"}]
        /\ review' \in [Keys -> {"none", "PENDING", "ACCEPTED", "REJECTED"}]
        /\ to' \in [Keys -> Addresses]
    BY <1>0, <1>2, <1>3, <1>5 DEF RequestInv
  <1>7. Versioned'
    <2>1. ASSUME NEW t \in Sources, src'[t].flagged PROVE src'[t].version >= 1
      BY <1>0, <1>3, <2>1 DEF RequestInv, Versioned, Source
    <2>2. ASSUME NEW j \in Keys, about'[j] # "none" PROVE j.version <= src'[j.of].version
      <3>1. j.of \in Sources /\ src[j.of].version \in Nat /\ j.version \in Nat
        BY <1>0, KeyParts DEF RequestInv, Source
      <3>2. CASE j = k
        BY <1>2, <1>3, <3>1, <3>2
      <3>3. CASE j # k
        BY <1>0, <1>3, <1>5, <2>2, <3>1, <3>3 DEF RequestInv, Versioned
      <3>. QED BY <3>2, <3>3
    <2>. QED BY <2>1, <2>2 DEF Versioned
  <1>8. KindsApart'
    BY <1>0, <1>4, <1>5 DEF RequestInv, KindsApart
  <1>9. AppealsContest'
    <2>1. ASSUME NEW j \in Keys, appeal'[j] = "PENDING"
          PROVE  Contested(j)'
      <3>1. appeal[j] = "PENDING" /\ ~(~invalid /\ j.of = s)
        BY <1>5, <2>1
      <3>2. Contested(j)
        BY <1>0, <3>1 DEF RequestInv, AppealsContest
      <3>3. j.of # s
        BY <1>3, <3>1, <3>2 DEF Contested
      <3>4. src'[j.of] = src[j.of] /\ about'[j] = about[j] /\ to'[j] = to[j]
        BY <1>0, <1>2, <1>3, <1>5, <3>3, KeyParts DEF RequestInv
      <3>. QED BY <1>5, <3>2, <3>4 DEF Contested
    <2>. QED BY <2>1 DEF AppealsContest
  <1>10. DecisionHolds'
    <2>1. ASSUME NEW j \in Keys, review[j] = "ACCEPTED" PROVE j.version < src'[j.of].version
      <3>1. j.version < src[j.of].version /\ j.version \in Nat /\ src[j.of].version \in Nat
        BY <1>0, <2>1, KeyParts DEF RequestInv, DecisionHolds, Source
      <3>. QED BY <1>3, <3>1, KeyParts
    <2>2. ASSUME NEW j \in Keys, review[j] = "REJECTED"
          PROVE  src'[j.of].phase = "closed" /\ (src'[j.of].flagged => j = InForce(j.of)')
      <3>1. src[j.of].phase = "closed" /\ (src[j.of].flagged => j = InForce(j.of)) /\ j.of \in Surveys
        BY <1>0, <2>2 DEF RequestInv, DecisionHolds, KindsApart
      <3>2. j.of = s => ~invalid
        BY <1>3, <3>1
      <3>. QED BY <1>3, <3>1, <3>2, KeyParts DEF InForce
    <2>. QED BY <1>5, <2>1, <2>2 DEF DecisionHolds
  <1>. QED BY <1>3, <1>4, <1>6, <1>7, <1>8, <1>9, <1>10 DEF RequestInv

(* The mail about a flag that stays in force is sent again.                   *)
LEMMA RenewRequests ==
  ASSUME IInv, NEW s \in Surveys, NEW proof \in {"withheld", "bound"}, RenewNotice(s, proof)
  PROVE  RequestInv'
  <1>0. RequestInv /\ s \in Sources
    BY Before DEF Sources
  <1>1. PICK k : k = InForce(s)
    OBVIOUS
  <1>2. k \in Keys /\ k.of = s /\ k.version = src[s].version /\ src[s].flagged
    BY <1>0, <1>1, ForceIs DEF RenewNotice, IInv, InForce
  <1>3. /\ cap' \in [Keys -> Capability]
        /\ \A j \in Keys : cap'[j].proof # "none" => j.of \in Surveys
    <2>1. Renewed(k, proof) \in Capability
      BY <1>0, <1>2, IssuedType DEF Renewed, RequestInv, Capability
    <2>. QED BY <1>0, <1>1, <1>2, <2>1 DEF RenewNotice, RequestInv, KindsApart
  <1>4. /\ src' = src /\ review' = review /\ accepted' = accepted
        /\ appeal' = appeal
        /\ about' = [about EXCEPT ![k] = about'[k]] /\ about'[k] # "none"
        /\ about'[k] \in {"none", "flag", "clear"}
        /\ about[k] # "none" => about'[k] = about[k] /\ to' = to
        /\ to' \in [Keys -> Addresses] /\ \A j \in Keys \ {k} : to'[j] = to[j]
    <2>1. CASE k \in Receipts
      BY <1>0, <1>1, <1>2, <2>1 DEF RenewNotice, RequestInv, Receipts, mail
    <2>2. CASE k \notin Receipts
      <3>1. QueueNotice(k, TRUE)
        BY <1>1, <2>2 DEF RenewNotice
      <3>2. appeal' = appeal
        BY <1>0, <3>1 DEF QueueNotice, RequestInv
      <3>3. src[s].address \in Addresses
        BY <1>0 DEF RequestInv, Source
      <3>. QED BY <1>0, <1>1, <1>2, <2>2, <3>1, <3>2, <3>3 DEF RenewNotice, QueueNotice, RequestInv, Receipts, mail
    <2>. QED BY <2>1, <2>2
  <1>5. about' \in [Keys -> {"none", "flag", "clear"}] /\ \A j \in Keys \ {k} : about'[j] = about[j]
    BY <1>0, <1>2, <1>4 DEF RequestInv
  <1>6. Versioned'
    <2>1. \A j \in Keys : about'[j] # "none" => j.version <= src'[j.of].version
      BY <1>0, <1>2, <1>4, <1>5, KeyParts DEF RequestInv, Versioned, Source
    <2>. QED BY <1>0, <1>4, <2>1 DEF RequestInv, Versioned
  <1>7. KindsApart'
    BY <1>0, <1>3, <1>4 DEF RequestInv, KindsApart
  <1>8. AppealsContest'
    <2>1. ASSUME NEW j \in Keys, appeal[j] = "PENDING"
          PROVE  Contested(j)'
      <3>1. Contested(j)
        BY <1>0, <2>1 DEF RequestInv, AppealsContest
      <3>2. about'[j] = about[j] /\ to'[j] = to[j]
        BY <1>4, <1>5, <3>1 DEF Contested
      <3>. QED BY <1>4, <3>1, <3>2 DEF Contested
    <2>. QED BY <1>4, <2>1 DEF AppealsContest
  <1>9. DecisionHolds'
    BY <1>0, <1>4 DEF RequestInv, DecisionHolds, InForce
  <1>. QED BY <1>0, <1>3, <1>4, <1>5, <1>6, <1>7, <1>8, <1>9 DEF RequestInv

(* A request or its capabilities change; its appeals and receipts do not.     *)
LEMMA SourceRequests ==
  ASSUME IInv, about' = about, to' = to, appeal' = appeal, accepted' = accepted, src' \in [Sources -> Source],
         cap' \in [Keys -> Capability], \A k \in Keys : cap'[k].proof # "none" => cap[k].proof # "none",
         \A s \in Sources : /\ src'[s].version >= src[s].version
                            /\ src'[s].flagged => src[s].flagged /\ src'[s].version = src[s].version,
         \A s \in Generic : src'[s].flagged = src[s].flagged /\ src'[s].version = src[s].version,
         review' \in [Keys -> {"none", "PENDING", "ACCEPTED", "REJECTED"}],
         \A k \in Keys : review'[k] # "none" => k.of \in Surveys,
         DecisionHolds'
  PROVE  RequestInv'
  <1>0. RequestInv
    BY Before
  <1>1. Versioned'
    <2>1. \A k \in Keys : about'[k] # "none" => k.version <= src'[k.of].version
      <3>1. ASSUME NEW k \in Keys, about'[k] # "none" PROVE k.version <= src'[k.of].version
        <4>1. /\ k.of \in Sources /\ k.version \in Nat
              /\ src[k.of].version \in Nat /\ src'[k.of].version \in Nat
          BY <1>0, KeyParts DEF RequestInv, Source
        <4>2. k.version <= src[k.of].version /\ src[k.of].version <= src'[k.of].version
          BY <1>0, <3>1, <4>1 DEF RequestInv, Versioned
        <4>. QED BY <4>1, <4>2
      <3>. QED BY <3>1
    <2>2. \A s \in Sources : src'[s].flagged => src'[s].version >= 1
      BY <1>0 DEF RequestInv, Versioned
    <2>. QED BY <2>1, <2>2 DEF Versioned
  <1>2. KindsApart'
    BY <1>0 DEF RequestInv, KindsApart
  <1>3. AppealsContest'
    <2>1. ASSUME NEW k \in Keys, appeal[k] = "PENDING"
          PROVE  Contested(k)'
      <3>1. Contested(k) /\ k.of \in Generic
        BY <1>0, <2>1 DEF RequestInv, AppealsContest, KindsApart
      <3>. QED BY <3>1 DEF Contested
    <2>. QED BY <2>1 DEF AppealsContest
  <1>. QED BY <1>0, <1>1, <1>2, <1>3 DEF RequestInv

LEMMA DecisionRequests ==
  ASSUME IInv, NEW k \in Keys, AcceptAppeal(k) \/ RejectAppeal(k)
  PROVE  RequestInv'
  <1>0. RequestInv /\ k.of \in Sources /\ k.of \in Surveys /\ Decidable(k)
    BY Before, KeyParts DEF RequestInv, KindsApart, AcceptAppeal, RejectAppeal, Decidable
  <1>1. /\ about' = about /\ to' = to /\ appeal' = appeal /\ cap' = cap /\ accepted' = accepted
    BY DEF AcceptAppeal, RejectAppeal, mail
  <1>2. PICK s : s = k.of
    OBVIOUS
  <1>3. src[s] \in Source /\ src[s].phase = "editable" /\ src[s].flagged /\ k.version = src[s].version
    BY <1>0, <1>2 DEF RequestInv, Decidable, EditPeriod, InForce
  <1>4. \A j \in Keys : j.of = s => review[j] # "REJECTED"
    BY <1>0, <1>3 DEF RequestInv, DecisionHolds
  <1>5. CASE AcceptAppeal(k)
    <2> DEFINE n == src[s].version + 1
    <2>1. n \in 0 .. MaxVersion /\ n > src[s].version
      BY <1>2, <1>3, <1>5, BoundsAssumption DEF Source, AcceptAppeal
    <2>2. src' = [src EXCEPT ![s] = [src[s] EXCEPT !.flagged = FALSE, !.version = n]]
      BY <1>0, <1>2, <1>5 DEF AcceptAppeal, RequestInv
    <2>3. /\ [src[s] EXCEPT !.flagged = FALSE, !.version = n] \in Source
          /\ [src[s] EXCEPT !.flagged = FALSE, !.version = n].flagged = FALSE
          /\ [src[s] EXCEPT !.flagged = FALSE, !.version = n].version = n
      <3> HIDE DEF n
      <3>. QED BY <1>3, <2>1 DEF Source
    <2>4. /\ src' \in [Sources -> Source] /\ src'[s].flagged = FALSE /\ src'[s].version = n
          /\ \A t \in Sources \ {s} : src'[t] = src[t]
      BY <1>0, <1>2, <2>2, <2>3 DEF RequestInv
    <2>5. /\ review' \in [Keys -> {"none", "PENDING", "ACCEPTED", "REJECTED"}]
          /\ review'[k] = "ACCEPTED" /\ \A j \in Keys \ {k} : review'[j] = review[j]
      BY <1>0, <1>5 DEF AcceptAppeal, RequestInv
    <2>6. \A t \in Sources : /\ src[t].version \in Nat /\ src'[t].version \in Nat
                             /\ src'[t].version >= src[t].version
                             /\ src'[t].flagged => src[t].flagged /\ src'[t].version = src[t].version
      BY <1>0, <2>1, <2>4 DEF RequestInv, Source
    <2>7. DecisionHolds'
      <3>1. ASSUME NEW j \in Keys, review'[j] = "ACCEPTED" PROVE j.version < src'[j.of].version
        <4>1. CASE j = k
          BY <1>2, <1>3, <2>1, <2>4, <4>1
        <4>2. CASE j # k
          <5>1. j.version < src[j.of].version /\ j.of \in Sources /\ j.version \in Nat
            BY <1>0, <2>5, <3>1, <4>2, KeyParts DEF RequestInv, DecisionHolds
          <5>. QED BY <2>6, <5>1
        <4>. QED BY <4>1, <4>2
      <3>2. ASSUME NEW j \in Keys, review'[j] = "REJECTED"
            PROVE  src'[j.of].phase = "closed" /\ (src'[j.of].flagged => j = InForce(j.of)')
        <4>1. review[j] = "REJECTED" /\ j.of # s /\ j.of \in Sources
          BY <1>4, <2>5, <3>2, KeyParts
        <4>. QED BY <1>0, <2>4, <4>1 DEF RequestInv, DecisionHolds, InForce
      <3>. QED BY <3>1, <3>2 DEF DecisionHolds
    <2>8. \A t \in Generic : src'[t].flagged = src[t].flagged /\ src'[t].version = src[t].version
      BY <1>0, <1>2, <2>4, SourcesAssumption DEF Sources
    <2>9. \A j \in Keys : review'[j] # "none" => j.of \in Surveys
      BY <1>0, <2>5 DEF RequestInv, KindsApart
    <2>. QED BY <1>0, <1>1, <2>4, <2>5, <2>6, <2>7, <2>8, <2>9, SourceRequests DEF RequestInv
  <1>6. CASE RejectAppeal(k)
    <2>1. src' = [src EXCEPT ![s] = [src[s] EXCEPT !.phase = "closed"]]
      BY <1>0, <1>2, <1>6 DEF RejectAppeal, RequestInv
    <2>2. /\ [src[s] EXCEPT !.phase = "closed"] \in Source
          /\ [src[s] EXCEPT !.phase = "closed"].phase = "closed"
          /\ [src[s] EXCEPT !.phase = "closed"].version = src[s].version
          /\ [src[s] EXCEPT !.phase = "closed"].flagged = src[s].flagged
      BY <1>3 DEF Source, Phases
    <2>4. /\ src' \in [Sources -> Source] /\ src'[s].phase = "closed"
          /\ src'[s].version = src[s].version /\ src'[s].flagged = src[s].flagged
          /\ \A t \in Sources \ {s} : src'[t] = src[t]
      BY <1>0, <1>2, <2>1, <2>2 DEF RequestInv
    <2>5. /\ review' \in [Keys -> {"none", "PENDING", "ACCEPTED", "REJECTED"}]
          /\ review'[k] = "REJECTED" /\ \A j \in Keys \ {k} : review'[j] = review[j]
      BY <1>0, <1>6 DEF RejectAppeal, RequestInv
    <2>6. \A t \in Sources : /\ src[t].version \in Nat /\ src'[t].version = src[t].version
                             /\ src'[t].flagged = src[t].flagged
      BY <1>0, <2>4 DEF RequestInv, Source
    <2>7. DecisionHolds'
      <3>1. ASSUME NEW j \in Keys, review'[j] = "ACCEPTED" PROVE j.version < src'[j.of].version
        BY <1>0, <2>5, <2>6, <3>1, KeyParts DEF RequestInv, DecisionHolds
      <3>2. ASSUME NEW j \in Keys, review'[j] = "REJECTED"
            PROVE  src'[j.of].phase = "closed" /\ (src'[j.of].flagged => j = InForce(j.of)')
        <4>1. CASE j = k
          BY <1>0, <1>2, <2>4, <4>1 DEF Decidable, InForce
        <4>2. CASE j # k
          <5>1. review[j] = "REJECTED" /\ j.of # s /\ j.of \in Sources
            BY <1>4, <2>5, <3>2, <4>2, KeyParts
          <5>. QED BY <1>0, <2>4, <5>1 DEF RequestInv, DecisionHolds, InForce
        <4>. QED BY <4>1, <4>2
      <3>. QED BY <3>1, <3>2 DEF DecisionHolds
    <2>8. \A t \in Generic : src'[t].flagged = src[t].flagged /\ src'[t].version = src[t].version
      BY <1>0, <1>2, <2>4, SourcesAssumption DEF Sources
    <2>9. \A j \in Keys : review'[j] # "none" => j.of \in Surveys
      BY <1>0, <2>5 DEF RequestInv, KindsApart
    <2>. QED BY <1>0, <1>1, <2>4, <2>5, <2>6, <2>7, <2>8, <2>9, SourceRequests DEF RequestInv
  <1>. QED BY <1>5, <1>6

LEMMA PhaseRequests ==
  ASSUME IInv, NEW s \in Surveys, PeriodEnds(s) \/ CloseRequest(s)
  PROVE  RequestInv'
  <1>0. RequestInv /\ s \in Sources
    BY Before DEF Sources
  <1>1. /\ about' = about /\ to' = to /\ appeal' = appeal /\ cap' = cap /\ accepted' = accepted
        /\ review' = review
    BY DEF PeriodEnds, CloseRequest, request, mail
  <1>2. PICK phase \in Phases : /\ src' = [src EXCEPT ![s] = [src[s] EXCEPT !.phase = phase]]
                                /\ src[s].phase = "closed" => phase = "closed"
    BY <1>0 DEF PeriodEnds, CloseRequest, Phases, RequestInv
  <1>3. src[s] \in Source
    BY <1>0 DEF RequestInv
  <1>4. /\ [src[s] EXCEPT !.phase = phase] \in Source
        /\ [src[s] EXCEPT !.phase = phase].phase = phase
        /\ [src[s] EXCEPT !.phase = phase].version = src[s].version
        /\ [src[s] EXCEPT !.phase = phase].flagged = src[s].flagged
    BY <1>3 DEF Source, Phases
  <1>5. /\ src' \in [Sources -> Source]
        /\ \A t \in Sources : /\ src[t].version \in Nat /\ src'[t].version = src[t].version
                              /\ src'[t].flagged = src[t].flagged
                              /\ src[t].phase = "closed" => src'[t].phase = "closed"
        /\ \A t \in Sources \ {s} : src'[t] = src[t]
    BY <1>0, <1>2, <1>4 DEF RequestInv, Source
  <1>6. DecisionHolds'
    BY <1>0, <1>1, <1>5, KeyParts DEF RequestInv, DecisionHolds, InForce
  <1>7. \A t \in Generic : src'[t].flagged = src[t].flagged /\ src'[t].version = src[t].version
    BY <1>5 DEF Sources
  <1>8. review' \in [Keys -> {"none", "PENDING", "ACCEPTED", "REJECTED"}]
        /\ \A j \in Keys : review'[j] # "none" => j.of \in Surveys
    BY <1>0, <1>1 DEF RequestInv, KindsApart
  <1>. QED BY <1>0, <1>1, <1>5, <1>6, <1>7, <1>8, SourceRequests DEF RequestInv

LEMMA EditRequests ==
  ASSUME IInv, NEW s \in OldSignups, EditAddress(s)
  PROVE  RequestInv'
  <1>0. RequestInv /\ s \in Sources
    BY Before, SourcesAssumption DEF Sources
  <1>1. /\ about' = about /\ to' = to /\ appeal' = appeal /\ cap' = cap /\ accepted' = accepted
        /\ review' = review
    BY DEF EditAddress, request, mail
  <1>2. PICK address \in Addresses : src' = [src EXCEPT ![s] = [src[s] EXCEPT !.address = address]]
    BY <1>0 DEF EditAddress, RequestInv, Addresses
  <1>3. src[s] \in Source
    BY <1>0 DEF RequestInv
  <1>4. /\ [src[s] EXCEPT !.address = address] \in Source
        /\ [src[s] EXCEPT !.address = address].phase = src[s].phase
        /\ [src[s] EXCEPT !.address = address].version = src[s].version
        /\ [src[s] EXCEPT !.address = address].flagged = src[s].flagged
    BY <1>3 DEF Source
  <1>5. /\ src' \in [Sources -> Source]
        /\ \A t \in Sources : /\ src[t].version \in Nat /\ src'[t].version = src[t].version
                              /\ src'[t].flagged = src[t].flagged
                              /\ src'[t].phase = src[t].phase
    BY <1>0, <1>2, <1>4 DEF RequestInv, Source
  <1>6. DecisionHolds'
    BY <1>0, <1>1, <1>5, KeyParts DEF RequestInv, DecisionHolds, InForce
  <1>7. \A t \in Generic : src'[t].flagged = src[t].flagged /\ src'[t].version = src[t].version
    BY <1>5 DEF Sources
  <1>8. review' \in [Keys -> {"none", "PENDING", "ACCEPTED", "REJECTED"}]
        /\ \A j \in Keys : review'[j] # "none" => j.of \in Surveys
    BY <1>0, <1>1 DEF RequestInv, KindsApart
  <1>. QED BY <1>0, <1>1, <1>5, <1>6, <1>7, <1>8, SourceRequests DEF RequestInv

LEMMA CapRequests ==
  ASSUME IInv, UNCHANGED <<src, about, to, appeal, review, accepted>>, cap' \in [Keys -> Capability],
         \A k \in Keys : cap'[k].proof # "none" => cap[k].proof # "none"
  PROVE  RequestInv'
  <1>0. RequestInv
    BY Before
  <1>1. DecisionHolds'
    BY <1>0 DEF RequestInv, DecisionHolds, InForce
  <1>2. \A s \in Sources : src[s].version \in Nat
    BY <1>0 DEF RequestInv, Source
  <1>3. review' \in [Keys -> {"none", "PENDING", "ACCEPTED", "REJECTED"}]
        /\ \A j \in Keys : review'[j] # "none" => j.of \in Surveys
    BY <1>0 DEF RequestInv, KindsApart
  <1>4. \A s \in Sources : /\ src'[s].version >= src[s].version
                           /\ src'[s].flagged => src[s].flagged /\ src'[s].version = src[s].version
    BY <1>2
  <1>5. src' \in [Sources -> Source]
        /\ \A s \in Generic : src'[s].flagged = src[s].flagged /\ src'[s].version = src[s].version
    BY <1>0 DEF RequestInv
  <1>. QED BY <1>1, <1>3, <1>4, <1>5, SourceRequests

LEMMA AppealRequests ==
  ASSUME IInv,
         \/ \E k \in Keys : SubmitAppeal(k) \/ DeclineAppeal(k)
         \/ \E s \in Surveys : AppealSignup(s)
  PROVE  RequestInv'
  <1>0. RequestInv
    BY Before
  <1>1. ASSUME NEW k \in Keys, SubmitAppeal(k) PROVE RequestInv'
    <2>1. /\ UNCHANGED <<src, about, to, review, cap, accepted>>
          /\ k.of \in Generic /\ k \in accepted /\  Contested(k)
          /\ appeal' = [appeal EXCEPT ![k] = "PENDING"]
      BY <1>1 DEF SubmitAppeal, Eligible, Received, mail, Current, Contested
    <2>2. /\ appeal' \in [Keys -> {"none", "PENDING", "DECLINED", "CLEARED"}]
          /\ Versioned' /\ KindsApart'
      BY <1>0, <2>1 DEF RequestInv, Versioned, KindsApart
    <2>3. ASSUME NEW j \in Keys, appeal'[j] = "PENDING"
          PROVE  Contested(j)'
      <3>1. Contested(j)
        BY <1>0, <2>1, <2>3 DEF RequestInv, AppealsContest
      <3>. QED BY <2>1, <3>1 DEF Contested
    <2>4. AppealsContest'
      BY <2>3 DEF AppealsContest
    <2>5. DecisionHolds'
      BY <1>0, <2>1 DEF RequestInv, DecisionHolds, InForce
    <2>. QED BY <1>0, <2>1, <2>2, <2>4, <2>5 DEF RequestInv
  <1>2. ASSUME NEW k \in Keys, DeclineAppeal(k) PROVE RequestInv'
    <2>1. /\ UNCHANGED <<src, about, to, review, cap, accepted>>
          /\ k.of \in Generic /\ appeal' = [appeal EXCEPT ![k] = "DECLINED"]
      BY <1>2 DEF DeclineAppeal, mail
    <2>2. /\ appeal' \in [Keys -> {"none", "PENDING", "DECLINED", "CLEARED"}]
          /\ Versioned' /\ KindsApart'
      BY <1>0, <2>1 DEF RequestInv, Versioned, KindsApart
    <2>3. ASSUME NEW j \in Keys, appeal'[j] = "PENDING"
          PROVE  Contested(j)'
      <3>1. Contested(j)
        BY <1>0, <2>1, <2>3 DEF RequestInv, AppealsContest
      <3>. QED BY <2>1, <3>1 DEF Contested
    <2>4. AppealsContest'
      BY <2>3 DEF AppealsContest
    <2>5. DecisionHolds'
      BY <1>0, <2>1 DEF RequestInv, DecisionHolds, InForce
    <2>. QED BY <1>0, <2>1, <2>2, <2>4, <2>5 DEF RequestInv
  <1>3. ASSUME NEW s \in Surveys, AppealSignup(s) PROVE RequestInv'
    <2>1. PICK k \in Keys : k = InForce(s) /\ k.of = s
      BY <1>0, <1>3, ForceIs DEF AppealSignup, IInv, InForce, Sources
    <2>2. /\ UNCHANGED <<src, about, to, appeal, cap, accepted>>
          /\ review' = [review EXCEPT ![k] = "PENDING"]
      BY <1>3, <2>1 DEF AppealSignup, mail
    <2>3. /\ review' \in [Keys -> {"none", "PENDING", "ACCEPTED", "REJECTED"}]
          /\ Versioned' /\ KindsApart'
      BY <1>0, <2>1, <2>2 DEF RequestInv, Versioned, KindsApart
    <2>4. AppealsContest' /\ DecisionHolds'
      BY <1>0, <2>2 DEF RequestInv, AppealsContest, DecisionHolds, Contested, InForce
    <2>. QED BY <1>0, <2>2, <2>3, <2>4 DEF RequestInv
  <1>. QED BY <1>1, <1>2, <1>3

LEMMA RequestStep ==
  ASSUME IInv, [Next]_vars
  PROVE  RequestInv' /\ accepted \subseteq accepted' /\ \A k \in Keys : about[k] # "none" => about'[k] # "none"
  <1>0. RequestInv
    BY Before
  <1>1. ASSUME UNCHANGED <<src, about, to, appeal, review, cap>>, accepted \subseteq accepted'
        PROVE  RequestInv'
    <2>1. Versioned' /\ KindsApart' /\ DecisionHolds'
      BY <1>0, <1>1 DEF RequestInv, Versioned, KindsApart, DecisionHolds, InForce
    <2>2. AppealsContest'
      BY <1>0, <1>1 DEF RequestInv, AppealsContest, Contested
    <2>. QED BY <1>0, <1>1, <2>1, <2>2 DEF RequestInv
  <1>2. RequestInv'
    <2>1. CASE Staff
      <3>1. ASSUME NEW s \in Sources, Flag(s) \/ Clear(s) PROVE RequestInv'
        BY <3>1, SetRequests DEF Flag, Clear
      <3>2. ASSUME NEW k \in Keys, RetryNotice(k) PROVE RequestInv'
        BY <1>1, <3>2 DEF RetryNotice, mail
      <3>3. CASE ResendStuck
        BY <1>1, <3>3 DEF ResendStuck, mail
      <3>. QED BY <2>1, <3>1, <3>2, <3>3, RenewRequests, AppealRequests, DecisionRequests,
                  EditRequests DEF Staff, Desk
    <2>2. CASE Participant
      <3>1. ASSUME NEW s \in Surveys, SessionChanges(s) PROVE RequestInv'
        <4>1. \A k \in Keys : [cap[k] EXCEPT !.proof = "stale"] \in Capability
          BY <1>0 DEF RequestInv, Capability
        <4>2. cap' \in [Keys -> Capability] /\ \A k \in Keys : cap'[k].proof # "none" => cap[k].proof # "none"
          BY <1>0, <3>1, <4>1 DEF SessionChanges, RequestInv
        <4>. QED BY <3>1, <4>2, CapRequests DEF SessionChanges, request, mail
      <3>. QED BY <2>2, <3>1, AppealRequests, PhaseRequests DEF Participant, Contact
    <2>3. CASE Time
      BY <2>3, <1>1, PhaseRequests DEF Time, LeaseRunsOut, BackoffEnds, others
    <2>4. CASE Mishap \/ ChangeTransport \/ UNCHANGED vars
      BY <2>4, <1>1 DEF Mishap, ChangeTransport, vars, WorkerOverruns, ReleaseRest, FinishFails,
                        Crash, others
    <2>5. ASSUME NEW w \in Workers, Dispatch(w) PROVE RequestInv'
      <3>1. CASE Finish(w)
        BY <3>1, FinishMoves, CapRequests DEF Finish, others
      <3>. QED BY <2>5, <3>1, <1>1 DEF Dispatch, LeaseBatch, PassRow, DeferRow, Admit, Transmit, others
    <2>. QED BY <2>1, <2>2, <2>3, <2>4, <2>5 DEF Next
  <1>3. accepted \subseteq accepted'
    BY DEF Next, vars, Staff, Desk, Participant, Contact, Mishap, Time, ChangeTransport, Dispatch, Flag, Clear,
           SetInvalidity, RetryNotice, ResendStuck, RenewNotice, DeclineAppeal, AcceptAppeal,
           RejectAppeal, SubmitAppeal, AppealSignup, CloseRequest, EditAddress, SessionChanges, PeriodEnds,
           request, mail, others, LeaseBatch, PassRow, DeferRow, Admit, Transmit, Finish,
           ReleaseRest, FinishFails, Crash, WorkerOverruns, LeaseRunsOut, BackoffEnds
  <1>4. \A k \in Keys : about[k] # "none" => about'[k] # "none"
    <2>1. ASSUME NEW k, NEW invalid, QueueNotice(k, invalid)
          PROVE  \A j \in Keys : about[j] # "none" => about'[j] # "none"
      BY <1>0, <2>1 DEF QueueNotice, RequestInv
    <2>2. ASSUME NEW s \in Sources, Flag(s) \/ Clear(s)
          PROVE  \A j \in Keys : about[j] # "none" => about'[j] # "none"
      BY <2>1, <2>2 DEF Flag, Clear, SetInvalidity
    <2>3. ASSUME NEW s \in Surveys, NEW proof, RenewNotice(s, proof)
          PROVE  \A j \in Keys : about[j] # "none" => about'[j] # "none"
      BY <2>1, <2>3 DEF RenewNotice
    <2>. QED BY <2>2, <2>3
      DEF Next, vars, Staff, Desk, Participant, Contact, Mishap, Time, ChangeTransport, Dispatch,
          RetryNotice, ResendStuck, DeclineAppeal, AcceptAppeal,
          RejectAppeal, SubmitAppeal, AppealSignup, CloseRequest, EditAddress, SessionChanges, PeriodEnds,
          request, others, LeaseBatch, PassRow, DeferRow, Admit, Transmit, Finish,
          ReleaseRest, FinishFails, Crash, WorkerOverruns, LeaseRunsOut, BackoffEnds
  <1>. QED BY <1>2, <1>3, <1>4

------------------------------------------------------------------------------
(* What a step does to a dispatcher.                                         *)
Goes(w, n) ==
    /\ n \in Worker /\ wk' = [wk EXCEPT ![w] = n]
    /\ \A c \in n.batch : c.id \in Receipts
    /\ n.pc \in {"send", "accepted", "rejected"} => n.at \in Receipts
    /\ n.pc = "accepted" => n.at \in accepted'

LEMMA WorkerParts ==
  ASSUME IInv, NEW w \in Workers
  PROVE  /\ wk[w] \in Worker /\ wk[w].batch \subseteq Capture
         /\ Holds(wk[w])
         /\ Goto(w, Idle) => Goes(w, Idle)
  BY DEF IInv, TypeOK, InHand, Worker, Goto, Goes, Idle

LEMMA ProceedGoes ==
  ASSUME IInv, NEW w \in Workers, NEW batch \in SUBSET Capture, Proceed(w, batch),
         \A c \in batch : c.id \in Receipts
  PROVE  \E n : Goes(w, n)
  <1> DEFINE n == [Idle EXCEPT !.pc = "loop", !.batch = batch]
  <1>1. n \in Worker /\ n.batch = batch /\ n.pc = "loop"
    BY DEF Idle, Worker
  <1>2. Goto(w, Idle) \/ Goto(w, n)
    BY DEF Proceed
  <1>3. Goto(w, n) => Goes(w, n)
    <2> HIDE DEF n
    <2>. QED BY <1>1 DEF Goto, Goes
  <1>. QED BY <1>2, <1>3, WorkerParts DEF Goes

LEMMA DispatcherGoes ==
  ASSUME IInv, NEW w \in Workers, Dispatch(w) \/ ReleaseRest(w) \/ FinishFails(w) \/ Crash(w)
  PROVE  \E n : Goes(w, n)
  <1>0. /\ wk[w] \in Worker /\ wk[w].batch \subseteq Capture
        /\ Holds(wk[w])
        /\ Goto(w, Idle) => Goes(w, Idle)
    BY WorkerParts
  <1>1. CASE LeaseBatch(w)
    <2>1. PICK batch : batch = {[id |-> k, fence |-> row[k].attempt] : k \in Leasable}
      OBVIOUS
    <2>2. batch \in SUBSET Capture /\ \A c \in batch : c.id \in Receipts
      BY <2>1, RowTyped DEF IInv, Leasable, Receipts, Capture, Row
    <2>. QED BY <1>1, <2>1, <2>2, ProceedGoes DEF LeaseBatch
  <1>2. ASSUME NEW c \in wk[w].batch, Proceed(w, wk[w].batch \ {c}) PROVE \E n : Goes(w, n)
    BY <1>0, <1>2, ProceedGoes DEF Holds
  <1>3. CASE Finish(w)
    <2>1. Proceed(w, Rest(w))
      BY <1>3 DEF Finish
    <2>. QED BY <1>0, <2>1, ProceedGoes DEF Holds, Rest
  <1>4. ASSUME NEW c \in wk[w].batch, Admit(w, c), Goto(w, [wk[w] EXCEPT !.pc = "send", !.at = c.id])
        PROVE  \E n : Goes(w, n)
    <2>1. c.id \in Receipts /\ c.id \in Keys
      BY <1>0 DEF Holds, Receipts
    <2>2. /\ [wk[w] EXCEPT !.pc = "send", !.at = c.id] \in Worker
          /\ [wk[w] EXCEPT !.pc = "send", !.at = c.id].pc = "send"
          /\ [wk[w] EXCEPT !.pc = "send", !.at = c.id].at = c.id
          /\ [wk[w] EXCEPT !.pc = "send", !.at = c.id].batch = wk[w].batch
      BY <1>0, <2>1 DEF Worker
    <2>. QED BY <1>0, <1>4, <2>1, <2>2 DEF Goto, Goes, Holds
  <1>5. ASSUME NEW taken \in BOOLEAN, NEW heard \in BOOLEAN, Transmit(w, taken, heard)
        PROVE  \E n : Goes(w, n)
    <2>1. PICK pc \in {"accepted", "rejected"} :
            /\ Goto(w, [wk[w] EXCEPT !.pc = pc])
            /\ pc = "accepted" => wk[w].at \in accepted'
      BY <1>5 DEF Transmit
    <2>2. /\ [wk[w] EXCEPT !.pc = pc] \in Worker
          /\ [wk[w] EXCEPT !.pc = pc].pc = pc
          /\ [wk[w] EXCEPT !.pc = pc].at = wk[w].at
          /\ [wk[w] EXCEPT !.pc = pc].batch = wk[w].batch
      BY <1>0 DEF Worker
    <2>3. wk[w].at \in Receipts
      BY <1>0, <1>5 DEF Transmit, Holds
    <2>. QED BY <1>0, <2>1, <2>2, <2>3 DEF Goto, Goes, Holds
  <1>6. ASSUME NEW c \in wk[w].batch, Admit(w, c)
        PROVE  \E n : Goes(w, n)
    BY <1>2, <1>4, <1>6 DEF Admit
  <1>7. ASSUME NEW c \in wk[w].batch, PassRow(w, c) \/ DeferRow(w, c)
        PROVE  \E n : Goes(w, n)
    BY <1>2, <1>7 DEF PassRow, DeferRow
  <1>. QED BY <1>0, <1>1, <1>3, <1>5, <1>6, <1>7 DEF Dispatch, ReleaseRest, FinishFails, Crash

LEMMA WorkerSteps ==
  ASSUME IInv, [Next]_vars
  PROVE  wk' = wk \/ \E w \in Workers, n \in Worker : Goes(w, n)
  BY DispatcherGoes
     DEF Next, vars, Staff, Desk, Participant, Contact, Mishap, Time, ChangeTransport, Flag, Clear, SetInvalidity,
         RetryNotice, ResendStuck, RenewNotice, DeclineAppeal, AcceptAppeal, RejectAppeal,
         SubmitAppeal, AppealSignup, CloseRequest, EditAddress, SessionChanges, PeriodEnds, request, mail,
         others, WorkerOverruns, LeaseRunsOut, BackoffEnds, Goes

LEMMA WorkerStep ==
  ASSUME IInv, [Next]_vars
  PROVE  wk' \in [Workers -> Worker] /\ InHand'
  <1>1. wk \in [Workers -> Worker] /\ \A v \in Workers : Holds(wk[v])
    BY DEF IInv, TypeOK, InHand
  <1>2. Receipts \subseteq Receipts' /\ accepted \subseteq accepted'
    BY RequestStep DEF Receipts
  <1>3. CASE wk' = wk
    BY <1>1, <1>2, <1>3 DEF InHand, Holds
  <1>4. ASSUME NEW w \in Workers, NEW n \in Worker, Goes(w, n)
        PROVE  wk' \in [Workers -> Worker] /\ InHand'
    <2>1. wk' \in [Workers -> Worker] /\ wk'[w] = n /\ \A v \in Workers \ {w} : wk'[v] = wk[v]
      BY <1>1, <1>4 DEF Goes
    <2>2. ASSUME NEW v \in Workers PROVE Holds(wk[v])'
      BY <1>1, <1>2, <1>4, <2>1 DEF Goes, Holds
    <2>. QED BY <2>1, <2>2 DEF InHand
  <1>. QED BY <1>3, <1>4, WorkerSteps

(* The other steps of a dispatcher do not lead into transport.                *)
LEMMA BatchNeverAdmits ==
  ASSUME IInv, NEW w \in Workers, NEW v \in Workers, wk[w].pc # "send",
         Goto(v, Idle) \/ \E batch : Proceed(v, batch)
  PROVE  wk'[w].pc # "send"
  <1>1. PICK n : Goto(v, n) /\ n.pc \in {"idle", "loop"}
    <2>1. Idle.pc = "idle" /\ \A batch : [Idle EXCEPT !.pc = "loop", !.batch = batch].pc = "loop"
      BY DEF Idle
    <2>. QED BY <2>1 DEF Proceed
  <1>2. wk'[w] = wk[w] \/ wk'[w] = n
    BY <1>1 DEF Goto, IInv, TypeOK
  <1>. QED BY <1>1, <1>2

LEMMA BeginsByAdmit ==
  ASSUME IInv, [Next]_vars, NEW w \in Workers, wk[w].pc # "send", wk'[w].pc = "send"
  PROVE  \E c \in wk[w].batch :
            Admit(w, c) /\ Goto(w, [wk[w] EXCEPT !.pc = "send", !.at = c.id])
  <1>1. wk' # wk
    OBVIOUS
  <1>2. PICK v \in Workers : Dispatch(v) \/ ReleaseRest(v) \/ FinishFails(v) \/ Crash(v)
    BY <1>1 DEF Next, vars, Staff, Desk, Participant, Contact, Mishap, Time, ChangeTransport, Flag, Clear,
           SetInvalidity, RetryNotice, ResendStuck, RenewNotice, DeclineAppeal, AcceptAppeal,
           RejectAppeal, SubmitAppeal, AppealSignup, CloseRequest, EditAddress, SessionChanges, PeriodEnds,
           request, mail, others, WorkerOverruns, LeaseRunsOut, BackoffEnds
  <1>3. ~Goto(v, Idle) /\ \A batch : ~Proceed(v, batch)
    BY BatchNeverAdmits
  <1>4. ASSUME NEW taken \in BOOLEAN, NEW heard \in BOOLEAN, Transmit(v, taken, heard)
        PROVE  FALSE
    BY <1>4 DEF Transmit, Goto, IInv, TypeOK, Worker
  <1>5. PICK c \in wk[v].batch : Admit(v, c)
    BY <1>2, <1>3, <1>4 DEF Dispatch, LeaseBatch, PassRow, DeferRow, Finish, ReleaseRest,
                            FinishFails, Crash
  <1>6. Goto(v, [wk[v] EXCEPT !.pc = "send", !.at = c.id])
    BY <1>3, <1>5 DEF Admit
  <1>7. v = w
    BY <1>6 DEF Goto, IInv, TypeOK
  <1>. QED BY <1>5, <1>6, <1>7

------------------------------------------------------------------------------
LEMMA CountersStep ==
  ASSUME IInv, [Next]_vars
  PROVE  up' \in BOOLEAN /\ retries' \in 0 .. MaxRetries /\ faults' \in 0 .. MaxFaults
         /\ accepted' \subseteq Keys
  <1>1. up \in BOOLEAN /\ retries \in 0 .. MaxRetries /\ faults \in 0 .. MaxFaults /\ accepted \subseteq Keys
    BY DEF IInv, TypeOK
  <1>2. /\ retries' = retries \/ (retries > 0 /\ retries' = retries - 1)
        /\ faults' = faults \/ (faults > 0 /\ faults' = faults - 1)
        /\ up' = up \/ up' = ~up
        /\ \/ accepted' = accepted
           \/ \E w \in Workers : accepted' = accepted \cup {wk[w].at} /\ wk[w].pc = "send"
    BY DEF Next, vars, Staff, Desk, Participant, Contact, Mishap, Time, ChangeTransport, Dispatch, Flag, Clear,
           SetInvalidity, RetryNotice, ResendStuck, RenewNotice, DeclineAppeal, AcceptAppeal,
           RejectAppeal, SubmitAppeal, AppealSignup, CloseRequest, EditAddress, SessionChanges, PeriodEnds,
           request, mail, others, LeaseBatch, PassRow, DeferRow, Admit, Transmit, Finish,
           ReleaseRest, FinishFails, Crash, WorkerOverruns, LeaseRunsOut, BackoffEnds, Requeue
  <1>3. ASSUME NEW w \in Workers, wk[w].pc = "send" PROVE wk[w].at \in Keys
    BY <1>3 DEF IInv, InHand, Holds, Receipts
  <1>4. accepted' \subseteq Keys
    BY <1>1, <1>2, <1>3
  <1>5. retries' \in 0 .. MaxRetries /\ faults' \in 0 .. MaxFaults
    BY <1>1, <1>2, BoundsAssumption
  <1>6. up' \in BOOLEAN
    BY <1>1, <1>2
  <1>. QED BY <1>4, <1>5, <1>6

LEMMA InvStep == IInv /\ [Next]_vars => IInv'
  <1>. SUFFICES ASSUME IInv, [Next]_vars PROVE IInv'
    OBVIOUS
  <1>1. RowsMove /\ RequestInv' /\ InHand' /\ wk' \in [Workers -> Worker]
        /\ accepted \subseteq accepted' /\ \A k \in Keys : about[k] # "none" => about'[k] # "none"
    BY NextMoves, RequestStep, WorkerStep
  <1>2. TypeOK'
    BY <1>1, CountersStep DEF TypeOK, RequestInv, RowsMove
  <1>3. Unborn'
    <2>1. ASSUME NEW k \in Keys, row'[k].status \in {"SENDING", "SENT"} PROVE about[k] # "none"
      BY <1>1, <2>1 DEF RowsMove, RowMove, IInv, Unborn
    <2>. QED BY <1>1, <2>1 DEF Unborn
  <1>4. EvidenceAgrees'
    <2>1. ASSUME NEW k \in Keys, row'[k].status = "SENT"
          PROVE  /\ k \in accepted'
                 /\ k.of \in Surveys /\ about'[k] = "flag" /\ cap'[k].proof # "none" =>
                       cap'[k].state = "SENT"
      <3>1. CASE row[k].status = "SENT" /\ Steady(k)
        <4>1. k \in Receipts
          BY <3>1 DEF IInv, Unborn, Receipts
        <4>2. /\ k \in accepted
              /\ k.of \in Surveys /\ about[k] = "flag" /\ cap[k].proof # "none" =>
                    cap[k].state = "SENT"
          BY <3>1, <4>1 DEF IInv, EvidenceAgrees
        <4>. QED BY <1>1, <3>1, <4>2 DEF Steady
      <3>2. CASE k \in accepted /\ (HasCapability(k)' => cap'[k].state = "SENT")
        BY <1>1, <3>2 DEF HasCapability
      <3>. QED BY <1>1, <2>1, <3>1, <3>2 DEF RowsMove, RowMove
    <2>. QED BY <2>1 DEF EvidenceAgrees, Receipts
  <1>. QED BY <1>1, <1>2, <1>3, <1>4 DEF IInv, RequestInv

------------------------------------------------------------------------------
(* Receipts, flags, appeals and dispatchers stay consistent in every reachable *)
(* state.                                                                     *)
THEOREM Invariance == Spec => []IInv
  BY InvInit, InvStep, PTL DEF Spec

(* Requests, receipts, appeals, capabilities and dispatchers keep their types. *)
THEOREM TypeCorrect == Spec => []TypeOK
  <1>1. IInv => TypeOK
    BY DEF IInv
  <1>. QED BY <1>1, Invariance, PTL

(* An appeal that waits is about the flag in force and came through a         *)
(* delivered link, however flags, clears and edits of the address follow each *)
(* other; declineRequestAppeal accepts it if the address is the notice's.     *)
THEOREM AppealsInForce == Spec => []PendingAppealIsInForce
  <1>1. IInv => PendingAppealIsInForce
    <2>. SUFFICES ASSUME IInv, NEW k \in Keys, appeal[k] = "PENDING"
                  PROVE  /\ about[k] = "flag" /\ src[k.of].flagged /\ k = InForce(k.of)
                         /\ k \in accepted
                         /\ to[k] = src[k.of].address => Current(k)
      BY DEF PendingAppealIsInForce
    <2>1. Contested(k) /\ k.of \in Sources /\ cap[k].proof = "none"
      BY KeyParts, SourcesAssumption DEF IInv, AppealsContest, KindsApart
    <2>2. k = InForce(k.of)
      BY <2>1, ForceIs DEF IInv, Contested
    <2>3. src[k.of].flagged \in BOOLEAN
      BY <2>1 DEF IInv, TypeOK, Source
    <2>4. to[k] = src[k.of].address => Current(k)
      BY <2>1, <2>3 DEF Contested, Current
    <2>. QED BY <2>1, <2>2, <2>4 DEF Contested
  <1>. QED BY <1>1, Invariance, PTL

(* What resolveStudentSignupAppeal decided is never undone by a later flag,   *)
(* clear, close or decision.                                                  *)
THEOREM DecisionsHold == Spec => []DecisionHolds
  <1>1. IInv => DecisionHolds
    BY DEF IInv
  <1>. QED BY <1>1, Invariance, PTL

(* However leases expire and workers overtake each other, a receipt that says *)
(* SENT was accepted, and the capability of its flag agrees with it           *)
(* (finishRequestDelivery).                                                   *)
THEOREM Agreement == Spec => []EvidenceAgrees
  <1>1. IInv => EvidenceAgrees
    BY DEF IInv
  <1>. QED BY <1>1, Invariance, PTL

(* No flag, clear, retry or renewal takes an attempt out of transport.        *)
THEOREM ClosedByItsDispatcher == Spec => AttemptClosedByDispatcher
  <1>1. IInv /\ [Next]_vars =>
          \A k \in Keys : row[k].status = "SENDING" /\ row'[k].status # "SENDING" =>
            \E w \in Workers :
              /\ wk'[w] # wk[w]
              /\ \/ row[k].attempt = w /\ wk[w].pc \in {"accepted", "rejected"}
                 \/ row[k].lease = w /\ wk[w].pc = "loop"
    BY NextMoves DEF RowsMove, RowMove, ClosedByDispatcher
  <1>. QED BY <1>1, Invariance, PTL DEF Spec, AttemptClosedByDispatcher

(* admitRequestDelivery begins an attempt only for the present state of the   *)
(* request, and of two workers with the row in hand only for the one whose    *)
(* lease is running.                                                          *)
THEOREM AdmittedCurrent == Spec => AdmittedOnlyIfCurrent
  <1>1. ASSUME IInv, [Next]_vars, NEW w \in Workers, wk[w].pc # "send", wk'[w].pc = "send"
        PROVE  Current(wk'[w].at) /\ row[wk'[w].at].lease = w
    <2>1. PICK c \in wk[w].batch : Admit(w, c) /\ Goto(w, [wk[w] EXCEPT !.pc = "send", !.at = c.id])
      BY <1>1, BeginsByAdmit
    <2>2. wk'[w].at = c.id
      BY <1>1, <2>1 DEF Goto, IInv, TypeOK, Worker
    <2>3. ~AdmitRefused(w, c) /\ Current(c.id)
      BY <1>1, <2>1, BatchNeverAdmits DEF Admit
    <2>. QED BY <2>2, <2>3 DEF AdmitRefused, Admissible, Fenced
  <1>2. IInv /\ [Next]_vars =>
          \A w \in Workers : wk[w].pc # "send" /\ wk'[w].pc = "send" =>
            LET k == wk'[w].at
            IN  /\ Current(k)
                /\ \A v \in Workers \ {w} :
                      wk[v].pc = "send" /\ wk[v].at = k /\ row[k].attempt = v =>
                          row[k].lease # v \/ row[k].expired
    BY <1>1
  <1>. QED BY <1>2, Invariance, PTL DEF Spec, AdmittedOnlyIfCurrent

=============================================================================
