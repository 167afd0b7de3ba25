-------------------------- MODULE DeliveryRowProofs --------------------------
(***************************************************************************)
(* What the updates of an EmailDelivery row return, for the proofs about   *)
(* the two modules that use them.                                          *)
(***************************************************************************)
EXTENDS DeliveryRow, TLAPS

(* The row updates stay inside the row type.                                *)
LEMMA SettledType ==
    ASSUME NEW r \in Row, NEW s \in Statuses
    PROVE  /\ Settled(r, s) \in Row
           /\ Settled(r, s).status = s
           /\ Settled(r, s).started = r.started
           /\ Settled(r, s).attempt = r.attempt
           /\ Settled(r, s).attempts = r.attempts
  BY DEF Row, Token, Settled

LEMMA RowUpdates ==
    ASSUME NEW r \in Row, NEW w \in Workers
    PROVE  /\ NewRow("PENDING") \in Row
           /\ Leased(r, w) \in Row
           /\ Deferred(r) \in Row
           /\ r.attempts < MaxAttempts => AttemptBy(r, w) \in Row
           /\ \A n \in 0 .. MaxAttempts : Rejected(r, n) \in Row
           /\ \A s \in Statuses : [r EXCEPT !.status = s] \in Row
<1>1. NewRow("PENDING") \in Row
  BY MaxAttemptsAssumption DEF NewRow, Row, Statuses, Token
<1>2. Leased(r, w) \in Row
  BY DEF Leased, Row, Token
<1>3. Deferred(r) \in Row
  <2>1. Settled(r, r.status) \in Row
    BY SettledType DEF Row
  <2>2. QED
    BY <2>1 DEF Deferred, Row
<1>4. ASSUME r.attempts < MaxAttempts
      PROVE  AttemptBy(r, w) \in Row
  <2>1. r.attempts + 1 \in 0 .. MaxAttempts
    BY <1>4, MaxAttemptsAssumption DEF Row
  <2>2. "SENDING" \in Statuses /\ w \in Token
    BY DEF Statuses, Token
  <2>3. QED
    BY <2>1, <2>2 DEF AttemptBy, Row
<1>5. ASSUME NEW n \in 0 .. MaxAttempts
      PROVE  Rejected(r, n) \in Row
  <2> DEFINE x == Settled(r, IF n >= MaxAttempts THEN "FAILED" ELSE "PENDING")
  <2>1. n \in 0 .. MaxAttempts
    BY MaxAttemptsAssumption
  <2>2. x \in Row
    BY SettledType DEF Statuses
  <2>3. [x EXCEPT !.attempts = n, !.due = FALSE] \in Row
    <3> HIDE DEF x
    <3>1. QED
      BY <2>1, <2>2 DEF Row
  <2>4. QED
    BY <2>3 DEF Rejected
<1>6. ASSUME NEW s \in Statuses
      PROVE  [r EXCEPT !.status = s] \in Row
  BY DEF Row
<1>7. QED
  BY <1>1, <1>2, <1>3, <1>4, <1>5, <1>6

(* The status an update leaves behind.                                      *)
LEMMA RowStatuses ==
    ASSUME NEW r \in Row, NEW w \in Workers
    PROVE  /\ Leased(r, w).status = r.status
           /\ Deferred(r).status = r.status
           /\ AttemptBy(r, w).status = "SENDING"
           /\ \A n \in 0 .. MaxAttempts : Rejected(r, n).status \in {"PENDING", "FAILED"}
<1>1. Leased(r, w).status = r.status
  BY DEF Leased, Row
<1>2. Deferred(r).status = r.status
  BY DEF Deferred, Settled, Row
<1>3. AttemptBy(r, w).status = "SENDING"
  BY DEF AttemptBy, Row
<1>4. ASSUME NEW n \in 0 .. MaxAttempts
      PROVE  Rejected(r, n).status \in {"PENDING", "FAILED"}
  BY DEF Rejected, Settled, Row
<1>5. QED
  BY <1>1, <1>2, <1>3, <1>4

LEMMA NewRowType ==
    ASSUME NEW s \in Statuses
    PROVE  NewRow(s) \in Row /\ NewRow(s).status = s
  BY MaxAttemptsAssumption DEF NewRow, Row, Token

=============================================================================
