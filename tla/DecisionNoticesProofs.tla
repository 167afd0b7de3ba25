------------------------ MODULE DecisionNoticesProofs ------------------------
(***************************************************************************)
(* Theorems about DecisionNotices, for any number of requests, decisions,  *)
(* couriers, attempts and faults.                                          *)
(***************************************************************************)
EXTENDS DecisionNotices, RequestNoticesProofs

(* Only a decided review has a letter, and only a letter is called for.     *)
LettersDecided ==
    \A k \in Keys :
        /\ letter[k].state # "none" => review[k] \in {"ACCEPTED", "REJECTED"}
        /\ letter[k].calls > 0 => letter[k].state # "none"

(* A courier handles letters that exist, and makes an attempt that was      *)
(* counted.  Once a letter is sent, every attempt still under way is an     *)
(* overtaken one.                                                           *)
Carries(n, l, t) ==
    /\ \A k \in n.batch : l[k].state # "none"
    /\ n.pc \in {"send", "accepted", "rejected"} =>
          /\ n.at \in Keys /\ l[n.at].state # "none"
          /\ n.try <= l[n.at].tries
          /\ l[n.at].state = "SENT" => n.try # l[n.at].tries
    /\ n.pc = "accepted" => n.at \in t

CouriersKnow == \A c \in Couriers : Carries(courier[c], letter, told)

LetterInv == LetterTypeOK /\ LettersDecided /\ CouriersKnow /\ OwnAttempt

------------------------------------------------------------------------------
(* The letters do not interfere with the requests.                          *)

LEMMA DInitInit == DInit => Init
  BY DEF DInit

LEMMA DNextNext == [DNext]_dvars => [Next]_vars
  <1>. SUFFICES ASSUME [DNext]_dvars PROVE [Next]_vars
    OBVIOUS
  <1>1. CASE Elsewhere
    BY <1>1 DEF Elsewhere, Next, Staff, Participant
  <1>2. ASSUME NEW k \in Keys, NEW eligible \in BOOLEAN, Decide(k, eligible) PROVE [Next]_vars
    BY <1>2 DEF Decide, Next, Staff
  <1>3. ASSUME NEW s \in Surveys, RecipientChanges(s) PROVE [Next]_vars
    BY <1>3 DEF RecipientChanges, Next, Participant
  <1>4. CASE UNCHANGED dvars
    BY <1>4 DEF dvars
  <1>5. CASE UNCHANGED vars
    BY <1>5
  <1>6. ASSUME NEW c \in Couriers, NEW k \in Keys, Call(c, k) PROVE [Next]_vars
    BY <1>6, <1>5 DEF Call
  <1>7. ASSUME NEW c \in Couriers, Deliver(c) \/ RecordFails(c) \/ Stop(c) PROVE [Next]_vars
    BY <1>7, <1>5 DEF Deliver, Sweep, Claim, Post, Record, RecordFails, Stop
  <1>8. ASSUME NEW k \in Keys, ClaimRunsOut(k) \/ CourierOverruns(k) PROVE [Next]_vars
    BY <1>8, <1>5 DEF ClaimRunsOut, CourierOverruns
  <1>. QED BY <1>1, <1>2, <1>3, <1>4, <1>6, <1>7, <1>8 DEF DNext

(* Whatever couriers do, the requests, their receipts and their appeals      *)
(* behave as RequestNotices says, with everything proved of it.             *)
THEOREM RequestsUndisturbed == DSpec => Spec
  BY DInitInit, DNextNext, PTL DEF DSpec, Spec

(* In the composition too a receipt that says SENT was accepted, and the     *)
(* capability of its flag agrees with it (finishRequestDelivery).            *)
THEOREM AgreementHolds == DSpec => []EvidenceAgrees
  BY RequestsUndisturbed, Agreement, PTL

------------------------------------------------------------------------------
(* What is decided stays decided.                                           *)
LEMMA ReviewStands ==
  ASSUME TypeOK, [Next]_vars, NEW k \in Keys, review[k] \in {"ACCEPTED", "REJECTED"}
  PROVE  review'[k] = review[k]
  <1>1. ASSUME NEW s \in Surveys, AppealSignup(s) PROVE review'[k] = review[k]
    BY <1>1 DEF AppealSignup, TypeOK
  <1>2. ASSUME NEW j \in Keys, AcceptAppeal(j) \/ RejectAppeal(j) PROVE review'[k] = review[k]
    BY <1>2 DEF AcceptAppeal, RejectAppeal, Decidable, TypeOK
  <1>. QED BY <1>1, <1>2
    DEF Next, vars, Staff, Desk, Participant, Contact, Mishap, Time, ChangeTransport, Dispatch,
        Flag, Clear, SetInvalidity, RetryNotice, ResendStuck, RenewNotice, DeclineAppeal,
        SubmitAppeal, CloseRequest, EditAddress, SessionChanges, PeriodEnds, request, mail, others,
        LeaseBatch, PassRow, DeferRow, Admit, Transmit, Finish, ReleaseRest, FinishFails, Crash,
        WorkerOverruns, LeaseRunsOut, BackoffEnds

(* A decision is made of a review that waits.                               *)
LEMMA DecisionOnce ==
  ASSUME TypeOK, NEW k \in Keys, AcceptAppeal(k) \/ RejectAppeal(k)
  PROVE  review[k] = "PENDING" /\ review'[k] \in {"ACCEPTED", "REJECTED"}
  BY DEF AcceptAppeal, RejectAppeal, Decidable, TypeOK

LEMMA LetterInit == DInit => LetterInv
  BY LettersAssumption
     DEF DInit, LetterInv, LetterTypeOK, LettersDecided, CouriersKnow, Carries, OwnAttempt,
         InTransport, NoLetter, AtRest, Letter, Courier

(* A step that leaves the couriers alone may change letters where it keeps   *)
(* what couriers rely on.                                                    *)
Kept(l, m) ==
    /\ m \in Letter
    /\ l.state # "none" => m.state = l.state /\ m.tries = l.tries
    /\ m.calls > 0 => m.state # "none"
    /\ m.state = "SENT" => l.state = "SENT"

LEMMA LettersChange ==
  ASSUME LetterInv, courier' = courier, told' = told, slips' \in 0 .. MaxSlips,
         letter' \in [Keys -> Letter], \A k \in Keys : Kept(letter[k], letter'[k]),
         \A k \in Keys : letter'[k].state # "none" => review'[k] \in {"ACCEPTED", "REJECTED"}
  PROVE  LetterInv'
  <1>1. LetterTypeOK' /\ LettersDecided'
    BY DEF LetterInv, LetterTypeOK, LettersDecided, Kept
  <1>2. ASSUME NEW c \in Couriers PROVE Carries(courier'[c], letter', told')
    <2>1. Carries(courier[c], letter, told) /\ courier[c] \in Courier
      BY DEF LetterInv, CouriersKnow, LetterTypeOK
    <2>. QED BY <2>1 DEF Carries, Kept, Courier
  <1>3. OwnAttempt'
    BY DEF LetterInv, OwnAttempt, InTransport
  <1>. QED BY <1>1, <1>2, <1>3 DEF LetterInv, CouriersKnow

(* A step of one courier leads it to n; the others keep what they had, as    *)
(* letters are only claimed or recorded for the attempt that is the newest.  *)
Delivers(c, n) ==
    /\ n \in Courier /\ courier' = [courier EXCEPT ![c] = n]
    /\ letter' \in [Keys -> Letter]
    /\ \A k \in Keys : letter'[k].state = "none" <=> letter[k].state = "none"
    /\ \A k \in Keys : letter'[k].calls > 0 => letter[k].calls > 0
    /\ \A k \in Keys : letter'[k].tries >= letter[k].tries
    /\ \A k \in Keys : letter'[k].state = "SENT" /\ letter[k].state # "SENT" =>
          /\ InTransport(c, k) /\ courier[c].pc = "accepted"
          /\ courier[c].try = letter[k].tries /\ letter'[k].tries = letter[k].tries
    /\ \A k \in Keys : letter[k].state = "SENT" => letter'[k].state = "SENT" /\ letter'[k].tries = letter[k].tries
    /\ told \subseteq told' /\ told' \subseteq Keys /\ slips' \in 0 .. MaxSlips
    /\ Carries(n, letter', told')
    /\ \A d \in Couriers \ {c}, k \in Keys :
          n.pc \in {"send", "accepted", "rejected"} /\ n.at = k /\ InTransport(d, k) =>
              courier[d].try # n.try

LEMMA DeliveryKeeps ==
  ASSUME LetterInv, UNCHANGED vars, NEW c \in Couriers, NEW n, Delivers(c, n)
  PROVE  LetterInv'
  <1>1. courier'[c] = n /\ \A d \in Couriers \ {c} : courier'[d] = courier[d]
    BY DEF Delivers, LetterInv, LetterTypeOK
  <1>2. LetterTypeOK'
    BY DEF Delivers, LetterInv, LetterTypeOK
  <1>3. LettersDecided'
    <2>1. review' = review
      BY DEF vars
    <2>. QED BY <2>1 DEF Delivers, LetterInv, LettersDecided
  <1>4. ASSUME NEW d \in Couriers \ {c} PROVE Carries(courier'[d], letter', told')
    <2>1. Carries(courier[d], letter, told) /\ courier[d] \in Courier /\ courier'[d] = courier[d]
      BY <1>1 DEF LetterInv, CouriersKnow, LetterTypeOK
    <2>2. \A k \in courier[d].batch : letter'[k].state # "none"
      BY <2>1 DEF Delivers, Carries, Courier
    <2>3. courier[d].pc = "accepted" => courier[d].at \in told'
      BY <2>1 DEF Delivers, Carries
    <2>4. ASSUME courier[d].pc \in {"send", "accepted", "rejected"}
          PROVE  /\ courier[d].at \in Keys /\ letter'[courier[d].at].state # "none"
                 /\ courier[d].try <= letter'[courier[d].at].tries
                 /\ letter'[courier[d].at].state = "SENT" => courier[d].try # letter'[courier[d].at].tries
      <3>1. PICK k \in Keys : k = courier[d].at
        BY <2>1, <2>4 DEF Carries
      <3>2. /\ letter[k] \in Letter /\ letter'[k] \in Letter
            /\ letter[k].state # "none" /\ courier[d].try <= letter[k].tries
            /\ letter[k].state = "SENT" => courier[d].try # letter[k].tries
        BY <2>1, <2>4, <3>1 DEF Carries, LetterInv, LetterTypeOK, Delivers
      <3>3. letter'[k].state # "none" /\ courier[d].try <= letter'[k].tries
        BY <3>1, <3>2, <2>1 DEF Delivers, Letter, Courier
      <3>4. ASSUME letter'[k].state = "SENT" PROVE courier[d].try # letter'[k].tries
        <4>1. CASE letter[k].state = "SENT"
          BY <3>2, <4>1 DEF Delivers
        <4>2. CASE letter[k].state # "SENT"
          <5>1. InTransport(c, k) /\ courier[c].try = letter[k].tries /\ letter'[k].tries = letter[k].tries
            BY <3>4, <4>2 DEF Delivers
          <5>2. InTransport(d, k)
            BY <2>4, <3>1 DEF InTransport
          <5>. QED BY <5>1, <5>2 DEF LetterInv, OwnAttempt
        <4>. QED BY <4>1, <4>2
      <3>. QED BY <3>1, <3>3, <3>4
    <2>. QED BY <2>1, <2>2, <2>3, <2>4 DEF Carries
  <1>5. Carries(courier'[c], letter', told')
    BY <1>1 DEF Delivers, Carries
  <1>6. OwnAttempt'
    <2>. SUFFICES ASSUME NEW d \in Couriers, NEW e \in Couriers, NEW k \in Keys,
                         InTransport(d, k)', InTransport(e, k)', courier'[d].try = courier'[e].try
                  PROVE  d = e
      BY DEF OwnAttempt
    <2>1. CASE d = c /\ e # c
      BY <2>1, <1>1 DEF Delivers, InTransport
    <2>2. CASE e = c /\ d # c
      BY <2>2, <1>1 DEF Delivers, InTransport
    <2>3. CASE d # c /\ e # c
      BY <2>3, <1>1 DEF LetterInv, OwnAttempt, InTransport
    <2>. QED BY <2>1, <2>2, <2>3
  <1>. QED BY <1>2, <1>3, <1>4, <1>5, <1>6 DEF LetterInv, CouriersKnow

------------------------------------------------------------------------------
(* The steps of a courier.                                                   *)

(* A courier that drops a letter, or rests, claims nothing.                  *)
LEMMA Continues ==
  ASSUME LetterInv, NEW c \in Couriers, NEW batch \in SUBSET Keys,
         \A k \in batch : letter[k].state # "none", Continue(c, batch),
         letter' \in [Keys -> Letter],
         \A k \in Keys : letter'[k].state = "none" <=> letter[k].state = "none"
  PROVE  \E n \in Courier : /\ courier' = [courier EXCEPT ![c] = n] /\ Carries(n, letter', told')
                            /\ n.pc \in {"idle", "loop"}
  <1>1. PICK n : courier' = [courier EXCEPT ![c] = n] /\ n \in {AtRest, [AtRest EXCEPT !.pc = "loop", !.batch = batch]}
    BY DEF Continue, Move
  <1>2. n \in Courier /\ n.pc \in {"idle", "loop"} /\ n.batch \subseteq batch
    <2>1. AtRest \in Courier /\ AtRest.pc = "idle" /\ AtRest.batch = {}
      BY DEF AtRest, Courier
    <2>2. PICK m : m = [AtRest EXCEPT !.pc = "loop", !.batch = batch]
      OBVIOUS
    <2>3. m \in Courier /\ m.pc = "loop" /\ m.batch = batch
      BY <2>1, <2>2 DEF Courier
    <2>4. n = AtRest \/ n = m
      BY <1>1, <2>2
    <2>. QED BY <2>1, <2>3, <2>4
  <1>. QED BY <1>1, <1>2 DEF Carries

Delivered == \E c \in Couriers, n \in Courier : Delivers(c, n)

LEMMA SweepDelivers ==
  ASSUME LetterInv, NEW c \in Couriers, Sweep(c)
  PROVE  Delivered
  <1>1. PICK due \in SUBSET Keys : due = {k \in Keys : Selectable(letter[k])}
    OBVIOUS
  <1>2. \A k \in due : letter[k].state # "none"
    BY <1>1 DEF Selectable
  <1>3. Continue(c, due) /\ letter' = letter /\ told' = told /\ slips' = slips
    BY <1>1 DEF Sweep
  <1>4. PICK n \in Courier : /\ courier' = [courier EXCEPT ![c] = n] /\ Carries(n, letter', told')
                             /\ n.pc \in {"idle", "loop"}
    BY <1>2, <1>3, Continues DEF LetterInv, LetterTypeOK
  <1>5. \A k \in Keys : letter[k].tries \in Nat
    BY DEF LetterInv, LetterTypeOK, Letter
  <1>d. Delivers(c, n)
    BY <1>3, <1>4, <1>5 DEF Delivers, LetterInv, LetterTypeOK
  <1>. QED BY <1>d DEF Delivered

LEMMA CallDelivers ==
  ASSUME LetterInv, NEW c \in Couriers, NEW k \in Keys, Call(c, k)
  PROVE  Delivered
  <1>1. letter[k].state # "none" /\ letter[k].calls > 0 /\ letter[k] \in Letter
    BY DEF LetterInv, LettersDecided, Call, LetterTypeOK
  <1>2. PICK m : m = [letter[k] EXCEPT !.calls = letter[k].calls - 1]
    OBVIOUS
  <1>3. m \in Letter /\ m.state = letter[k].state /\ m.tries = letter[k].tries
    BY <1>1, <1>2 DEF Letter
  <1>4. letter' = [letter EXCEPT ![k] = m] /\ letter' \in [Keys -> Letter]
    BY <1>2, <1>3 DEF Call, LetterInv, LetterTypeOK
  <1>5. \A j \in Keys : /\ letter'[j].state = letter[j].state /\ letter'[j].tries = letter[j].tries
                        /\ letter'[j].calls > 0 => letter[j].calls > 0
    BY <1>1, <1>3, <1>4 DEF LetterInv, LetterTypeOK
  <1>6. PICK n \in Courier : /\ courier' = [courier EXCEPT ![c] = n] /\ Carries(n, letter', told')
                             /\ n.pc \in {"idle", "loop"}
    BY <1>1, <1>4, <1>5, Continues DEF Call
  <1>7. \A j \in Keys : letter[j].tries \in Nat
    BY DEF LetterInv, LetterTypeOK, Letter
  <1>d. Delivers(c, n)
    BY <1>4, <1>5, <1>6, <1>7 DEF Delivers, LetterInv, LetterTypeOK, Call
  <1>. QED BY <1>d DEF Delivered

LEMMA ClaimDelivers ==
  ASSUME LetterInv, NEW c \in Couriers, NEW k \in Keys, Claim(c, k)
  PROVE  Delivered
  <1>1. courier[c] \in Courier /\ \A j \in courier[c].batch : letter[j].state # "none"
    BY DEF LetterInv, LetterTypeOK, CouriersKnow, Carries
  <1>2. k \in courier[c].batch /\ told' = told /\ slips' = slips /\ letter[k].state # "none"
    BY <1>1 DEF Claim
  <1>3. PICK rest \in SUBSET Keys : rest = courier[c].batch \ {k}
    BY <1>1 DEF Courier
  <1>4. \A j \in rest : letter[j].state # "none"
    BY <1>1, <1>3
  <1>5. \A j \in Keys : letter[j] \in Letter /\ letter[j].tries \in Nat
    BY DEF LetterInv, LetterTypeOK, Letter
  <1>6. CASE letter[k].state = "SENT" \/ letter[k].fresh
    <2>1. Continue(c, rest) /\ letter' = letter
      BY <1>3, <1>6 DEF Claim
    <2>2. PICK n \in Courier : /\ courier' = [courier EXCEPT ![c] = n] /\ Carries(n, letter', told')
                               /\ n.pc \in {"idle", "loop"}
      BY <1>4, <2>1, Continues DEF LetterInv, LetterTypeOK
    <2>d. Delivers(c, n)
      BY <1>2, <1>5, <2>1, <2>2 DEF Delivers, LetterInv, LetterTypeOK
    <2>. QED BY <2>d DEF Delivered
  <1>7. CASE ~(letter[k].state = "SENT" \/ letter[k].fresh) /\ ~letter[k].same
    <2>1. PICK m : m = [letter[k] EXCEPT !.state = "BLOCKED"]
      OBVIOUS
    <2>2. m \in Letter /\ m.state = "BLOCKED" /\ m.tries = letter[k].tries /\ m.calls = letter[k].calls
      BY <1>5, <2>1 DEF Letter
    <2>3. Continue(c, rest) /\ letter' = [letter EXCEPT ![k] = m] /\ letter' \in [Keys -> Letter]
      BY <1>3, <1>7, <2>1, <2>2 DEF Claim, LetterInv, LetterTypeOK
    <2>4. letter'[k] = m /\ \A j \in Keys \ {k} : letter'[j] = letter[j]
      BY <2>3 DEF LetterInv, LetterTypeOK
    <2>5. PICK n \in Courier : /\ courier' = [courier EXCEPT ![c] = n] /\ Carries(n, letter', told')
                               /\ n.pc \in {"idle", "loop"}
      BY <1>2, <1>4, <2>2, <2>3, <2>4, Continues
    <2>d. Delivers(c, n)
      BY <1>2, <1>5, <1>7, <2>2, <2>3, <2>4, <2>5 DEF Delivers, LetterInv, LetterTypeOK
    <2>. QED BY <2>d DEF Delivered
  <1>8. CASE ~(letter[k].state = "SENT" \/ letter[k].fresh) /\ letter[k].same
    <2>1. PICK m : m = [letter[k] EXCEPT !.state = "PENDING", !.tries = letter[k].tries + 1, !.fresh = TRUE]
      OBVIOUS
    <2>2. m \in Letter /\ m.state = "PENDING" /\ m.tries = letter[k].tries + 1 /\ m.calls = letter[k].calls
      <3>1. letter[k].tries + 1 \in Nat /\ letter[k] \in Letter
        BY <1>5
      <3>. QED BY <2>1, <3>1 DEF Letter
    <2>3. PICK n : n = [pc |-> "send", batch |-> rest, at |-> k, try |-> letter[k].tries + 1]
      OBVIOUS
    <2>4. n \in Courier /\ n.pc = "send" /\ n.batch = rest /\ n.at = k /\ n.try = letter[k].tries + 1
      BY <1>5, <2>3 DEF Courier
    <2>5. letter' = [letter EXCEPT ![k] = m] /\ courier' = [courier EXCEPT ![c] = n]
      BY <1>3, <1>8, <2>1, <2>3 DEF Claim, Move
    <2>6. letter'[k] = m /\ (\A j \in Keys \ {k} : letter'[j] = letter[j]) /\ letter' \in [Keys -> Letter]
      BY <2>2, <2>5 DEF LetterInv, LetterTypeOK
    <2>7. Carries(n, letter', told')
      BY <1>4, <1>5, <2>2, <2>4, <2>6 DEF Carries
    <2>8. \A d \in Couriers : InTransport(d, k) => courier[d].try # n.try
      <3>. SUFFICES ASSUME NEW d \in Couriers, InTransport(d, k) PROVE courier[d].try # n.try
        OBVIOUS
      <3>1. courier[d].try <= letter[k].tries /\ courier[d].try \in Nat
        BY DEF InTransport, LetterInv, CouriersKnow, Carries, LetterTypeOK, Courier
      <3>. QED BY <1>5, <2>4, <3>1
    <2>9. \A j \in Keys : letter'[j].tries >= letter[j].tries
      BY <1>5, <2>2, <2>6
    <2>d. Delivers(c, n)
      BY <1>2, <1>8, <2>2, <2>4, <2>5, <2>6, <2>7, <2>8, <2>9 DEF Delivers, LetterInv, LetterTypeOK
    <2>. QED BY <2>4, <2>d DEF Delivered
  <1>. QED BY <1>6, <1>7, <1>8

LEMMA PostDelivers ==
  ASSUME LetterInv, NEW c \in Couriers, NEW taken \in BOOLEAN, NEW heard \in BOOLEAN,
         Post(c, taken, heard)
  PROVE  Delivered
  <1>1. courier[c] \in Courier /\ Carries(courier[c], letter, told) /\ courier[c].pc = "send"
    BY DEF LetterInv, LetterTypeOK, CouriersKnow, Post
  <1>2. PICK n : n = [courier[c] EXCEPT !.pc = IF heard THEN "accepted" ELSE "rejected"]
    OBVIOUS
  <1>3. /\ n \in Courier /\ n.at = courier[c].at /\ n.try = courier[c].try /\ n.batch = courier[c].batch
        /\ n.pc = IF heard THEN "accepted" ELSE "rejected"
    BY <1>1, <1>2 DEF Courier
  <1>4. courier' = [courier EXCEPT ![c] = n] /\ letter' = letter /\ slips' = slips
    BY <1>2 DEF Post, Move
  <1>5. told \subseteq told' /\ told' \subseteq Keys /\ (heard => n.at \in told')
    BY <1>1, <1>3 DEF Post, LetterInv, LetterTypeOK, Carries
  <1>6. Carries(n, letter', told')
    BY <1>1, <1>3, <1>4, <1>5 DEF Carries
  <1>7. \A d \in Couriers \ {c}, k \in Keys : n.at = k /\ InTransport(d, k) => courier[d].try # n.try
    BY <1>1, <1>3 DEF LetterInv, OwnAttempt, InTransport
  <1>8. \A j \in Keys : letter[j].tries \in Nat
    BY DEF LetterInv, LetterTypeOK, Letter
  <1>d. Delivers(c, n)
    BY <1>3, <1>4, <1>5, <1>6, <1>7, <1>8 DEF Delivers, LetterInv, LetterTypeOK
  <1>. QED BY <1>3, <1>d DEF Delivered

LEMMA RecordDelivers ==
  ASSUME LetterInv, NEW c \in Couriers, Record(c)
  PROVE  Delivered
  <1>1. courier[c] \in Courier /\ Carries(courier[c], letter, told) /\ courier[c].pc \in {"accepted", "rejected"}
    BY DEF LetterInv, LetterTypeOK, CouriersKnow, Record
  <1>2. PICK k \in Keys : k = courier[c].at
    BY <1>1 DEF Carries
  <1>3. letter[k].state # "none" /\ InTransport(c, k) /\ \A j \in courier[c].batch : letter[j].state # "none"
    BY <1>1, <1>2 DEF Carries, InTransport
  <1>4. \A j \in Keys : letter[j] \in Letter /\ letter[j].tries \in Nat
    BY DEF LetterInv, LetterTypeOK, Letter
  <1>5. PICK m : m = IF Newest(c) THEN [letter[k] EXCEPT !.state = IF courier[c].pc = "accepted" THEN "SENT" ELSE "FAILED"]
                     ELSE letter[k]
    OBVIOUS
  <1>6. /\ m \in Letter /\ m.tries = letter[k].tries /\ m.calls = letter[k].calls /\ m.state # "none"
        /\ m.state # letter[k].state => courier[c].try = letter[k].tries
        /\ m.state = "SENT" => letter[k].state = "SENT" \/ courier[c].pc = "accepted"
    BY <1>2, <1>3, <1>4, <1>5 DEF Letter, Newest
  <1>7. letter' = [letter EXCEPT ![k] = m]
    BY <1>2, <1>5 DEF Record, LetterInv, LetterTypeOK
  <1>8. letter'[k] = m /\ (\A j \in Keys \ {k} : letter'[j] = letter[j]) /\ letter' \in [Keys -> Letter]
    BY <1>6, <1>7 DEF LetterInv, LetterTypeOK
  <1>9. letter[k].state = "SENT" => m = letter[k]
    BY <1>1, <1>2, <1>5 DEF Carries, Newest
  <1>10. PICK n \in Courier : /\ courier' = [courier EXCEPT ![c] = n] /\ Carries(n, letter', told')
                              /\ n.pc \in {"idle", "loop"}
    <2>1. PICK batch \in SUBSET Keys : batch = courier[c].batch
      BY <1>1 DEF Courier
    <2>2. Continue(c, batch) /\ \A j \in batch : letter[j].state # "none"
      BY <1>3, <2>1 DEF Record
    <2>3. \A j \in Keys : letter'[j].state = "none" <=> letter[j].state = "none"
      BY <1>3, <1>6, <1>8
    <2>. QED BY <1>8, <2>2, <2>3, Continues
  <1>11. told' = told /\ slips' = slips
    BY DEF Record
  <1>12. \A j \in Keys : letter'[j].state = "SENT" /\ letter[j].state # "SENT" =>
             /\ InTransport(c, j) /\ courier[c].pc = "accepted"
             /\ courier[c].try = letter[j].tries /\ letter'[j].tries = letter[j].tries
    BY <1>3, <1>6, <1>8
  <1>13. \A j \in Keys : letter[j].state = "SENT" => letter'[j].state = "SENT" /\ letter'[j].tries = letter[j].tries
    BY <1>8, <1>9
  <1>14. \A j \in Keys : /\ letter'[j].state = "none" <=> letter[j].state = "none"
                         /\ letter'[j].calls > 0 => letter[j].calls > 0
                         /\ letter'[j].tries >= letter[j].tries
    BY <1>3, <1>4, <1>6, <1>8
  <1>d. Delivers(c, n)
    BY <1>8, <1>10, <1>11, <1>12, <1>13, <1>14 DEF Delivers, LetterInv, LetterTypeOK
  <1>. QED BY <1>d DEF Delivered

LEMMA FaultDelivers ==
  ASSUME LetterInv, NEW c \in Couriers, RecordFails(c) \/ Stop(c)
  PROVE  Delivered
  <1>1. courier[c] \in Courier /\ Carries(courier[c], letter, told) /\ letter' = letter /\ told' = told
    BY DEF LetterInv, LetterTypeOK, CouriersKnow, RecordFails, Stop
  <1>2. slips' \in 0 .. MaxSlips
    BY LettersAssumption DEF LetterInv, LetterTypeOK, RecordFails, Stop
  <1>3. \A j \in Keys : letter[j].tries \in Nat
    BY DEF LetterInv, LetterTypeOK, Letter
  <1>4. CASE RecordFails(c)
    <2>1. PICK n : n = [courier[c] EXCEPT !.pc = "rejected"]
      OBVIOUS
    <2>2. /\ n \in Courier /\ n.at = courier[c].at /\ n.try = courier[c].try
          /\ n.batch = courier[c].batch /\ n.pc = "rejected"
      BY <1>1, <2>1 DEF Courier
    <2>3. Carries(n, letter', told') /\ courier' = [courier EXCEPT ![c] = n]
      BY <1>1, <1>4, <2>1, <2>2 DEF Carries, RecordFails, Move
    <2>4. \A d \in Couriers \ {c}, k \in Keys : n.at = k /\ InTransport(d, k) => courier[d].try # n.try
      BY <1>1, <1>4, <2>2 DEF LetterInv, OwnAttempt, InTransport, RecordFails
    <2>d. Delivers(c, n)
      BY <1>1, <1>2, <1>3, <2>2, <2>3, <2>4 DEF Delivers, LetterInv, LetterTypeOK
    <2>. QED BY <2>2, <2>d DEF Delivered
  <1>5. CASE Stop(c)
    <2>1. AtRest \in Courier /\ Carries(AtRest, letter', told') /\ AtRest.pc = "idle"
      BY DEF AtRest, Courier, Carries
    <2>d. Delivers(c, AtRest)
      BY <1>1, <1>2, <1>3, <1>5, <2>1 DEF Delivers, LetterInv, LetterTypeOK, Stop, Move
    <2>. QED BY <2>1, <2>d DEF Delivered
  <1>. QED BY <1>4, <1>5

(* Everything else changes letters and not couriers.                         *)
LEMMA OtherLetters ==
  ASSUME TypeOK, LetterInv, [Next]_vars, courier' = courier, told' = told,
         slips' \in 0 .. MaxSlips, letter' \in [Keys -> Letter],
         \A k \in Keys : /\ letter'[k].state = letter[k].state
                         /\ letter'[k].tries = letter[k].tries
                         /\ letter'[k].calls = letter[k].calls
  PROVE  LetterInv' /\ \A k \in Keys : Kept(letter[k], letter'[k])
  <1>1. \A k \in Keys : Kept(letter[k], letter'[k])
    BY DEF Kept, LetterInv, LettersDecided
  <1>2. \A k \in Keys : letter'[k].state # "none" => review'[k] \in {"ACCEPTED", "REJECTED"}
    BY ReviewStands DEF LetterInv, LettersDecided
  <1>. QED BY <1>1, <1>2, LettersChange

(* What a step does: a letter changes without a courier, or a courier acts.  *)
LEMMA DSteps ==
  ASSUME TypeOK, LetterInv, [DNext]_dvars
  PROVE  \/ LetterInv' /\ \A k \in Keys : Kept(letter[k], letter'[k])
         \/ UNCHANGED vars /\ Delivered
  <1>0. [Next]_vars
    BY DNextNext
  <1>1. letter \in [Keys -> Letter] /\ slips \in 0 .. MaxSlips
    BY DEF LetterInv, LetterTypeOK
  <1>2. CASE Elsewhere \/ UNCHANGED dvars
    BY <1>0, <1>1, <1>2, OtherLetters DEF Elsewhere, dvars, lvars
  <1>3. ASSUME NEW k \in Keys, NEW eligible \in BOOLEAN, Decide(k, eligible)
        PROVE  LetterInv' /\ \A j \in Keys : Kept(letter[j], letter'[j])
    <2>1. review[k] = "PENDING" /\ review'[k] \in {"ACCEPTED", "REJECTED"}
      BY <1>3, DecisionOnce DEF Decide
    <2>2. letter[k].state = "none"
      BY <2>1 DEF LetterInv, LettersDecided
    <2>3. PICK m : m = Written(eligible)
      OBVIOUS
    <2>4. m \in Letter /\ m.state \in {"PENDING", "BLOCKED"}
      BY <2>3 DEF Written, Letter
    <2>5. letter' = [letter EXCEPT ![k] = m] /\ courier' = courier /\ told' = told /\ slips' = slips
      BY <1>3, <2>3 DEF Decide
    <2>6. letter' \in [Keys -> Letter] /\ letter'[k] = m /\ \A j \in Keys \ {k} : letter'[j] = letter[j]
      BY <1>1, <2>4, <2>5
    <2>7. \A j \in Keys : Kept(letter[j], letter'[j])
      BY <1>1, <2>2, <2>4, <2>6 DEF Kept, LetterInv, LettersDecided
    <2>8. \A j \in Keys : letter'[j].state # "none" => review'[j] \in {"ACCEPTED", "REJECTED"}
      BY <1>0, <2>1, <2>6, ReviewStands DEF LetterInv, LettersDecided
    <2>. QED BY <1>1, <2>5, <2>6, <2>7, <2>8, LettersChange
  <1>4. ASSUME NEW s \in Surveys, RecipientChanges(s)
        PROVE  LetterInv' /\ \A j \in Keys : Kept(letter[j], letter'[j])
    <2>1. \A k \in Keys : [letter[k] EXCEPT !.same = FALSE] \in Letter
      BY <1>1 DEF Letter
    <2>2. /\ letter' \in [Keys -> Letter]
          /\ \A k \in Keys : /\ letter'[k].state = letter[k].state
                            /\ letter'[k].tries = letter[k].tries
                            /\ letter'[k].calls = letter[k].calls
      BY <1>1, <1>4, <2>1 DEF RecipientChanges, Letter
    <2>. QED BY <1>0, <1>1, <1>4, <2>2, OtherLetters DEF RecipientChanges
  <1>5. ASSUME NEW k \in Keys, ClaimRunsOut(k) \/ CourierOverruns(k)
        PROVE  LetterInv' /\ \A j \in Keys : Kept(letter[j], letter'[j])
    <2>1. [letter[k] EXCEPT !.fresh = FALSE] \in Letter
      BY <1>1 DEF Letter
    <2>2. letter' = [letter EXCEPT ![k] = [letter[k] EXCEPT !.fresh = FALSE]]
      BY <1>1, <1>5 DEF ClaimRunsOut, CourierOverruns
    <2>3. /\ letter' \in [Keys -> Letter]
          /\ \A j \in Keys : /\ letter'[j].state = letter[j].state
                            /\ letter'[j].tries = letter[j].tries
                            /\ letter'[j].calls = letter[j].calls
      BY <1>1, <2>1, <2>2 DEF Letter
    <2>4. slips' \in 0 .. MaxSlips
      BY <1>1, <1>5, LettersAssumption DEF ClaimRunsOut, CourierOverruns
    <2>. QED BY <1>0, <1>5, <2>3, <2>4, OtherLetters DEF ClaimRunsOut, CourierOverruns
  <1>6. ASSUME NEW c \in Couriers, NEW k \in Keys, Call(c, k)
        PROVE  UNCHANGED vars /\ Delivered
    BY <1>6, CallDelivers DEF Call
  <1>7. ASSUME NEW c \in Couriers, Deliver(c) PROVE UNCHANGED vars /\ Delivered
    BY <1>7, SweepDelivers, ClaimDelivers, PostDelivers, RecordDelivers
       DEF Deliver, Sweep, Claim, Post, Record
  <1>8. ASSUME NEW c \in Couriers, RecordFails(c) \/ Stop(c) PROVE UNCHANGED vars /\ Delivered
    BY <1>8, FaultDelivers DEF RecordFails, Stop
  <1>. QED BY <1>2, <1>3, <1>4, <1>5, <1>6, <1>7, <1>8 DEF DNext

LEMMA LetterStep == TypeOK /\ LetterInv /\ [DNext]_dvars => LetterInv'
  BY DSteps, DeliveryKeeps DEF Delivered

------------------------------------------------------------------------------
(* The inductive invariant of letters and couriers (deliverSignupNotice).    *)
THEOREM LetterInvariance == DSpec => []LetterInv
  <1>1. DSpec => []TypeOK
    BY RequestsUndisturbed, TypeCorrect, PTL
  <1>. QED BY <1>1, LetterInit, LetterStep, PTL DEF DSpec

(* Letters and couriers keep their types.                                    *)
THEOREM LettersTyped == DSpec => []LetterTypeOK
  <1>1. LetterInv => LetterTypeOK
    BY DEF LetterInv
  <1>. QED BY <1>1, LetterInvariance, PTL

(* The count of attempts that the claim returned identifies the attempt, so  *)
(* updateMany on it finds the outcome's own attempt or nothing.              *)
THEOREM AttemptsApart == DSpec => []OwnAttempt
  <1>1. LetterInv => OwnAttempt
    BY DEF LetterInv
  <1>. QED BY <1>1, LetterInvariance, PTL

(* However couriers overrun their claims, a decision mail that is recorded   *)
(* as sent was accepted, stays so and is not sent again.                     *)
THEOREM SentForGood == DSpec => SentStands
  <1>1. TypeOK /\ LetterInv /\ [DNext]_dvars =>
          \A k \in Keys :
             /\ letter[k].state = "SENT" => letter'[k].state = "SENT" /\ letter'[k].tries = letter[k].tries
             /\ letter[k].state # "SENT" /\ letter'[k].state = "SENT" => k \in told
    <2>. SUFFICES ASSUME TypeOK, LetterInv, [DNext]_dvars, NEW k \in Keys
                  PROVE  /\ letter[k].state = "SENT" => letter'[k].state = "SENT" /\ letter'[k].tries = letter[k].tries
                         /\ letter[k].state # "SENT" /\ letter'[k].state = "SENT" => k \in told
      OBVIOUS
    <2>1. CASE \A j \in Keys : Kept(letter[j], letter'[j])
      BY <2>1 DEF Kept
    <2>2. ASSUME NEW c \in Couriers, NEW n \in Courier, Delivers(c, n)
          PROVE  /\ letter[k].state = "SENT" => letter'[k].state = "SENT" /\ letter'[k].tries = letter[k].tries
                 /\ letter[k].state # "SENT" /\ letter'[k].state = "SENT" => k \in told
      <3>1. InTransport(c, k) /\ courier[c].pc = "accepted" => k \in told
        BY DEF LetterInv, CouriersKnow, Carries, InTransport
      <3>. QED BY <2>2, <3>1 DEF Delivers
    <2>. QED BY <2>1, <2>2, DSteps DEF Delivered
  <1>2. DSpec => []TypeOK
    BY RequestsUndisturbed, TypeCorrect, PTL
  <1>. QED BY <1>1, <1>2, LetterInvariance, PTL DEF DSpec, SentStands

=============================================================================
