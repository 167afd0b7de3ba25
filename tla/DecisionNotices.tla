--------------------------- MODULE DecisionNotices ---------------------------
(***************************************************************************)
(* The mail that tells a participant how an appeal was decided, composed   *)
(* with RequestNotices.  The decision writes a StudentSignupNotice of its   *)
(* own (here: the letter of the flag version that was decided).  It is not *)
(* delivered by the dispatchers of RequestNotices: two calls right after   *)
(* the commit and a sweep every minute in each process (here: couriers)    *)
(* claim it by the time of the last attempt, send it, and record the       *)
(* outcome of the attempt they made.                                       *)
(***************************************************************************)
EXTENDS RequestNotices

CONSTANTS Couriers,     \* calls of deliverSignupNotice(s) that may overlap
          MaxTries,     \* attempts after which no sweep takes a letter: six
          MaxSlips      \* bound: crashes, failed writes and overrun claims

ASSUME LettersAssumption == MaxTries \in Nat \ {0} /\ MaxSlips \in Nat

VARIABLES
    letter,     \* the APPEAL_* notice of a decided flag version
    courier,    \* local state of a delivery
    told,       \* ghost: letters the provider accepted
    slips

lvars == <<letter, courier, told, slips>>
dvars == <<vars, lvars>>

(* "fresh": the last attempt began less than five minutes ago.  "same": the *)
(* recipient is still the account and session the letter was written for.   *)
(* "calls": calls of the deciding request that are still to come.           *)
Letter == [state : {"none", "PENDING", "FAILED", "SENT", "BLOCKED"}, tries : Nat,
           fresh : BOOLEAN, same : BOOLEAN, calls : 0 .. 2]
NoLetter == [state |-> "none", tries |-> 0, fresh |-> FALSE, same |-> FALSE, calls |-> 0]

AtRest == [pc |-> "idle", batch |-> {}, at |-> NoRow, try |-> 0]
Courier == [pc : {"idle", "loop", "send", "accepted", "rejected"}, batch : SUBSET Keys,
            at : Keys \cup {NoRow}, try : Nat]

LetterTypeOK ==
    /\ letter \in [Keys -> Letter] /\ courier \in [Couriers -> Courier]
    /\ told \subseteq Keys /\ slips \in 0 .. MaxSlips

DInit ==
    /\ Init
    /\ letter = [k \in Keys |-> NoLetter]
    /\ courier = [c \in Couriers |-> AtRest]
    /\ told = {} /\ slips = MaxSlips

------------------------------------------------------------------------------
(* The decision and its letter *)

(* enqueueSignupNotice, with or without an eligible recipient.              *)
Written(eligible) ==
    [state |-> IF eligible THEN "PENDING" ELSE "BLOCKED", tries |-> 0,
     fresh |-> FALSE, same |-> eligible, calls |-> 2]

Decide(k, eligible) ==
    /\ AcceptAppeal(k) \/ RejectAppeal(k)
    /\ letter' = [letter EXCEPT ![k] = Written(eligible)]
    /\ UNCHANGED <<courier, told, slips>>

(* The account's sessions are revoked: a letter waiting for it is not sent. *)
RecipientChanges(s) ==
    /\ \E k \in KeysOf(s) : letter[k].same \/ cap[k].proof = "bound"
    /\ IF \E k \in KeysOf(s) : cap[k].proof = "bound" THEN SessionChanges(s) ELSE UNCHANGED vars
    /\ letter' = [k \in Keys |-> IF k.of = s THEN [letter[k] EXCEPT !.same = FALSE] ELSE letter[k]]
    /\ UNCHANGED <<courier, told, slips>>

------------------------------------------------------------------------------
(* Delivery *)

Move(c, next) == courier' = [courier EXCEPT ![c] = next]
Continue(c, batch) ==
    Move(c, IF batch = {} THEN AtRest ELSE [AtRest EXCEPT !.pc = "loop", !.batch = batch])

(* deliverSignupNotice right after the decision's commit.                    *)
Call(c, k) ==
    /\ courier[c].pc = "idle" /\ letter[k].calls > 0
    /\ letter' = [letter EXCEPT ![k].calls = @ - 1]
    /\ Continue(c, {k})
    /\ UNCHANGED <<vars, told, slips>>

(* Variant: an attempt whose process died is not selected again.            *)
SelectableOnce(l) ==
    \/ l.state = "PENDING" /\ l.tries = 0
    \/ l.state = "FAILED" /\ l.tries < MaxTries /\ ~l.fresh

Selectable(l) ==
    l.state \in {"PENDING", "FAILED"} /\ l.tries < MaxTries /\ ~l.fresh

(* deliverSignupNotices: the selection is one query, the letters follow one *)
(* after the other.                                                         *)
Sweep(c) ==
    LET due == {k \in Keys : Selectable(letter[k])}
    IN  /\ courier[c].pc = "idle" /\ due # {}
        /\ Continue(c, due)
        /\ UNCHANGED <<vars, letter, told, slips>>

(* The claim, one transaction.                                              *)
Claim(c, k) ==
    /\ courier[c].pc = "loop" /\ k \in courier[c].batch
    /\ LET l == letter[k] IN
       IF l.state = "SENT" \/ l.fresh
       THEN Continue(c, courier[c].batch \ {k}) /\ UNCHANGED letter
       ELSE IF ~l.same
       THEN /\ letter' = [letter EXCEPT ![k].state = "BLOCKED"]
            /\ Continue(c, courier[c].batch \ {k})
       ELSE /\ letter' = [letter EXCEPT ![k].state = "PENDING", ![k].tries = @ + 1,
                                        ![k].fresh = TRUE]
            /\ Move(c, [pc |-> "send", batch |-> courier[c].batch \ {k},
                        at |-> k, try |-> l.tries + 1])
    /\ UNCHANGED <<vars, told, slips>>

(* emailSender.send                                                         *)
Post(c, taken, heard) ==
    /\ courier[c].pc = "send" /\ (heard => taken) /\ (taken => up)
    /\ told' = IF taken THEN told \cup {courier[c].at} ELSE told
    /\ Move(c, [courier[c] EXCEPT !.pc = IF heard THEN "accepted" ELSE "rejected"])
    /\ UNCHANGED <<vars, letter, slips>>

(* Variant: the outcome is recorded whatever attempt came after.            *)
NewestAlways(c) == TRUE

(* Nobody has claimed the letter since.                                     *)
Newest(c) == letter[courier[c].at].tries = courier[c].try

Record(c) ==
    /\ courier[c].pc \in {"accepted", "rejected"}
    /\ letter' = IF Newest(c)
                 THEN [letter EXCEPT ![courier[c].at].state =
                          IF courier[c].pc = "accepted" THEN "SENT" ELSE "FAILED"]
                 ELSE letter
    /\ Continue(c, courier[c].batch)
    /\ UNCHANGED <<vars, told, slips>>

(* The write of an acceptance fails, and the catch takes it for a failure   *)
(* of the mail.                                                             *)
RecordFails(c) ==
    /\ courier[c].pc = "accepted" /\ slips > 0
    /\ Move(c, [courier[c] EXCEPT !.pc = "rejected"])
    /\ slips' = slips - 1
    /\ UNCHANGED <<vars, letter, told>>

(* The process dies, or another statement throws.                           *)
Stop(c) ==
    /\ courier[c].pc # "idle" /\ slips > 0
    /\ Move(c, AtRest)
    /\ slips' = slips - 1
    /\ UNCHANGED <<vars, letter, told>>

InTransport(c, k) == courier[c].pc \in {"send", "accepted", "rejected"} /\ courier[c].at = k

(* Five minutes pass; the SMTP connection has its own, shorter timeouts.    *)
ClaimRunsOut(k) ==
    /\ letter[k].fresh /\ \A c \in Couriers : ~InTransport(c, k)
    /\ letter' = [letter EXCEPT ![k].fresh = FALSE]
    /\ UNCHANGED <<vars, courier, told, slips>>

(* They pass all the same while the mail waits for a connection.            *)
CourierOverruns(k) ==
    /\ letter[k].fresh /\ slips > 0 /\ \E c \in Couriers : InTransport(c, k)
    /\ letter' = [letter EXCEPT ![k].fresh = FALSE]
    /\ slips' = slips - 1
    /\ UNCHANGED <<vars, courier, told>>

Deliver(c) ==
    \/ Sweep(c)
    \/ \E k \in Keys : Claim(c, k)
    \/ \E taken, heard \in BOOLEAN : Post(c, taken, heard)
    \/ Record(c)

(* What concerns the request and its receipts only.                         *)
Elsewhere ==
    /\ \/ Desk \/ Contact \/ Mishap \/ Time \/ ChangeTransport
       \/ \E w \in Workers : Dispatch(w)
    /\ UNCHANGED lvars

DNext ==
    \/ Elsewhere
    \/ \E k \in Keys, eligible \in BOOLEAN : Decide(k, eligible)
    \/ \E s \in Surveys : RecipientChanges(s)
    \/ \E c \in Couriers, k \in Keys : Call(c, k)
    \/ \E c \in Couriers : Deliver(c) \/ RecordFails(c) \/ Stop(c)
    \/ \E k \in Keys : ClaimRunsOut(k) \/ CourierOverruns(k)

DFairness ==
    /\ \A c \in Couriers : WF_dvars(Deliver(c))
    /\ \A k \in Keys : WF_dvars(ClaimRunsOut(k))
    /\ \A w \in Workers : WF_dvars(Dispatch(w) /\ UNCHANGED lvars)
    /\ \A k \in Keys : WF_dvars(LeaseRunsOut(k) /\ UNCHANGED lvars)
    /\ \A k \in Keys : WF_dvars(BackoffEnds(k) /\ UNCHANGED lvars)

DSpec == DInit /\ [][DNext]_dvars
FairDSpec == DSpec /\ DFairness

------------------------------------------------------------------------------
(* A letter is recorded as sent only after the provider took it, and then    *)
(* for good: neither the late answer of an attempt that was overtaken nor a  *)
(* sweep, a call or a change of the account makes it anything else, so it is *)
(* not sent again.                                                           *)
SentStands ==
    [][\A k \in Keys :
          /\ letter[k].state = "SENT" => letter'[k].state = "SENT" /\ letter'[k].tries = letter[k].tries
          /\ letter[k].state # "SENT" /\ letter'[k].state = "SENT" => k \in told]_dvars

(* Two couriers never make the same attempt of a letter, so the count of     *)
(* attempts tells their answers apart: what the condition of the outcome's   *)
(* update rests on.                                                          *)
OwnAttempt ==
    \A c, d \in Couriers, k \in Keys :
        InTransport(c, k) /\ InTransport(d, k) /\ courier[c].try = courier[d].try => c = d

(* The participant's letter does not stay behind, whatever processes die:    *)
(* it ends sent, blocked for its recipient, or with its attempts used up.    *)
LetterSettles ==
    \A k \in Keys :
        <>[](letter[k].state \in {"PENDING", "FAILED"} => letter[k].tries >= MaxTries)

=============================================================================
