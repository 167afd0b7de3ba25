---------------------------- MODULE RequestNotices ----------------------------
(***************************************************************************)
(* Invalidity flags of public requests, the service mail about them, and   *)
(* the appeals against them.  Staff flag and clear a request; every change *)
(* has a version and one EmailDelivery receipt per version, delivered by   *)
(* the same dispatchers as account mail but admitted against the state of  *)
(* the request at that moment.  A participant appeals through the link in  *)
(* that mail or as the owner of the request.                               *)
(*                                                                         *)
(* Two kinds of source.  A generic one is a tutor application or a signup  *)
(* of the old form: its appeal belongs to the receipt.  A survey is a      *)
(* current signup: its flag also has a capability (StudentSignupNotice),   *)
(* bound to an account session, and its appeal belongs to the flag.        *)
(***************************************************************************)
EXTENDS DeliveryRow, FiniteSets

CONSTANTS Surveys,      \* current signup requests
          Generic,      \* tutor applications and signups of the old form
          OldSignups,   \* of these, the signups: their address may be edited
          Mailboxes,    \* well-formed addresses
          Malformed, Absent,    \* an address that is none; no address
          NoRow,        \* a worker's "no row in hand"
          MaxVersion,   \* bound: the last invalidityVersion
          MaxRetries,   \* bound: deliberate requeues by staff
          MaxFaults     \* bound: crashes, overruns and missed deadlines

ASSUME SourcesAssumption == Surveys \cap Generic = {} /\ OldSignups \subseteq Generic
ASSUME AddressesAssumption == {Malformed, Absent} \cap Mailboxes = {} /\ Malformed # Absent
ASSUME BoundsAssumption == MaxVersion \in Nat /\ MaxRetries \in Nat /\ MaxFaults \in Nat

Sources == Surveys \cup Generic
Keys == [of : Sources, version : 1 .. MaxVersion]
Addresses == Mailboxes \cup {Malformed, Absent}
KeysOf(s) == {k \in Keys : k.of = s}

ASSUME NoRowAssumption == NoRow \notin Keys

VARIABLES
    src,        \* the request itself
    about,      \* what the receipt of a version announces; "none": no receipt
    to,         \* the address it was written to
    row,        \* EmailDelivery of category request_service, by key
    appeal,     \* RequestInvalidityAppeal of a receipt
    review,     \* StudentSignupAppeal of a flag version
    cap,        \* the INVALID_FLAGGED StudentSignupNotice of a flag version
    up,         \* isEmailDeliveryAvailable("PROGRAM")
    wk,         \* local state of every dispatcher
    accepted,   \* ghost: receipts the provider accepted
    retries, faults

vars == <<src, about, to, row, appeal, review, cap, up, wk, accepted, retries, faults>>
mail == <<up, wk, accepted, faults>>

(* "late": still open, but the edit period or the verification deadline is  *)
(* over.  "closed": a terminal state.  Generic requests stay editable.      *)
Phases == {"editable", "late", "closed"}

(* "address": the submitted one.  "owned": an account owns the profile the   *)
(* survey belongs to.                                                       *)
Source == [version : 0 .. MaxVersion, flagged : BOOLEAN, phase : Phases,
           address : Addresses, owned : BOOLEAN]

(* "withheld": created without an eligible recipient.  "stale": the session *)
(* version it was bound to is no longer the account's.                      *)
Capability == [proof : {"none", "withheld", "bound", "stale"},
               state : {"PENDING", "BLOCKED", "SENT", "FAILED"}]
NoCapability == [proof |-> "none", state |-> "PENDING"]

Idle == [pc |-> "idle", batch |-> {}, at |-> NoRow]
Capture == [id : Keys, fence : Token]
Worker == [pc : {"idle", "loop", "send", "accepted", "rejected"},
           batch : SUBSET Capture, at : Keys \cup {NoRow}]

TypeOK ==
    /\ src \in [Sources -> Source]
    /\ about \in [Keys -> {"none", "flag", "clear"}]
    /\ to \in [Keys -> Addresses]
    /\ row \in [Keys -> Row]
    /\ appeal \in [Keys -> {"none", "PENDING", "DECLINED", "CLEARED"}]
    /\ review \in [Keys -> {"none", "PENDING", "ACCEPTED", "REJECTED"}]
    /\ cap \in [Keys -> Capability]
    /\ up \in BOOLEAN
    /\ wk \in [Workers -> Worker]
    /\ accepted \subseteq Keys
    /\ retries \in 0 .. MaxRetries
    /\ faults \in 0 .. MaxFaults

(* A request that was never flagged, or one flagged before receipts (and    *)
(* for surveys, before capabilities) were kept.                             *)
Fresh == [version : {0}, flagged : {FALSE}, phase : {"editable"},
          address : Addresses, owned : BOOLEAN]
Legacy == [version : {1} \cap 0 .. MaxVersion, flagged : {TRUE}, phase : {"editable"},
           address : Mailboxes, owned : BOOLEAN]

(* A request that was closed long ago and whose last receipt is gone.        *)
Gone == [version |-> MaxVersion, flagged |-> FALSE, phase |-> "closed",
         address |-> Malformed, owned |-> FALSE]

Init ==
    /\ src \in [Sources -> Fresh \cup Legacy \cup {Gone}]
    /\ \A s \in Sources \ OldSignups : src[s].address # Absent
    /\ \E old \in SUBSET {k \in Keys : k.version = 1 /\ src[k.of].flagged} :
          /\ about = [k \in Keys |-> IF k \in old THEN "flag" ELSE "none"]
          /\ to = [k \in Keys |-> IF k \in old THEN src[k.of].address ELSE Absent]
          /\ row = [k \in Keys |-> IF k \in old
                                   THEN [NewRow("SENT") EXCEPT !.attempts = 1]
                                   ELSE NewRow("PENDING")]
          /\ accepted = old
    /\ appeal = [k \in Keys |-> "none"]
    /\ review = [k \in Keys |-> "none"]
    /\ cap = [k \in Keys |-> NoCapability]
    /\ up = TRUE
    /\ wk = [w \in Workers |-> Idle]
    /\ retries = MaxRetries
    /\ faults = MaxFaults

Receipts == {k \in Keys : about[k] # "none"}
InForce(s) == [of |-> s, version |-> src[s].version]

(* currentRequestNotice: the receipt announces the state the request is in,  *)
(* and it was written to the address the request has.                       *)
Current(k) ==
    LET s == src[k.of]
    IN  /\ k.version = s.version
        /\ (about[k] = "flag") = s.flagged
        /\ to[k] = s.address /\ to[k] # Absent
        /\ about[k] = "flag" /\ cap[k].proof # "none" => s.phase # "closed"

------------------------------------------------------------------------------
(* Staff: flag, clear, retry *)

(* Variant: a change also takes back what is already in transport.          *)
WithdrawableInFlight(r) == r.status \in {"PENDING", "SENDING", "FAILED", "BLOCKED"}

Withdrawable(r) == r.status \in {"PENDING", "FAILED", "BLOCKED"}

(* queueRequestNotice for version k.version of the request.                 *)
QueueNotice(k, invalid) ==
    /\ about' = [about EXCEPT ![k] = IF invalid THEN "flag" ELSE "clear"]
    /\ to' = [to EXCEPT ![k] = src[k.of].address]
    /\ row' = [j \in Keys |->
                  IF j = k THEN NewRow(IF src[k.of].address \in Mailboxes
                                       THEN "PENDING" ELSE "BLOCKED")
                  ELSE IF j \in Receipts /\ j.of = k.of /\ Withdrawable(row[j])
                       THEN Settled(row[j], "SUPERSEDED") ELSE row[j]]
    /\ appeal' = [j \in Keys |->
                     IF ~invalid /\ j.of = k.of /\ appeal[j] = "PENDING"
                     THEN "CLEARED" ELSE appeal[j]]

(* enqueueSignupNotice(INVALID_FLAGGED), to the owner there is just now.    *)
Issued(proof) == [proof |-> proof, state |-> IF proof = "bound" THEN "PENDING" ELSE "BLOCKED"]

(* setApplicationInvalidity, setStudentRequestInvalidity, setSignupInvalidity. *)
SetInvalidity(s, invalid, proof) ==
    LET next == src[s].version + 1
        k == [of |-> s, version |-> next]
    IN  /\ src[s].flagged # invalid /\ next <= MaxVersion
        /\ invalid /\ s \in Surveys => src[s].phase # "closed"
        /\ src' = [src EXCEPT ![s].flagged = invalid, ![s].version = next]
        /\ cap' = IF invalid /\ s \in Surveys
                  THEN [cap EXCEPT ![k] = Issued(proof)] ELSE cap
        /\ QueueNotice(k, invalid)
        /\ UNCHANGED <<review, mail, retries>>

Flag(s) == \E proof \in {"withheld", "bound"} : SetInvalidity(s, TRUE, proof)
Clear(s) == SetInvalidity(s, FALSE, "withheld")

(* The newest receipt of a request.                                         *)
Latest(s, k) == /\ k \in Receipts /\ k.of = s
                /\ \A j \in Receipts : j.of = s => j.version <= k.version

Retryable(r) == Stuck(r) /\ Unleased(r)

Requeue(ids) ==
    /\ retries > 0 /\ retries' = retries - 1
    /\ row' = [k \in Keys |-> IF k \in ids THEN Requeued(row[k]) ELSE row[k]]

RetryNotice(k) ==
    /\ Latest(k.of, k) /\ to[k] \in Mailboxes /\ Current(k) /\ Retryable(row[k])
    /\ Requeue({k})
    /\ UNCHANGED <<src, about, to, appeal, review, cap, mail>>

(* resendStuckEmails takes every stuck row, in force or not.                *)
ResendStuck ==
    /\ up /\ \E k \in Receipts : Retryable(row[k])
    /\ Requeue({k \in Receipts : Retryable(row[k])})
    /\ UNCHANGED <<src, about, to, appeal, review, cap, mail>>

EditPeriod(s) == src[s].phase = "editable"

(* The recipient is still the one the capability was issued to, under a     *)
(* newer session.                                                           *)
Rotates(k, proof) == cap[k].proof = "stale" /\ proof = "bound"

(* The receipts retrySignupNotices queues again: the ordinary ones, and a   *)
(* delivered one whose link died with its session or that never had one.    *)
Renewable(k, proof) ==
    \/ Retryable(row[k])
    \/ /\ row[k].status = "SENT" /\ Unleased(row[k])
       /\ Rotates(k, proof) \/ cap[k].proof = "none"

Renewed(k, proof) ==
    IF cap[k].proof = "none" THEN Issued(proof)
    ELSE IF Rotates(k, proof) THEN [cap[k] EXCEPT !.proof = "bound"]
    ELSE cap[k]

(* retrySignupNotices.  A capability is created or bound to the present     *)
(* session only together with the mail that will carry it.                  *)
RenewNotice(s, proof) ==
    LET k == InForce(s)
    IN  /\ src[s].flagged /\ EditPeriod(s)
        /\ IF k \in Receipts
           THEN /\ Renewable(k, proof) /\ Requeue({k})
                /\ UNCHANGED <<about, to, appeal>>
           ELSE QueueNotice(k, TRUE) /\ UNCHANGED retries
        /\ cap' = [cap EXCEPT ![k] = Renewed(k, proof)]
        /\ UNCHANGED <<src, review, mail>>

------------------------------------------------------------------------------
(* Appeals *)

(* The link of the mail is in somebody's hands.                             *)
Received(k) == k \in accepted

(* Variant: an appeal against a flag that was lifted meanwhile.             *)
EligibleOnce(k) == about[k] = "flag" /\ row[k].status # "SUPERSEDED"

(* eligibleNotice                                                           *)
Eligible(k) ==
    /\ about[k] = "flag" /\ Current(k)
    /\ row[k].status \notin {"SUPERSEDED", "CANCELLED", "SKIPPED", "BLOCKED"}

(* submitRequestAppeal; a second submission changes nothing.                *)
SubmitAppeal(k) ==
    /\ k.of \in Generic /\ k \in Receipts /\ Received(k)
    /\ Eligible(k) /\ appeal[k] = "none"
    /\ appeal' = [appeal EXCEPT ![k] = "PENDING"]
    /\ UNCHANGED <<src, about, to, row, review, cap, mail, retries>>

(* declineRequestAppeal                                                     *)
DeclineAppeal(k) ==
    /\ k.of \in Generic /\ appeal[k] = "PENDING" /\ Current(k)
    /\ appeal' = [appeal EXCEPT ![k] = "DECLINED"]
    /\ UNCHANGED <<src, about, to, row, review, cap, mail, retries>>

(* appealStudentSignup, by the link of the mail or as the owning account.   *)
AppealSignup(s) ==
    LET k == InForce(s)
    IN  /\ src[s].flagged /\ EditPeriod(s) /\ review[k] = "none"
        /\ \/ Received(k) /\ cap[k].proof = "bound"
           \/ src[s].owned
        /\ review' = [review EXCEPT ![k] = "PENDING"]
        /\ UNCHANGED <<src, about, to, row, appeal, cap, mail, retries>>

(* Variant: the decision does not look at the version the appeal is about.  *)
DecidableAnyVersion(k) == EditPeriod(k.of) /\ review[k] = "PENDING"

Decidable(k) ==
    /\ EditPeriod(k.of) /\ review[k] = "PENDING"
    /\ src[k.of].flagged /\ k = InForce(k.of)

(* resolveStudentSignupAppeal.  Accepting clears the flag under a new        *)
(* version; no receipt is queued for that version, the outcome goes out as   *)
(* an APPEAL_ACCEPTED or APPEAL_REJECTED notice of its own.                   *)
AcceptAppeal(k) ==
    /\ Decidable(k) /\ src[k.of].version < MaxVersion
    /\ review' = [review EXCEPT ![k] = "ACCEPTED"]
    /\ src' = [src EXCEPT ![k.of].flagged = FALSE, ![k.of].version = @ + 1]
    /\ UNCHANGED <<about, to, row, appeal, cap, mail, retries>>

RejectAppeal(k) ==
    /\ Decidable(k)
    /\ review' = [review EXCEPT ![k] = "REJECTED"]
    /\ src' = [src EXCEPT ![k.of].phase = "closed"]
    /\ UNCHANGED <<about, to, row, appeal, cap, mail, retries>>

------------------------------------------------------------------------------
(* What happens to the request otherwise *)

request == <<about, to, row, appeal, review, mail, retries>>

(* A rollover ends the edit period, or a verification deadline passes.      *)
PeriodEnds(s) ==
    /\ src[s].phase = "editable"
    /\ src' = [src EXCEPT ![s].phase = "late"]
    /\ UNCHANGED <<cap, request>>

(* closeStudentRequest: recalled, expired or aborted.                       *)
CloseRequest(s) ==
    /\ src[s].phase # "closed"
    /\ src' = [src EXCEPT ![s].phase = "closed"]
    /\ UNCHANGED <<cap, request>>

(* admin.updateTutee changes or removes the address of a signup that has no  *)
(* login; a login's own new address is copied to its signup.                *)
EditAddress(s) ==
    /\ \E address \in (Mailboxes \cup {Absent}) \ {src[s].address} :
          src' = [src EXCEPT ![s].address = address]
    /\ UNCHANGED <<cap, request>>

(* The recipient account's sessions are revoked.                            *)
SessionChanges(s) ==
    /\ \E k \in KeysOf(s) : cap[k].proof = "bound"
    /\ cap' = [k \in Keys |-> IF k.of = s /\ cap[k].proof = "bound"
                              THEN [cap[k] EXCEPT !.proof = "stale"] ELSE cap[k]]
    /\ UNCHANGED <<src, request>>

ChangeTransport ==
    /\ up' = ~up
    /\ UNCHANGED <<src, about, to, row, appeal, review, cap, wk, accepted, retries, faults>>

------------------------------------------------------------------------------
(* One invocation of deliverNotifications, for these rows *)

others == <<src, about, to, appeal, review, up, retries>>

Goto(w, next) == wk' = [wk EXCEPT ![w] = next]
Proceed(w, batch) ==
    Goto(w, IF batch = {} THEN Idle ELSE [Idle EXCEPT !.pc = "loop", !.batch = batch])
Rest(w) == {c \in wk[w].batch : c.id # wk[w].at}

Update(ids, F(_)) == row' = [k \in Keys |-> IF k \in ids THEN F(row[k]) ELSE row[k]]

(* Unlike account mail, an abandoned attempt is a candidate again.          *)
Leasable == {k \in Receipts : Live(row[k]) /\ row[k].due /\ Unleased(row[k])}

LeaseBatch(w) ==
    /\ wk[w].pc = "idle" /\ Leasable # {}    \* an empty sweep changes nothing
    /\ Update(Leasable, LAMBDA x : Leased(x, w))
    /\ Proceed(w, {[id |-> k, fence |-> row[k].attempt] : k \in Leasable})
    /\ UNCHANGED <<cap, others, accepted, faults>>

ReleaseRest(w) ==
    /\ wk[w].pc = "loop" /\ faults > 0
    /\ Update({c.id : c \in {d \in wk[w].batch : /\ Live(row[d.id])
                                                 /\ Fenced(row[d.id], w, d.fence)}},
              LAMBDA x : Settled(x, x.status))
    /\ Goto(w, Idle)
    /\ faults' = faults - 1
    /\ UNCHANGED <<cap, others, accepted>>

PassRow(w, c) ==
    /\ wk[w].pc = "loop" /\ c \in wk[w].batch
    /\ ~Live(row[c.id])
    /\ Proceed(w, wk[w].batch \ {c})
    /\ UNCHANGED <<row, cap, others, accepted, faults>>

DeferRow(w, c) ==
    /\ wk[w].pc = "loop" /\ c \in wk[w].batch
    /\ Live(row[c.id]) /\ ~up
    /\ Update({k \in {c.id} : Fenced(row[k], w, c.fence)}, Deferred)
    /\ Proceed(w, wk[w].batch \ {c})
    /\ UNCHANGED <<cap, others, accepted, faults>>

(* Variant: the budget is not looked at once an attempt is under way.       *)
SpentIfQueued(r) == r.status = "PENDING" /\ r.attempts >= MaxAttempts

Spent(r) == r.attempts >= MaxAttempts

AdmitRefused(w, c) ==
    ~Live(row[c.id]) \/ ~Admissible(row[c.id], w, c.fence)

(* admitRequestDelivery, one transaction.                                   *)
Admit(w, c) ==
    /\ wk[w].pc = "loop" /\ c \in wk[w].batch /\ up
    /\ LET k == c.id
           valid == to[k] \in Mailboxes
           refuse(status) == /\ Update({k}, LAMBDA x : Settled(x, status))
                             /\ Proceed(w, wk[w].batch \ {c})
       IN  IF AdmitRefused(w, c) THEN /\ Proceed(w, wk[w].batch \ {c})
                                      /\ UNCHANGED row
           ELSE IF ~Current(k) THEN refuse("SUPERSEDED")
           ELSE IF ~valid THEN refuse("BLOCKED")
           ELSE IF Spent(row[k]) THEN refuse("FAILED")
           ELSE /\ Update({k}, LAMBDA x : AttemptBy(x, w))
                /\ Goto(w, [wk[w] EXCEPT !.pc = "send", !.at = k])
    /\ UNCHANGED <<cap, others, accepted, faults>>

(* emailSender.send, as in EmailOutbox.                                     *)
Transmit(w, taken, heard) ==
    /\ wk[w].pc = "send" /\ (heard => taken)
    /\ accepted' = IF taken THEN accepted \cup {wk[w].at} ELSE accepted
    /\ Goto(w, [wk[w] EXCEPT !.pc = IF heard THEN "accepted" ELSE "rejected"])
    /\ UNCHANGED <<row, cap, others, faults>>

(* The row still carries the attempt this worker made.                      *)
Settles(w) == row[wk[w].at].status = "SENDING" /\ row[wk[w].at].attempt = w

(* Variant: any failed attempt withdraws the notice.                        *)
OutcomeGivesUp(w, r) == Settled(r, IF wk[w].pc = "accepted" THEN "SENT" ELSE "SUPERSEDED")

Outcome(w, r) ==
    IF wk[w].pc = "accepted" THEN Settled(r, "SENT")
    ELSE IF ~Current(wk[w].at) THEN Settled(r, "SUPERSEDED")
    ELSE Rejected(r, r.attempts)

Evidence(w) == IF wk[w].pc = "accepted" THEN "SENT" ELSE "FAILED"
HasCapability(k) == k.of \in Surveys /\ about[k] = "flag" /\ cap[k].proof # "none"

(* Variant: the capability is stamped before the fence is looked at.        *)
StampedAlways(w) ==
    IF HasCapability(wk[w].at) THEN [cap EXCEPT ![wk[w].at].state = Evidence(w)] ELSE cap

(* The capability shows the result of the attempt that was recorded.        *)
Stamped(w) ==
    IF Settles(w) /\ HasCapability(wk[w].at)
    THEN [cap EXCEPT ![wk[w].at].state = Evidence(w)] ELSE cap

(* finishRequestDelivery, one transaction.                                  *)
Finish(w) ==
    /\ wk[w].pc \in {"accepted", "rejected"}
    /\ Update(IF Settles(w) THEN {wk[w].at} ELSE {}, LAMBDA x : Outcome(w, x))
    /\ cap' = Stamped(w)
    /\ Proceed(w, Rest(w))
    /\ UNCHANGED <<others, accepted, faults>>

(* The completion transaction failed; the throw ends the batch.             *)
FinishFails(w) ==
    /\ wk[w].pc \in {"accepted", "rejected"} /\ faults > 0
    /\ Goto(w, Idle)
    /\ faults' = faults - 1
    /\ UNCHANGED <<row, cap, others, accepted>>

Dispatch(w) ==
    \/ LeaseBatch(w)
    \/ \E c \in wk[w].batch : PassRow(w, c) \/ DeferRow(w, c) \/ Admit(w, c)
    \/ \E taken, heard \in BOOLEAN : Transmit(w, taken, heard)
    \/ Finish(w)

Crash(w) ==
    /\ wk[w].pc # "idle" /\ faults > 0
    /\ Goto(w, Idle)
    /\ faults' = faults - 1
    /\ UNCHANGED <<row, cap, others, accepted>>

Held(k) == \E c \in wk[row[k].lease].batch : c.id = k

LeaseRunsOut(k) ==
    /\ row[k].lease # NoWorker /\ ~row[k].expired /\ ~Held(k)
    /\ row' = [row EXCEPT ![k].expired = TRUE]
    /\ UNCHANGED <<cap, others, wk, accepted, faults>>

WorkerOverruns(k) ==
    /\ row[k].lease # NoWorker /\ ~row[k].expired /\ Held(k) /\ faults > 0
    /\ row' = [row EXCEPT ![k].expired = TRUE]
    /\ faults' = faults - 1
    /\ UNCHANGED <<cap, others, wk, accepted>>

BackoffEnds(k) ==
    /\ ~row[k].due
    /\ row' = [row EXCEPT ![k].due = TRUE]
    /\ UNCHANGED <<cap, others, wk, accepted, faults>>

Desk ==
    \/ \E s \in Sources : Flag(s) \/ Clear(s)
    \/ \E k \in Keys : RetryNotice(k)
    \/ ResendStuck
    \/ \E s \in Surveys, proof \in {"withheld", "bound"} : RenewNotice(s, proof)
    \/ \E k \in Keys : DeclineAppeal(k)
    \/ \E s \in OldSignups : EditAddress(s)

Staff == Desk \/ \E k \in Keys : AcceptAppeal(k) \/ RejectAppeal(k)

Contact ==
    \/ \E k \in Keys : SubmitAppeal(k)
    \/ \E s \in Surveys : AppealSignup(s) \/ CloseRequest(s)

Participant == Contact \/ \E s \in Surveys : SessionChanges(s)

Mishap ==
    \/ \E k \in Keys : WorkerOverruns(k)
    \/ \E w \in Workers : ReleaseRest(w) \/ FinishFails(w) \/ Crash(w)

Time == \/ \E k \in Keys : LeaseRunsOut(k) \/ BackoffEnds(k)
        \/ \E s \in Surveys : PeriodEnds(s)

Next == \/ Staff \/ Participant \/ Mishap \/ Time \/ ChangeTransport
        \/ \E w \in Workers : Dispatch(w)

Fairness ==
    /\ \A w \in Workers : WF_vars(Dispatch(w))
    /\ \A k \in Keys : WF_vars(LeaseRunsOut(k)) /\ WF_vars(BackoffEnds(k))

Spec == Init /\ [][Next]_vars
FairSpec == Spec /\ Fairness

------------------------------------------------------------------------------
(* Safety *)

(* An appeal that waits for review contests the flag that is in force and    *)
(* came through a delivered link.  It can be declined unless the address of  *)
(* the signup has been edited since: then it waits for the flag to be lifted *)
(* or for the address to come back.                                          *)
PendingAppealIsInForce ==
    \A k \in Keys : appeal[k] = "PENDING" =>
        /\ about[k] = "flag" /\ src[k.of].flagged /\ k = InForce(k.of)
        /\ k \in accepted
        /\ to[k] = src[k.of].address => Current(k)

(* An accepted appeal has lifted exactly the flag it was about, a rejected   *)
(* one has closed the request for good, and no later flag is ever raised on  *)
(* a request closed that way.                                                *)
DecisionHolds ==
    \A k \in Keys :
        /\ review[k] = "ACCEPTED" => k.version < src[k.of].version
        /\ review[k] = "REJECTED" =>
              /\ src[k.of].phase = "closed"
              /\ src[k.of].flagged => k = InForce(k.of)

(* A receipt says SENT only if the provider took the message, and what staff *)
(* see of a survey's flag mail agrees with it: a late completion of an       *)
(* overtaken attempt does not touch either.                                  *)
EvidenceAgrees ==
    \A k \in Receipts : row[k].status = "SENT" =>
        /\ k \in accepted
        /\ k.of \in Surveys /\ about[k] = "flag" /\ cap[k].proof # "none" =>
              cap[k].state = "SENT"

(* Staff steps never close an attempt in transport: only the worker that     *)
(* made it does, or one that leased the row after the lease ran out.         *)
AttemptClosedByDispatcher ==
    [][\A k \in Keys : row[k].status = "SENDING" /\ row'[k].status # "SENDING" =>
          \E w \in Workers :
              /\ wk'[w] # wk[w]
              /\ \/ row[k].attempt = w /\ wk[w].pc \in {"accepted", "rejected"}
                 \/ row[k].lease = w /\ wk[w].pc = "loop"]_vars

(* A transport attempt begins only for a notice about the present state of   *)
(* the request, to the address it has, on a row nobody else is sending.      *)
AdmittedOnlyIfCurrent ==
    [][\A w \in Workers : wk[w].pc # "send" /\ wk'[w].pc = "send" =>
          LET k == wk'[w].at
          IN  /\ Current(k)
              /\ \A v \in Workers \ {w} :
                    wk[v].pc = "send" /\ wk[v].at = k /\ row[k].attempt = v =>
                        row[k].lease # v \/ row[k].expired]_vars

------------------------------------------------------------------------------
(* Liveness *)

Stable == <>[](up = TRUE)

(* The notice of a flag that stays in force, to an address that is not       *)
(* edited, is not lost: it ends delivered, given up or blocked for its       *)
(* address.  One that was withdrawn while the address was another stays      *)
(* withdrawn.                                                                *)
FlagIsAnnounced ==
    Stable => \A k \in Keys :
        <>(row[k].status # "SUPERSEDED" /\ [](k \in Receipts /\ Current(k))) =>
            <>[](row[k].status \in {"SENT", "FAILED", "BLOCKED"})

=============================================================================
