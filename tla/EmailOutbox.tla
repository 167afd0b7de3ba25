----------------------------- MODULE EmailOutbox -----------------------------
(***************************************************************************)
(* The account-mail half of the e-mail outbox: rows of category "security" *)
(* (essential) and of the optional categories, dispatched by several        *)
(* concurrent invocations of deliverNotifications while users opt out,     *)
(* administrators switch program mail off, requeue stuck rows or recover   *)
(* an action, accounts are combined, leases run out and processes die.     *)
(* Request-service rows have their own protocol: module RequestNotices.    *)
(*                                                                         *)
(* An action is one database transaction (or one statement outside a       *)
(* transaction) or the SMTP exchange; a worker's local variables between   *)
(* two of them live in wk[w].                                              *)
(***************************************************************************)
EXTENDS DeliveryRow, FiniteSets

CONSTANTS Security,     \* rows of category "security"
          Optional,     \* rows of the optional account categories
          NoRow,        \* a worker's "no row in hand"
          Writers,      \* bound: the other writers of the outbox that act
          MaxFaults     \* bound: crashes, overruns and missed deadlines

ASSUME RowsAssumption == /\ Security \cap Optional = {}
                         /\ NoRow \notin Security \cup Optional
ASSUME WritersAssumption ==
    Writers \subseteq {"preferences", "settings", "transport", "resend",
                       "recovery", "identity"}
ASSUME MaxFaultsAssumption == MaxFaults \in Nat

Rows == Security \cup Optional

Transports == {"SECURITY", "PROGRAM"}
CategoryOf(r) == IF r \in Security THEN "SECURITY" ELSE "PROGRAM"

VARIABLES
    row,        \* EmailDelivery, by row
    stopped,    \* rows with a RecoveryDeliveryCancellation
    holder,     \* the account a row is addressed to, by row
    topic,      \* whether the account accepts the row's topic by mail
    mailOn,     \* ProgramSettings.emailNotificationsEnabled
    up,         \* transport categories isEmailDeliveryAvailable reports
    wk,         \* local state of every dispatcher
    handed,     \* ghost: how often the row was handed to SMTP (0, 1, 2 = many)
    accepted,   \* ghost: rows for which the provider accepted a message
    faults      \* faults left

vars == <<row, stopped, holder, topic, mailOn, up, wk, handed, accepted, faults>>
env == <<stopped, holder, topic, mailOn, up>>

(* "reader": live and entitled.  "withheld": suspended, or the notice was   *)
(* corrected to somebody else.  "retired": merged into another account.     *)
Holders == {"reader", "withheld", "retired"}

(* "reopened": accepted again after an opt-out; the code does not tell it   *)
(* from "on", one property does.                                            *)
Topics == {"on", "off", "reopened"}

Idle == [pc |-> "idle", batch |-> {}, at |-> NoRow, ok |-> FALSE, tries |-> 0]

(* A capture is what the lease UPDATE returned for one row.                 *)
Capture == [id : Rows, fence : Token]

Worker == [pc : {"idle", "settings", "skip", "lease", "loop", "decide",
                 "send", "accepted", "rejected"},
           batch : SUBSET Capture, at : Rows \cup {NoRow},
           ok : BOOLEAN, tries : 0 .. MaxAttempts]

TypeOK ==
    /\ row \in [Rows -> Row]
    /\ stopped \subseteq Rows
    /\ holder \in [Rows -> Holders]
    /\ topic \in [Optional -> Topics]
    /\ mailOn \in BOOLEAN
    /\ up \subseteq Transports
    /\ wk \in [Workers -> Worker]
    /\ handed \in [Rows -> 0 .. 2]
    /\ accepted \subseteq Rows
    /\ faults \in 0 .. MaxFaults

Init ==
    /\ row = [r \in Rows |-> NewRow("PENDING")]
    /\ stopped = {}
    /\ holder = [r \in Rows |-> "reader"]
    /\ topic = [r \in Optional |-> "on"]
    /\ mailOn = TRUE
    /\ up = Transports
    /\ wk = [w \in Workers |-> Idle]
    /\ handed = [r \in Rows |-> 0]
    /\ accepted = {}
    /\ faults = MaxFaults

------------------------------------------------------------------------------
(* Database writes *)

(* Trigger recovery_delivery_retry_guard: what an update that would leave a *)
(* stopped row as "new" really does.  A refused SENT raises, which undoes    *)
(* the transaction.                                                          *)
RetryGuard(isStopped, old, new) ==
    LET sameAttempt == /\ old.status \in {"SENDING", "UNCERTAIN", "CANCELLED"}
                       /\ old.attempt # NoWorker /\ old.started
                       /\ new.attempt = old.attempt
    IN  IF ~isStopped \/ (new.status = "SENT" /\ sameAttempt) THEN new
        ELSE IF new.status = "SENT" /\ old.status # "SENT" THEN old
        ELSE IF new.status \in {"PENDING", "SENDING"}
             THEN Settled(new, IF old.status = "SENT" THEN "SENT" ELSE "CANCELLED")
        ELSE new

(* UPDATE "EmailDelivery" SET ... WHERE row in ids *)
Update(ids, F(_)) ==
    row' = [r \in Rows |-> IF r \in ids
                           THEN RetryGuard(r \in stopped, row[r], F(row[r]))
                           ELSE row[r]]

Pending(ids) == {r \in ids : row[r].status = "PENDING"}

------------------------------------------------------------------------------
(* One invocation of deliverNotifications *)

Goto(w, next) == wk' = [wk EXCEPT ![w] = next]

(* Go on with the batch, or end the invocation after its last row.          *)
Proceed(w, batch) ==
    Goto(w, IF batch = {} THEN Idle ELSE [Idle EXCEPT !.pc = "loop", !.batch = batch])

FenceOf(w) == (CHOOSE c \in wk[w].batch : c.id = wk[w].at).fence
Rest(w) == {c \in wk[w].batch : c.id # wk[w].at}

(* The row is still the one this worker leased.                             *)
Holds(w) == Fenced(row[wk[w].at], w, FenceOf(w))

(* An optional send that was admitted and then abandoned is never fresh     *)
(* work again: its outcome is unknown.                                      *)
Abandoned(r) ==
    /\ row[r].started
    /\ \/ row[r].status = "PENDING"
       \/ row[r].status = "SENDING" /\ Unleased(row[r])

(* Variant: an abandoned send is queued again.                              *)
SweepRetries(w) ==
    /\ wk[w].pc = "idle"
    /\ Update({r \in Optional : Abandoned(r)}, LAMBDA x : Settled(x, "PENDING"))
    /\ Goto(w, [Idle EXCEPT !.pc = "settings"])
    /\ UNCHANGED <<env, handed, accepted, faults>>

Sweep(w) ==
    /\ wk[w].pc = "idle"
    /\ Update({r \in Optional : Abandoned(r)}, LAMBDA x : Settled(x, "UNCERTAIN"))
    /\ Goto(w, [Idle EXCEPT !.pc = "settings"])
    /\ UNCHANGED <<env, handed, accepted, faults>>

ReadSettings(w) ==
    /\ wk[w].pc = "settings"
    /\ Goto(w, [Idle EXCEPT !.pc = IF mailOn THEN "lease" ELSE "skip"])
    /\ UNCHANGED <<row, env, handed, accepted, faults>>

(* Leaves the lease of a skipped row in place.                              *)
SkipBacklog(w) ==
    /\ wk[w].pc = "skip"
    /\ Update(Pending(Optional), LAMBDA x : [x EXCEPT !.status = "SKIPPED"])
    /\ Goto(w, [Idle EXCEPT !.pc = "lease"])
    /\ UNCHANGED <<env, handed, accepted, faults>>

(* Variant: a lease that ran out is never taken over.                       *)
LeasableOnce == {r \in Pending(Rows) : /\ row[r].due /\ r \notin stopped
                                       /\ row[r].lease = NoWorker}

(* The candidates of the lease query.  The batch limit of ten is larger     *)
(* than any instance checked, and no row lock outlives an action.           *)
Leasable == {r \in Pending(Rows) : row[r].due /\ r \notin stopped /\ Unleased(row[r])}

LeaseBatch(w) ==
    /\ wk[w].pc = "lease"
    /\ LET ids == IF up = {} THEN {} ELSE Leasable
       IN  /\ Update(ids, LAMBDA x : Leased(x, w))
           /\ Proceed(w, {[id |-> r, fence |-> row[r].attempt] : r \in ids})
    /\ UNCHANGED <<env, handed, accepted, faults>>

(* The drain's time budget is spent: give back the leases not yet used.     *)
ReleaseRest(w) ==
    /\ wk[w].pc = "loop" /\ faults > 0
    /\ Update({c.id : c \in {d \in wk[w].batch : /\ Live(row[d.id])
                                                 /\ Fenced(row[d.id], w, d.fence)}},
              LAMBDA x : Settled(x, x.status))
    /\ Goto(w, Idle)
    /\ faults' = faults - 1
    /\ UNCHANGED <<env, handed, accepted>>

(* Program-wide and personal checks on the row as it is read now.  "other"  *)
(* stands for the checks that depend on nothing else here: a verified       *)
(* recipient address, the reminder's source, the calendar, staff access.    *)
Eligible(r, other) ==
    /\ other
    /\ holder[r] # "retired"
    /\ r \in Optional => mailOn /\ topic[r] # "off"

ReadRow(w, c, other) ==
    /\ wk[w].pc = "loop" /\ c \in wk[w].batch
    /\ Live(row[c.id]) /\ CategoryOf(c.id) \in up
    /\ Goto(w, [wk[w] EXCEPT !.pc = "decide", !.at = c.id,
                             !.ok = Eligible(c.id, other),
                             !.tries = row[c.id].attempts])
    /\ UNCHANGED <<row, env, handed, accepted, faults>>

PassRow(w, c) ==
    /\ wk[w].pc = "loop" /\ c \in wk[w].batch
    /\ ~Live(row[c.id])
    /\ Proceed(w, wk[w].batch \ {c})
    /\ UNCHANGED <<row, env, handed, accepted, faults>>

DeferRow(w, c) ==
    /\ wk[w].pc = "loop" /\ c \in wk[w].batch
    /\ Live(row[c.id]) /\ CategoryOf(c.id) \notin up
    /\ Update({r \in {c.id} : Fenced(row[r], w, c.fence)}, Deferred)
    /\ Proceed(w, wk[w].batch \ {c})
    /\ UNCHANGED <<env, handed, accepted, faults>>

(* The eligibility checks of the snapshot failed.                           *)
SkipRow(w) ==
    /\ wk[w].pc = "decide" /\ ~wk[w].ok
    /\ Update({r \in {wk[w].at} : Holds(w) /\ Live(row[r])},
              LAMBDA x : Settled(x, "SKIPPED"))
    /\ Proceed(w, Rest(w))
    /\ UNCHANGED <<env, handed, accepted, faults>>

(* The catch block, for a failure before any admission: count one attempt   *)
(* on top of the number read with the row.                                  *)
CatchFailure(w) ==
    /\ Update({r \in {wk[w].at} : Holds(w) /\ row[r].status = "PENDING"},
              LAMBDA x : Rejected(x, wk[w].tries + 1))
    /\ Proceed(w, Rest(w))
    /\ UNCHANGED <<env, handed, accepted, faults>>

(* Building the message threw: a bad origin, a source lookup that failed.   *)
BuildFails(w) ==
    /\ wk[w].pc = "decide" /\ wk[w].ok
    /\ CatchFailure(w)

(* Essential mail needs no admission: it goes out on the snapshot.          *)
BeginSecurity(w) ==
    /\ wk[w].pc = "decide" /\ wk[w].ok /\ wk[w].at \in Security
    /\ Goto(w, [wk[w] EXCEPT !.pc = "send"])
    /\ UNCHANGED <<row, env, handed, accepted, faults>>

(* Variant: the admission trusts what the dispatcher read before.           *)
RefusedIfStopped(w) == wk[w].at \in stopped

(* admitRecoveryGenericDelivery with the identity guard, one transaction.   *)
AdmitRefused(w) ==
    LET r == wk[w].at
    IN  \/ r \in stopped
        \/ ~Admissible(row[r], w, FenceOf(w))
        \/ row[r].status # "PENDING"
        \/ row[r].started

Admit(w) ==
    /\ wk[w].pc = "decide" /\ wk[w].ok /\ wk[w].at \in Optional
    /\ LET r == wk[w].at
           withheld == holder[r] # "reader"
           spent == row[r].attempts >= MaxAttempts
       IN  IF AdmitRefused(w) THEN /\ Proceed(w, Rest(w))
                                   /\ UNCHANGED row
           ELSE IF withheld \/ spent
                THEN /\ Update({r}, LAMBDA x : Settled(x, IF withheld THEN "CANCELLED"
                                                                      ELSE "FAILED"))
                     /\ Proceed(w, Rest(w))
           ELSE /\ Update({r}, LAMBDA x : AttemptBy(x, w))
                /\ Goto(w, [wk[w] EXCEPT !.pc = "send"])
    /\ UNCHANGED <<env, handed, accepted, faults>>

(* emailSender.send.  The provider takes the message or not, and the worker *)
(* hears of an acceptance or gets an exception; an acceptance whose reply    *)
(* is lost looks like a failure.                                             *)
Transmit(w, taken, heard) ==
    /\ wk[w].pc = "send" /\ (heard => taken)
    /\ handed' = [handed EXCEPT ![wk[w].at] = IF @ = 2 THEN 2 ELSE @ + 1]
    /\ accepted' = IF taken THEN accepted \cup {wk[w].at} ELSE accepted
    /\ Goto(w, [wk[w] EXCEPT !.pc = IF heard THEN "accepted" ELSE "rejected"])
    /\ UNCHANGED <<row, env, faults>>

Verdict(w, r) == IF wk[w].pc = "accepted" THEN "SENT"
                 ELSE IF r \in stopped THEN "CANCELLED" ELSE "UNCERTAIN"

(* finishRecoveryGenericDelivery, one transaction.                          *)
FinishOptional(w) ==
    /\ wk[w].pc \in {"accepted", "rejected"} /\ wk[w].at \in Optional
    /\ LET r == wk[w].at
           sent == wk[w].pc = "accepted"
           settles == /\ row[r].attempt = w /\ row[r].started
                      /\ \/ row[r].status \in {"SENDING", "UNCERTAIN"}
                         \/ sent /\ row[r].status = "CANCELLED"
       IN  Update(IF settles THEN {r} ELSE {}, LAMBDA x : Settled(x, Verdict(w, r)))
    /\ Proceed(w, Rest(w))
    /\ UNCHANGED <<env, handed, accepted, faults>>

(* The completion transaction itself failed; the throw ends the batch and   *)
(* the row keeps the evidence of its admitted attempt.                      *)
FinishOptionalFails(w) ==
    /\ wk[w].pc \in {"accepted", "rejected"} /\ wk[w].at \in Optional
    /\ Goto(w, Idle)
    /\ UNCHANGED <<row, env, handed, accepted, faults>>

(* Variant: the outcome of the send is not looked at.                       *)
FinishSecurityAlways(w) ==
    /\ wk[w].pc \in {"accepted", "rejected"} /\ wk[w].at \in Security
    /\ Update({r \in {wk[w].at} : Holds(w) /\ row[r].status = "PENDING"},
              LAMBDA x : [Settled(x, "SENT") EXCEPT !.attempts = @ + 1])
    /\ Proceed(w, Rest(w))
    /\ UNCHANGED <<env, handed, accepted, faults>>

FinishSecurity(w) ==
    /\ wk[w].pc = "accepted" /\ wk[w].at \in Security
    /\ Update({r \in {wk[w].at} : Holds(w) /\ row[r].status = "PENDING"},
              LAMBDA x : [Settled(x, "SENT") EXCEPT !.attempts = @ + 1])
    /\ Proceed(w, Rest(w))
    /\ UNCHANGED <<env, handed, accepted, faults>>

(* The send threw, or recording its success did.                            *)
FailSecurity(w) ==
    /\ wk[w].pc \in {"accepted", "rejected"} /\ wk[w].at \in Security
    /\ CatchFailure(w)

Dispatch(w) ==
    \/ Sweep(w) \/ ReadSettings(w) \/ SkipBacklog(w) \/ LeaseBatch(w)
    \/ \E c \in wk[w].batch : \/ PassRow(w, c) \/ DeferRow(w, c)
                              \/ \E other \in BOOLEAN : ReadRow(w, c, other)
    \/ SkipRow(w) \/ BuildFails(w) \/ BeginSecurity(w) \/ Admit(w)
    \/ \E taken, heard \in BOOLEAN : Transmit(w, taken, heard)
    \/ FinishOptional(w) \/ FinishOptionalFails(w)
    \/ FinishSecurity(w) \/ FailSecurity(w)

(* The process dies: what it knew is gone, what it committed is not.        *)
Crash(w) ==
    /\ wk[w].pc # "idle" /\ faults > 0
    /\ Goto(w, Idle)
    /\ faults' = faults - 1
    /\ UNCHANGED <<row, env, handed, accepted>>

------------------------------------------------------------------------------
(* Time *)

Held(r) == \E c \in wk[row[r].lease].batch : c.id = r

(* Five minutes pass.  A lease nobody works under any more simply runs out; *)
(* outliving the lease of a running worker is a fault (a pause, a slow       *)
(* provider).                                                                *)
LeaseRunsOut(r) ==
    /\ row[r].lease # NoWorker /\ ~row[r].expired /\ ~Held(r)
    /\ row' = [row EXCEPT ![r].expired = TRUE]
    /\ UNCHANGED <<env, wk, handed, accepted, faults>>

WorkerOverruns(r) ==
    /\ row[r].lease # NoWorker /\ ~row[r].expired /\ Held(r) /\ faults > 0
    /\ row' = [row EXCEPT ![r].expired = TRUE]
    /\ faults' = faults - 1
    /\ UNCHANGED <<env, wk, handed, accepted>>

BackoffEnds(r) ==
    /\ ~row[r].due
    /\ row' = [row EXCEPT ![r].due = TRUE]
    /\ UNCHANGED <<env, wk, handed, accepted, faults>>

------------------------------------------------------------------------------
(* Other writers of the outbox *)

local == <<wk, handed, accepted, faults>>

(* Variant: the preference is saved and copies already queued stay.         *)
OptOutLater(r) ==
    /\ topic[r] # "off"
    /\ topic' = [topic EXCEPT ![r] = "off"]
    /\ UNCHANGED <<row, stopped, holder, mailOn, up, local>>

(* unsubscribeFromEmail and the preference saves of the account router.     *)
OptOut(r) ==
    /\ topic[r] # "off"
    /\ topic' = [topic EXCEPT ![r] = "off"]
    /\ Update(Pending({r}), LAMBDA x : Settled(x, "SKIPPED"))
    /\ UNCHANGED <<stopped, holder, mailOn, up, local>>

OptIn(r) ==
    /\ topic[r] = "off" /\ mailOn
    /\ topic' = [topic EXCEPT ![r] = "reopened"]
    /\ UNCHANGED <<row, stopped, holder, mailOn, up, local>>

DisableMail ==
    /\ mailOn
    /\ mailOn' = FALSE
    /\ Update(Pending(Optional), LAMBDA x : [x EXCEPT !.status = "SKIPPED"])
    /\ UNCHANGED <<stopped, holder, topic, up, local>>

EnableMail ==
    /\ ~mailOn /\ "PROGRAM" \in up
    /\ mailOn' = TRUE
    /\ UNCHANGED <<row, stopped, holder, topic, up, local>>

(* Deployment configuration decides what isEmailDeliveryAvailable returns.  *)
ChangeTransport(c) ==
    /\ up' = IF c \in up THEN up \ {c} ELSE up \cup {c}
    /\ UNCHANGED <<row, stopped, holder, topic, mailOn, local>>

(* resendStuckEmails, by an administrator.                                  *)
Resendable(r) ==
    /\ Stuck(row[r]) /\ Unleased(row[r])
    /\ IF r \in Security THEN "SECURITY" \in up
                         ELSE ~row[r].started /\ mailOn /\ "PROGRAM" \in up

ResendStuck ==
    /\ \E r \in Rows : Resendable(r)
    /\ Update({r \in Rows : Resendable(r)}, Requeued)
    /\ UNCHANGED <<env, local>>

(* Variant: recovery also cancels what is already in transport.             *)
CancellableInFlight(r) == row[r].status \in {"PENDING", "SENDING", "FAILED"}

Cancellable(r) == row[r].status \in {"PENDING", "FAILED"} /\ ~row[r].started

(* cancelRecoveryDeliveryEffects for an action whose effects include r.     *)
CancelEffects(r) ==
    /\ r \notin stopped
    /\ stopped' = stopped \cup {r}
    /\ row' = [row EXCEPT ![r] =
                  IF Cancellable(r)
                  THEN [Settled(@, "CANCELLED") EXCEPT !.attempt = NoWorker]
                  ELSE @]
    /\ UNCHANGED <<holder, topic, mailOn, up, local>>

(* A correction takes the notice away from its reader; trigger              *)
(* cancel_corrected_notification_mail stops the copy not yet attempted.     *)
CorrectOwnership(r) ==
    /\ holder[r] = "reader"
    /\ holder' = [holder EXCEPT ![r] = "withheld"]
    /\ Update({x \in Pending({r}) : ~row[x].started},
              LAMBDA x : Settled(x, "CANCELLED"))
    /\ UNCHANGED <<stopped, topic, mailOn, up, local>>

(* The account is suspended, or reinstated; the outbox is not touched.      *)
Suspend(r) ==
    /\ holder[r] # "retired"
    /\ holder' = [holder EXCEPT ![r] = IF @ = "reader" THEN "withheld" ELSE "reader"]
    /\ UNCHANGED <<row, stopped, topic, mailOn, up, local>>

(* combineGroupMembers retires the account: queued copies are cancelled,    *)
(* their leases stay.                                                        *)
RetireAccount(r) ==
    /\ holder[r] # "retired"
    /\ holder' = [holder EXCEPT ![r] = "retired"]
    /\ Update(Pending({r}), LAMBDA x : [x EXCEPT !.status = "CANCELLED"])
    /\ UNCHANGED <<stopped, topic, mailOn, up, local>>

Environment ==
    \/ /\ "preferences" \in Writers
       /\ \E r \in Optional : OptOut(r) \/ OptIn(r)
    \/ /\ "settings" \in Writers
       /\ DisableMail \/ EnableMail
    \/ /\ "transport" \in Writers
       /\ \E c \in Transports : ChangeTransport(c)
    \/ /\ "resend" \in Writers
       /\ ResendStuck
    \/ /\ "recovery" \in Writers
       /\ \E r \in Rows : CancelEffects(r)
    \/ /\ "identity" \in Writers
       /\ \/ \E r \in Optional : CorrectOwnership(r)
          \/ \E r \in Rows : Suspend(r) \/ RetireAccount(r)

Mishap ==
    \/ \E r \in Rows : WorkerOverruns(r)
    \/ \E w \in Workers : ReleaseRest(w) \/ Crash(w)

Time == \E r \in Rows : LeaseRunsOut(r) \/ BackoffEnds(r)

Next == Environment \/ Mishap \/ Time \/ \E w \in Workers : Dispatch(w)

(* The interval timer restarts the dispatcher for ever, the provider and    *)
(* the database answer, and time passes.  Nothing else is promised.         *)
Fairness ==
    /\ \A w \in Workers : WF_vars(Dispatch(w))
    /\ \A r \in Rows : WF_vars(LeaseRunsOut(r)) /\ WF_vars(BackoffEnds(r))

Spec == Init /\ [][Next]_vars
FairSpec == Spec /\ Fairness

------------------------------------------------------------------------------
(* Safety *)

(* Optional mail is handed to SMTP at most once, however workers overlap,    *)
(* stall, die or are retried (deliverNotifications, admitIdentityNotice).    *)
HandedAtMostOnce == \A r \in Optional : handed[r] <= 1

(* A row says SENT only if the provider took the message.                    *)
SentMeansAccepted == \A r \in Rows : row[r].status = "SENT" => r \in accepted

(* While a worker has heard of an acceptance of optional mail and has not    *)
(* recorded it, nobody else can have closed or taken over that attempt: the  *)
(* completion will be able to store SENT.                                    *)
AcceptanceCanBeRecorded ==
    \A w \in Workers : wk[w].pc = "accepted" /\ wk[w].at \in Optional =>
        LET r == row[wk[w].at]
        IN  r.attempt = w /\ r.started /\ r.status \in {"SENDING", "UNCERTAIN"}

(* The row is being admitted for transport.                                  *)
Admits(r) == row[r].status # "SENDING" /\ row'[r].status = "SENDING"

(* No optional message is admitted for transport while program mail is off,  *)
(* after its topic was declined, for an account that may not read it, or     *)
(* once recovery has stopped it - although the dispatcher reads the first    *)
(* two in an earlier transaction than the one that admits.                   *)
AdmittedOnlyIfWelcome ==
    [][\A r \in Optional : Admits(r) =>
          /\ mailOn /\ topic[r] # "off"
          /\ holder[r] = "reader" /\ r \notin stopped]_vars

(* The evidence of an admitted attempt is never erased or overwritten, and   *)
(* the row never becomes fresh work again.                                   *)
AttemptEvidenceKept ==
    [][\A r \in Optional : row[r].started =>
          /\ row'[r].started /\ row'[r].attempt = row[r].attempt
          /\ row'[r].status \notin {"PENDING", "FAILED", "SKIPPED"}
          /\ row[r].status = "SENT" => row'[r].status = "SENT"]_vars

(* A copy made before an opt-out is not sent after a later opt-in.           *)
OptOutDropsOldCopies ==
    [][\A r \in Optional : Admits(r) => topic[r] # "reopened"]_vars

------------------------------------------------------------------------------
(* Refinement *)

FateOf(r) == IF ~row[r].started THEN "open"
             ELSE IF row[r].status = "SENT" THEN "delivered" ELSE "attempted"

Promise == INSTANCE MailPromise WITH
    Messages <- Optional,
    fate <- [r \in Optional |-> FateOf(r)],
    sends <- [r \in Optional |-> handed[r]],
    taken <- accepted \cap Optional

(* Every behaviour of the outbox keeps the promise made for each optional    *)
(* message: recorded before it is sent, sent at most once, never taken back, *)
(* delivered only when the provider took it.                                 *)
KeepsPromise == Promise!Spec

------------------------------------------------------------------------------
(* Liveness *)

(* Once both transports stay configured and administrators stop requeueing,  *)
(* no row waits for ever, whatever else is in its batch: it is delivered,    *)
(* given up, withdrawn or recorded as uncertain.                             *)
EveryRowSettles ==
    <>[](up = Transports) /\ <>[][~ResendStuck]_vars =>
        \A r \in Rows : <>[]~Live(row[r])

=============================================================================
