----------------------------- MODULE DeliveryRow -----------------------------
(***************************************************************************)
(* One row of the EmailDelivery table: the durable outbox record of one    *)
(* message, and the updates the delivery code makes to it.  The modules    *)
(* that model the dispatcher and its writers are built from these.         *)
(*                                                                         *)
(* Two of its columns are tokens that only ever get compared.  "leaseUntil"*)
(* is the instant at which a worker's claim ends; a worker keeps the value *)
(* its own UPDATE returned and compares it later, so the model stores the  *)
(* worker whose claim it is, and "expired" says whether the instant is     *)
(* past.  "attemptId" is a fresh UUID of one transport attempt; the model  *)
(* stores the worker that admitted the attempt.  A worker runs one batch   *)
(* at a time and forgets its captures with it, so neither name is reused   *)
(* while somebody can still compare against it.                            *)
(***************************************************************************)
EXTENDS Naturals

CONSTANTS Workers,      \* concurrent invocations of deliverNotifications
          NoWorker,     \* SQL NULL in leaseUntil or attemptId
          MaxAttempts   \* transport attempts per budget (5 in the code)

ASSUME NoWorkerAssumption == NoWorker \notin Workers
ASSUME MaxAttemptsAssumption == MaxAttempts \in Nat \ {0}

(* What EmailDelivery.status holds in the categories modelled.             *)
Statuses == {"PENDING", "SENDING", "SENT", "FAILED", "UNCERTAIN",
             "SKIPPED", "CANCELLED", "SUPERSEDED", "BLOCKED"}

Token == Workers \cup {NoWorker}

(* "due" is availableAt <= now: FALSE while a back-off is running.          *)
Row == [status : Statuses, attempts : 0 .. MaxAttempts,
        lease : Token, expired : BOOLEAN,
        attempt : Token, started : BOOLEAN, due : BOOLEAN]

(* A row as the enqueue writes it; the column defaults of the schema.       *)
NewRow(status) ==
    [status |-> status, attempts |-> 0, lease |-> NoWorker, expired |-> FALSE,
     attempt |-> NoWorker, started |-> FALSE, due |-> TRUE]

Live(r) == r.status \in {"PENDING", "SENDING"}

(* "leaseUntil" IS NULL OR "leaseUntil" <= NOW()                            *)
Unleased(r) == r.lease = NoWorker \/ r.expired

Leased(r, w) == [r EXCEPT !.lease = w, !.expired = FALSE]

(* The fence of a guarded update: the row still carries the lease and the   *)
(* prior attempt that worker w's own lease UPDATE returned.                 *)
Fenced(r, w, fence) == r.lease = w /\ r.attempt = fence

(* The fence of an admission, which also needs the lease to be running.     *)
Admissible(r, w, fence) == Fenced(r, w, fence) /\ ~r.expired

(* leaseUntil: null together with a new status.                             *)
Settled(r, status) ==
    [r EXCEPT !.status = status, !.lease = NoWorker, !.expired = FALSE]

(* Postponed without using an attempt: transport category unavailable.      *)
Deferred(r) == [Settled(r, r.status) EXCEPT !.due = FALSE]

(* Variant: the admission is remembered by the worker, not committed.       *)
AttemptUncommitted(r, w) == [r EXCEPT !.attempts = @ + (IF r.lease = w THEN 0 ELSE 1)]

(* The admitted row: a fresh attempt, one more of the budget consumed.      *)
AttemptBy(r, w) ==
    [r EXCEPT !.status = "SENDING", !.attempt = w, !.started = TRUE,
              !.attempts = @ + 1]

(* Variant: a failing row is retried without a limit.                       *)
RejectedForever(r, tries) ==
    [Settled(r, "PENDING") EXCEPT !.attempts = tries, !.due = FALSE]

(* A failure after "tries" attempts: give up, or retry after a back-off.    *)
Rejected(r, tries) ==
    [Settled(r, IF tries >= MaxAttempts THEN "FAILED" ELSE "PENDING")
        EXCEPT !.attempts = tries, !.due = FALSE]

(* A deliberate retry: the budget and the fences start again.               *)
Requeued(r) == NewRow("PENDING")

(* Rows a deliberate retry takes: given up, or waiting after a failure.     *)
Stuck(r) == r.status = "FAILED" \/ (r.status = "PENDING" /\ r.attempts > 0)

=============================================================================
