-------------------------- MODULE EmailOutboxProofs --------------------------
(***************************************************************************)
(* Proofs about EmailOutbox for any number of rows and dispatchers, any    *)
(* attempt budget and any number of faults.                                *)
(***************************************************************************)
EXTENDS EmailOutbox, DeliveryRowProofs, TLAPS

(***************************************************************************)
(* The inductive invariant.  What makes it inductive beyond the safety      *)
(* properties: an optional row carries an attempt exactly from its one      *)
(* admission on, a capture of an optional row was taken before it, and a    *)
(* dispatcher in transport is the one the attempt names.                    *)
(***************************************************************************)
Closed == {"SENDING", "SENT", "UNCERTAIN", "CANCELLED"}
InHand == {"decide", "send", "accepted", "rejected"}
InTransport == {"send", "accepted", "rejected"}

RowInv(r, x) ==
    /\ x \in Row
    /\ x.status = "PENDING" => x.attempts < MaxAttempts
    /\ x.status = "SENT" => r \in accepted
    /\ r \in Security => x.status # "SENDING"
    /\ r \in Optional => /\ x.started => x.status \in Closed /\ x.attempt # NoWorker
                         /\ ~x.started => /\ x.status \notin {"SENDING", "UNCERTAIN", "SENT"}
                                           /\ x.attempt = NoWorker

Fresh(c) == c.id \in Optional => c.fence = NoWorker

WorkerInv(w) ==
    /\ \A c \in wk[w].batch : Fresh(c)
    /\ wk[w].pc \in InHand =>
          /\ \E c \in wk[w].batch : c.id = wk[w].at
          /\ wk[w].tries < MaxAttempts \/ (wk[w].at \in Optional /\ row[wk[w].at].started)
    /\ wk[w].pc = "accepted" => wk[w].at \in accepted
    /\ wk[w].pc \in InTransport /\ wk[w].at \in Optional =>
          /\ row[wk[w].at].started /\ row[wk[w].at].attempt = w
          /\ row[wk[w].at].status \in {"SENDING", "UNCERTAIN"}
          /\ wk[w].pc = "send" => handed[wk[w].at] = 0

HandedInv(r) == r \in Optional => /\ handed[r] <= 1
                                  /\ ~row[r].started => handed[r] = 0

IInv ==
    /\ TypeOK
    /\ \A r \in Rows : RowInv(r, row[r]) /\ HandedInv(r)
    /\ \A w \in Workers : WorkerInv(w)

------------------------------------------------------------------------------
(* The retry guard returns a row, and whatever it rewrites it never invents *)
(* evidence of an attempt or of an acceptance.                              *)
LEMMA RetryGuardKeeps ==
    ASSUME NEW b \in BOOLEAN, NEW old \in Row, NEW new \in Row
    PROVE  /\ RetryGuard(b, old, new) \in Row
           /\ \/ RetryGuard(b, old, new) = old
              \/ /\ RetryGuard(b, old, new).started = new.started
                 /\ RetryGuard(b, old, new).attempt = new.attempt
           /\ RetryGuard(b, old, new).status = "SENT" =>
                  old.status = "SENT" \/ new.status = "SENT"
<1>1. CASE RetryGuard(b, old, new) \in {old, new}
  BY <1>1
<1>2. CASE /\ new.status \in {"PENDING", "SENDING"}
           /\ RetryGuard(b, old, new) =
                 Settled(new, IF old.status = "SENT" THEN "SENT" ELSE "CANCELLED")
  <2>1. (IF old.status = "SENT" THEN "SENT" ELSE "CANCELLED") \in Statuses
    BY DEF Statuses
  <2>2. QED
    BY <1>2, <2>1, SettledType
<1>3. QED
  BY <1>1, <1>2 DEF RetryGuard

------------------------------------------------------------------------------
(* Everything but the row's own columns is typed.                           *)
RestTyped ==
    /\ stopped \subseteq Rows
    /\ holder \in [Rows -> Holders]
    /\ topic \in [Optional -> Topics]
    /\ mailOn \in BOOLEAN
    /\ up \subseteq Transports
    /\ wk \in [Workers -> Worker]
    /\ handed \in [Rows -> 0 .. 2]
    /\ accepted \subseteq Rows
    /\ faults \in 0 .. MaxFaults

(* A change of row r to x that neither opens nor closes a transport attempt.*)
Quiet(r, x) ==
    /\ RowInv(r, x)
    /\ r \in Optional =>
          /\ x.started = row[r].started
          /\ x.attempt = row[r].attempt
          /\ row[r].status \in {"SENDING", "UNCERTAIN"} =>
                x.status \in {"SENDING", "UNCERTAIN"}
          /\ x.status = "SENT" <=> row[r].status = "SENT"

(* The evidence of an attempt survives the step.                             *)
Kept ==
    \A r \in Optional : row[r].started =>
        /\ row'[r].started /\ row'[r].attempt = row[r].attempt
        /\ row[r].status = "SENT" => row'[r].status = "SENT"

(* The step is a step of the abstract promise, or invisible to it.           *)
Promised == [Promise!Next]_(Promise!promise)

LEMMA SameFate ==
    ASSUME \A r \in Optional : /\ FateOf(r)' = FateOf(r)
                               /\ handed'[r] = handed[r],
           (accepted \cap Optional)' = accepted \cap Optional
    PROVE  Promised
<1>1. UNCHANGED <<[r \in Optional |-> FateOf(r)], [r \in Optional |-> handed[r]],
                  accepted \cap Optional>>
  OBVIOUS
<1>2. QED
  BY <1>1 DEF Promised, Promise!promise

(* A dispatcher state that claims nothing about transport.                  *)
Harmless(n) ==
    /\ \A c \in n.batch : Fresh(c)
    /\ n.pc \notin InTransport
    /\ n.pc = "decide" =>
          /\ \E c \in n.batch : c.id = n.at
          /\ n.tries < MaxAttempts \/ (n.at \in Optional /\ row[n.at].started)

(* Leaving a row alone is quiet.                                            *)
LEMMA SameRowQuiet ==
    ASSUME IInv, NEW r \in Rows
    PROVE  Quiet(r, row[r])
  BY DEF IInv, Quiet

(* Writing x quietly stays quiet when the retry guard rewrites the update.  *)
LEMMA GuardedQuiet ==
    ASSUME IInv, NEW r \in Rows, NEW x, Quiet(r, x),
           x.status = "SENDING" => r \notin stopped
    PROVE  Quiet(r, RetryGuard(r \in stopped, row[r], x))
<1> DEFINE g == RetryGuard(r \in stopped, row[r], x)
<1>1. row[r] \in Row /\ x \in Row /\ RowInv(r, row[r])
  BY DEF IInv, RowInv, Quiet
<1>2. CASE g \in {row[r], x}
  BY <1>2, SameRowQuiet
<1>3. CASE /\ x.status = "PENDING"
           /\ g = Settled(x, IF row[r].status = "SENT" THEN "SENT" ELSE "CANCELLED")
  <2> DEFINE t == IF row[r].status = "SENT" THEN "SENT" ELSE "CANCELLED"
  <2>1. t \in Statuses
    BY DEF Statuses
  <2>2. g \in Row /\ g.status = t /\ g.started = x.started /\ g.attempt = x.attempt
    BY <1>1, <1>3, <2>1, SettledType
  <2>3. g.status \in {"SENT", "CANCELLED"}
    BY <2>2
  <2>4. g.status = "SENT" => r \in accepted
    BY <1>1, <2>2 DEF RowInv
  <2>5. RowInv(r, g)
    BY <2>2, <2>3, <2>4, <1>3 DEF RowInv, Quiet, Closed
  <2>6. QED
    BY <2>2, <2>5, <1>3 DEF Quiet
<1>4. g \in {row[r], x} \/ (x.status = "PENDING"
         /\ g = Settled(x, IF row[r].status = "SENT" THEN "SENT" ELSE "CANCELLED"))
  BY DEF RetryGuard
<1>5. QED
  BY <1>2, <1>3, <1>4

(* A step that changes rows only quietly, and dispatchers only to states    *)
(* that claim nothing, preserves the invariant.                             *)
LEMMA QuietStep ==
    ASSUME IInv, RestTyped',
           row' = [r \in Rows |-> row'[r]],
           \A r \in Rows : Quiet(r, row'[r]),
           \A v \in Workers : wk'[v] = wk[v] \/ Harmless(wk'[v]),
           UNCHANGED <<handed, accepted>>
    PROVE  IInv' /\ Kept /\ Promised
<1>1. \A r \in Rows : row'[r] \in Row
  BY DEF Quiet, RowInv
<1>2. TypeOK'
  BY <1>1 DEF TypeOK, RestTyped
<1>3. ASSUME NEW r \in Rows
      PROVE  RowInv(r, row[r])' /\ HandedInv(r)'
  BY <1>3 DEF Quiet, RowInv, HandedInv, IInv
<1>4. ASSUME NEW v \in Workers
      PROVE  WorkerInv(v)'
  <2>1. \A r \in Rows \cap Optional : row'[r].started = row[r].started
    BY DEF Quiet
  <2>2. CASE wk'[v] = wk[v]
    <3>1. wk[v].at \in Optional =>
             /\ row'[wk[v].at].started = row[wk[v].at].started
             /\ row'[wk[v].at].attempt = row[wk[v].at].attempt
             /\ row[wk[v].at].status \in {"SENDING", "UNCERTAIN"} =>
                   row'[wk[v].at].status \in {"SENDING", "UNCERTAIN"}
      BY DEF Quiet, Rows
    <3>2. QED
      BY <2>2, <3>1 DEF IInv, WorkerInv, Fresh
  <2>3. CASE Harmless(wk'[v])
    <3>1. wk'[v].at \in Optional => row'[wk'[v].at].started = row[wk'[v].at].started
      BY DEF Quiet, Rows
    <3>2. wk'[v].pc \in InHand => wk'[v].pc = "decide"
      BY <2>3 DEF Harmless, InHand, InTransport
    <3>3. wk'[v].pc # "accepted"
      BY <2>3 DEF Harmless, InTransport
    <3>4. QED
      BY <2>3, <3>1, <3>2, <3>3 DEF WorkerInv, Harmless, Fresh
  <2>4. QED
    BY <2>2, <2>3
<1>5. Kept
  BY DEF Quiet, Kept, Rows
<1>6. Promised
  <2>1. ASSUME NEW r \in Optional
        PROVE  FateOf(r)' = FateOf(r)
    BY DEF Quiet, FateOf, Rows
  <2>2. QED
    BY <2>1, SameFate
<1>7. QED
  BY <1>2, <1>3, <1>4, <1>5, <1>6 DEF IInv

(* Proceed and Idle only ever lead to harmless dispatcher states.           *)
LEMMA IdleHarmless == Harmless(Idle) /\ Idle \in Worker
  BY MaxAttemptsAssumption DEF Harmless, Idle, InTransport, Worker

LEMMA ProceedHarmless ==
    ASSUME IInv, NEW w \in Workers, NEW batch \in SUBSET wk[w].batch,
           Proceed(w, batch)
    PROVE  /\ wk' \in [Workers -> Worker]
           /\ \A v \in Workers : wk'[v] = wk[v] \/ Harmless(wk'[v])
<1> DEFINE n == IF batch = {} THEN Idle
                ELSE [Idle EXCEPT !.pc = "loop", !.batch = batch]
<1>1. wk \in [Workers -> Worker] /\ wk' = [wk EXCEPT ![w] = n]
  BY DEF IInv, TypeOK, Proceed, Goto
<1>2. batch \subseteq Capture /\ \A c \in batch : Fresh(c)
  BY <1>1 DEF IInv, WorkerInv, Worker
<1>3. n \in Worker /\ Harmless(n)
  BY <1>2, IdleHarmless DEF Idle, Worker, Harmless, InTransport
<1>4. QED
  BY <1>1, <1>3

LEMMA GotoHarmless ==
    ASSUME IInv, NEW w \in Workers, NEW n \in Worker, Harmless(n), Goto(w, n)
    PROVE  /\ wk' \in [Workers -> Worker]
           /\ \A v \in Workers : wk'[v] = wk[v] \/ Harmless(wk'[v])
  BY DEF IInv, TypeOK, Goto

(* What a dispatcher has in hand is a row it captured, and when it is an     *)
(* optional one still fenced, no attempt has been admitted for it.           *)
LEMMA InHandFacts ==
    ASSUME IInv, NEW w \in Workers, wk[w].pc \in InHand
    PROVE  /\ wk[w].at \in Rows
           /\ wk[w].at \in Optional /\ Holds(w) => ~row[wk[w].at].started
           /\ Rest(w) \in SUBSET wk[w].batch
<1>1. wk[w] \in Worker
  BY DEF IInv, TypeOK
<1>2. PICK c \in wk[w].batch : c.id = wk[w].at
  BY DEF IInv, WorkerInv
<1>3. c \in Capture
  BY <1>1, <1>2 DEF Worker
<1>4. wk[w].at \in Rows
  BY <1>2, <1>3 DEF Capture
<1>5. wk[w].at \in Optional => FenceOf(w) = NoWorker
  BY <1>2 DEF FenceOf, IInv, WorkerInv, Fresh
<1>6. wk[w].at \in Optional /\ Holds(w) => ~row[wk[w].at].started
  BY <1>4, <1>5 DEF Holds, Fenced, IInv, RowInv
<1>7. QED
  BY <1>4, <1>6 DEF Rest

(* Closing a row that is queued, or whose attempt is not being made.        *)
LEMMA QuietSettled ==
    ASSUME IInv, NEW r \in Rows, NEW s \in {"SKIPPED", "FAILED", "CANCELLED"},
           r \in Optional => ~row[r].started
    PROVE  Quiet(r, Settled(row[r], s))
<1>1. row[r] \in Row /\ RowInv(r, row[r]) /\ s \in Statuses
  BY DEF IInv, TypeOK, Statuses
<1>2. /\ Settled(row[r], s) \in Row /\ Settled(row[r], s).status = s
      /\ Settled(row[r], s).started = row[r].started
      /\ Settled(row[r], s).attempt = row[r].attempt
  BY <1>1, SettledType
<1>3. QED
  BY <1>1, <1>2 DEF Quiet, RowInv

(* The same for the updates that leave the lease in place.                   *)
LEMMA QuietClosed ==
    ASSUME IInv, NEW r \in Rows, NEW s \in {"SKIPPED", "CANCELLED"},
           r \in Optional => ~row[r].started
    PROVE  Quiet(r, [row[r] EXCEPT !.status = s])
<1>1. row[r] \in Row /\ RowInv(r, row[r]) /\ s \in Statuses
  BY DEF IInv, TypeOK, Statuses
<1>2. [row[r] EXCEPT !.status = s] \in Row
  BY <1>1 DEF Row
<1>3. /\ [row[r] EXCEPT !.status = s].status = s
      /\ [row[r] EXCEPT !.status = s].started = row[r].started
      /\ [row[r] EXCEPT !.status = s].attempt = row[r].attempt
  BY <1>1 DEF Row
<1>4. QED
  BY <1>1, <1>2, <1>3 DEF Quiet, RowInv

(* Queued optional rows have had no attempt.                                 *)
LEMMA PendingUnstarted ==
    ASSUME IInv, NEW r \in Rows, row[r].status = "PENDING", r \in Optional
    PROVE  ~row[r].started
  BY DEF IInv, RowInv, Closed

(* An update of some rows, each quietly, is quiet on every row.              *)
LEMMA QuietRows ==
    ASSUME IInv, NEW ids, NEW f,
           \A r \in ids \cap Rows :
              Quiet(r, f[r]) /\ (f[r].status = "SENDING" => r \notin stopped),
           row' = [r \in Rows |-> IF r \in ids
                                  THEN RetryGuard(r \in stopped, row[r], f[r])
                                  ELSE row[r]]
    PROVE  /\ row' = [r \in Rows |-> row'[r]]
           /\ \A r \in Rows : Quiet(r, row'[r])
<1>1. row' = [r \in Rows |-> row'[r]]
  OBVIOUS
<1>2. ASSUME NEW r \in Rows
      PROVE  Quiet(r, row'[r])
  <2>1. CASE r \in ids
    <3>1. row'[r] = RetryGuard(r \in stopped, row[r], f[r])
      BY <2>1
    <3>2. Quiet(r, RetryGuard(r \in stopped, row[r], f[r]))
      <4>1. Quiet(r, f[r]) /\ (f[r].status = "SENDING" => r \notin stopped)
        BY <2>1
      <4>2. QED
        BY <4>1, GuardedQuiet
    <3>3. QED
      BY <3>1, <3>2
  <2>2. CASE r \notin ids
    BY <2>2, SameRowQuiet
  <2>3. QED
    BY <2>1, <2>2
<1>3. QED
  BY <1>1, <1>2

------------------------------------------------------------------------------
(* The actions that leave the outbox alone.                                 *)
LEMMA UntouchedRows ==
    ASSUME IInv, RestTyped',
           \A v \in Workers : wk'[v] = wk[v] \/ Harmless(wk'[v]),
           UNCHANGED <<row, handed, accepted>>
    PROVE  IInv' /\ Kept /\ Promised
<1>1. row = [x \in Rows |-> row[x]]
  BY DEF IInv, TypeOK
<1>2. QED
  BY <1>1, SameRowQuiet, QuietStep

LEMMA ReadingRowKeeps ==
    ASSUME IInv, NEW w \in Workers, NEW c \in Capture, NEW other \in BOOLEAN,
           PassRow(w, c) \/ ReadRow(w, c, other)
    PROVE  IInv' /\ Kept /\ Promised
<1>0. TypeOK /\ RestTyped /\ wk[w] \in Worker
  BY DEF IInv, TypeOK, RestTyped
<1>1. CASE PassRow(w, c)
  <2>1. wk[w].batch \ {c} \in SUBSET wk[w].batch
    OBVIOUS
  <2>2. QED
    BY <1>0, <1>1, <2>1, ProceedHarmless, UntouchedRows DEF PassRow, env, RestTyped
<1>2. CASE ReadRow(w, c, other)
  <2> DEFINE n == [wk[w] EXCEPT !.pc = "decide", !.at = c.id,
                               !.ok = Eligible(c.id, other),
                               !.tries = row[c.id].attempts]
  <2>1. c.id \in Rows /\ row[c.id] \in Row /\ RowInv(c.id, row[c.id])
    BY <1>0 DEF Capture, TypeOK, IInv
  <2>2. Eligible(c.id, other) \in BOOLEAN
    BY DEF Eligible
  <2>3. n \in Worker
    BY <1>0, <2>1, <2>2 DEF Worker, Row
  <2>4. n.tries < MaxAttempts \/ (c.id \in Optional /\ row[c.id].started)
    BY <1>0, <1>2, <2>1 DEF Worker, ReadRow, Live, RowInv, Rows
  <2>5. Harmless(n)
    BY <1>0, <1>2, <2>4 DEF Worker, ReadRow, Harmless, InTransport, IInv, WorkerInv
  <2>6. QED
    BY <1>0, <1>2, <2>3, <2>5, GotoHarmless, UntouchedRows DEF ReadRow, env, RestTyped
<1>3. QED
  BY <1>1, <1>2

LEMMA ReadingKeeps ==
    ASSUME IInv, NEW w \in Workers,
           ReadSettings(w) \/ FinishOptionalFails(w)
    PROVE  IInv' /\ Kept /\ Promised
<1>0. TypeOK /\ RestTyped
  BY DEF IInv, TypeOK, RestTyped
<1> DEFINE n == [Idle EXCEPT !.pc = IF mailOn THEN "lease" ELSE "skip"]
<1>1. n \in Worker /\ Harmless(n)
  BY IdleHarmless DEF Idle, Worker, Harmless, InTransport
<1>2. QED
  BY <1>0, <1>1, IdleHarmless, GotoHarmless, UntouchedRows
     DEF ReadSettings, FinishOptionalFails, env, RestTyped

LEMMA CrashingKeeps ==
    ASSUME IInv, NEW w \in Workers, Crash(w)
    PROVE  IInv' /\ Kept /\ Promised
<1>0. TypeOK /\ RestTyped
  BY DEF IInv, TypeOK, RestTyped
<1>1. faults' \in 0 .. MaxFaults
  BY <1>0, MaxFaultsAssumption DEF Crash, RestTyped
<1>2. QED
  BY <1>0, <1>1, IdleHarmless, GotoHarmless, UntouchedRows
     DEF Crash, env, RestTyped

(* Reinstating, reconfiguring and opting in touch no row.                    *)
LEMMA RegardlessKeeps ==
    ASSUME IInv,
           \/ \E r \in Optional : OptIn(r)
           \/ \E r \in Rows : Suspend(r)
           \/ \E c \in Transports : ChangeTransport(c)
           \/ EnableMail
    PROVE  IInv' /\ Kept /\ Promised
<1>1. RestTyped
  BY DEF IInv, TypeOK, RestTyped
<1>2. RestTyped' /\ UNCHANGED <<row, wk, handed, accepted>>
  BY <1>1 DEF OptIn, Suspend, ChangeTransport, EnableMail, local, RestTyped,
              Topics, Holders
<1>3. QED
  BY <1>2, UntouchedRows

------------------------------------------------------------------------------
(* An UPDATE of some rows, each quietly, by a step that leaves the            *)
(* dispatchers harmless.                                                     *)
LEMMA QuietUpdate ==
    ASSUME IInv, RestTyped', NEW ids, NEW f,
           \A r \in ids \cap Rows :
              Quiet(r, f[r]) /\ (f[r].status = "SENDING" => r \notin stopped),
           row' = [r \in Rows |-> IF r \in ids
                                  THEN RetryGuard(r \in stopped, row[r], f[r])
                                  ELSE row[r]],
           \A v \in Workers : wk'[v] = wk[v] \/ Harmless(wk'[v]),
           UNCHANGED <<handed, accepted>>
    PROVE  IInv' /\ Kept /\ Promised
<1>1. /\ row' = [r \in Rows |-> row'[r]]
      /\ \A r \in Rows : Quiet(r, row'[r])
  BY QuietRows
<1>2. QED
  BY <1>1, QuietStep

(* The dispatcher's own updates, except for the two that open and close a   *)
(* transport attempt.                                                       *)
LEMMA SweepKeeps ==
    ASSUME IInv, NEW w \in Workers, Sweep(w) \/ SkipBacklog(w)
    PROVE  IInv' /\ Kept /\ Promised
<1>0. TypeOK /\ RestTyped /\ wk[w] \in Worker
  BY DEF IInv, TypeOK, RestTyped
<1>1. CASE Sweep(w)
  <2> DEFINE ids == {r \in Optional : Abandoned(r)}
             f == [x \in Rows |-> Settled(row[x], "UNCERTAIN")]
             n == [Idle EXCEPT !.pc = "settings"]
  <2>1. ASSUME NEW r \in ids \cap Rows
        PROVE  Quiet(r, f[r]) /\ f[r].status # "SENDING"
    <3>1. /\ row[r] \in Row /\ RowInv(r, row[r]) /\ row[r].started
          /\ row[r].status # "SENT"
      BY DEF IInv, TypeOK, Abandoned
    <3>2. /\ f[r] \in Row /\ f[r].status = "UNCERTAIN"
          /\ f[r].started = row[r].started /\ f[r].attempt = row[r].attempt
      BY <3>1, SettledType DEF Statuses
    <3>3. QED
      BY <3>1, <3>2, RowsAssumption DEF Quiet, RowInv, Closed
  <2>2. row' = [r \in Rows |-> IF r \in ids
                               THEN RetryGuard(r \in stopped, row[r], f[r])
                               ELSE row[r]]
    BY <1>1 DEF Sweep, Update
  <2>3. n \in Worker /\ Harmless(n)
    BY IdleHarmless DEF Idle, Worker, Harmless, InTransport
  <2>4. Goto(w, n) /\ UNCHANGED <<env, handed, accepted, faults>>
    BY <1>1 DEF Sweep
  <2>5. /\ RestTyped' /\ UNCHANGED <<handed, accepted>>
        /\ \A v \in Workers : wk'[v] = wk[v] \/ Harmless(wk'[v])
    BY <1>0, <2>3, <2>4, GotoHarmless DEF env, RestTyped
  <2>6. QED
    <3> HIDE DEF f, ids, n
    <3>1. QED
      BY <2>1, <2>2, <2>5, QuietUpdate
<1>2. CASE SkipBacklog(w)
  <2> DEFINE ids == Pending(Optional)
             f == [x \in Rows |-> [row[x] EXCEPT !.status = "SKIPPED"]]
             n == [Idle EXCEPT !.pc = "lease"]
  <2>1. ASSUME NEW r \in ids \cap Rows
        PROVE  Quiet(r, f[r]) /\ f[r].status # "SENDING"
    <3>1. r \in Rows /\ row[r] \in Row /\ ~row[r].started
      BY <1>0, PendingUnstarted DEF Pending, TypeOK
    <3>2. Quiet(r, [row[r] EXCEPT !.status = "SKIPPED"])
      BY <3>1, QuietClosed
    <3>3. QED
      BY <3>1, <3>2 DEF Row
  <2>2. row' = [r \in Rows |-> IF r \in ids
                               THEN RetryGuard(r \in stopped, row[r], f[r])
                               ELSE row[r]]
    BY <1>2 DEF SkipBacklog, Update
  <2>3. n \in Worker /\ Harmless(n)
    BY IdleHarmless DEF Idle, Worker, Harmless, InTransport
  <2>4. Goto(w, n) /\ UNCHANGED <<env, handed, accepted, faults>>
    BY <1>2 DEF SkipBacklog
  <2>5. /\ RestTyped' /\ UNCHANGED <<handed, accepted>>
        /\ \A v \in Workers : wk'[v] = wk[v] \/ Harmless(wk'[v])
    BY <1>0, <2>3, <2>4, GotoHarmless DEF env, RestTyped
  <2>6. QED
    <3> HIDE DEF f, ids, n
    <3>1. QED
      BY <2>1, <2>2, <2>5, QuietUpdate
<1>3. QED
  BY <1>1, <1>2

(* Taking a lease or giving it back does not touch the evidence.             *)
LEMMA LeaseQuiet ==
    ASSUME IInv, NEW r \in Rows, NEW w \in Workers
    PROVE  /\ Quiet(r, Leased(row[r], w))
           /\ Leased(row[r], w).status = row[r].status
           /\ Quiet(r, Settled(row[r], row[r].status))
           /\ Settled(row[r], row[r].status).status = row[r].status
           /\ Quiet(r, Deferred(row[r]))
           /\ Deferred(row[r]).status = row[r].status
<1>1. row[r] \in Row /\ RowInv(r, row[r]) /\ row[r].status \in Statuses
  BY DEF IInv, TypeOK, Row
<1>2. /\ Leased(row[r], w) \in Row
      /\ Leased(row[r], w).status = row[r].status
      /\ Leased(row[r], w).attempts = row[r].attempts
      /\ Leased(row[r], w).started = row[r].started
      /\ Leased(row[r], w).attempt = row[r].attempt
  BY <1>1, RowUpdates DEF Leased, Row
<1>3. /\ Settled(row[r], row[r].status) \in Row
      /\ Settled(row[r], row[r].status).status = row[r].status
      /\ Settled(row[r], row[r].status).attempts = row[r].attempts
      /\ Settled(row[r], row[r].status).started = row[r].started
      /\ Settled(row[r], row[r].status).attempt = row[r].attempt
  BY <1>1, SettledType
<1>4. /\ Deferred(row[r]) \in Row
      /\ Deferred(row[r]).status = row[r].status
      /\ Deferred(row[r]).attempts = row[r].attempts
      /\ Deferred(row[r]).started = row[r].started
      /\ Deferred(row[r]).attempt = row[r].attempt
  BY <1>1, <1>3 DEF Deferred, Row
<1>5. \A x : /\ x \in Row /\ x.status = row[r].status /\ x.attempts = row[r].attempts
             /\ x.started = row[r].started /\ x.attempt = row[r].attempt
             => Quiet(r, x)
  BY <1>1 DEF Quiet, RowInv
<1>6. QED
  BY <1>2, <1>3, <1>4, <1>5

(* A row whose status is SENDING and that is fenced by a capture belongs to *)
(* no category: an optional one would carry an attempt.                      *)
LEMMA FencedNotSending ==
    ASSUME IInv, NEW w \in Workers, NEW c \in wk[w].batch,
           Fenced(row[c.id], w, c.fence)
    PROVE  /\ c.id \in Rows
           /\ row[c.id].status # "SENDING"
           /\ c.id \in Optional => ~row[c.id].started
<1>1. c \in Capture /\ Fresh(c)
  BY DEF IInv, TypeOK, Worker, WorkerInv
<1>2. c.id \in Rows
  BY <1>1 DEF Capture
<1>3. QED
  BY <1>1, <1>2 DEF IInv, RowInv, Fresh, Fenced, Rows

LEMMA LeasingKeeps ==
    ASSUME IInv, NEW w \in Workers, LeaseBatch(w)
    PROVE  IInv' /\ Kept /\ Promised
<1> DEFINE ids == IF up = {} THEN {} ELSE Leasable
           f == [x \in Rows |-> Leased(row[x], w)]
           batch == {[id |-> r, fence |-> row[r].attempt] : r \in ids}
           n == IF batch = {} THEN Idle
                ELSE [Idle EXCEPT !.pc = "loop", !.batch = batch]
<1>0. TypeOK /\ RestTyped /\ wk[w] \in Worker
  BY DEF IInv, TypeOK, RestTyped
<1>1. ASSUME NEW r \in ids \cap Rows
      PROVE  Quiet(r, f[r]) /\ f[r].status # "SENDING"
  <2>1. r \in Rows /\ row[r].status = "PENDING"
    BY DEF Leasable, Pending
  <2>2. QED
    BY <2>1, LeaseQuiet
<1>2. row' = [r \in Rows |-> IF r \in ids
                             THEN RetryGuard(r \in stopped, row[r], f[r])
                             ELSE row[r]]
  BY DEF LeaseBatch, Update
<1>3. batch \subseteq Capture /\ \A c \in batch : Fresh(c)
  <2>1. ASSUME NEW r \in ids
        PROVE  /\ r \in Rows /\ row[r].attempt \in Token
               /\ r \in Optional => row[r].attempt = NoWorker
    <3>1. r \in Rows /\ row[r].status = "PENDING"
      BY DEF Leasable, Pending
    <3>2. QED
      BY <1>0, <3>1, PendingUnstarted DEF IInv, RowInv, TypeOK, Row
  <2>2. QED
    BY <2>1 DEF Capture, Fresh
<1>4. n \in Worker /\ Harmless(n)
  <2>1. CASE batch = {}
    BY <2>1, IdleHarmless
  <2>2. CASE batch # {}
    <3> HIDE DEF batch, ids
    <3>1. QED
      BY <1>3, <2>2, IdleHarmless DEF Idle, Worker, Harmless, InTransport
  <2>3. QED
    BY <2>1, <2>2
<1>5. Goto(w, n) /\ UNCHANGED <<env, handed, accepted, faults>>
  BY DEF LeaseBatch, Proceed
<1>6. /\ RestTyped' /\ UNCHANGED <<handed, accepted>>
      /\ \A v \in Workers : wk'[v] = wk[v] \/ Harmless(wk'[v])
  <2> HIDE DEF n
  <2>1. QED
    BY <1>0, <1>4, <1>5, GotoHarmless DEF env, RestTyped
<1>7. QED
  <2> HIDE DEF f, ids, batch, n
  <2>1. QED
    BY <1>1, <1>2, <1>6, QuietUpdate

LEMMA ReleasingKeeps ==
    ASSUME IInv, NEW w \in Workers, ReleaseRest(w)
    PROVE  IInv' /\ Kept /\ Promised
<1> DEFINE ids == {c.id : c \in {d \in wk[w].batch : /\ Live(row[d.id])
                                                     /\ Fenced(row[d.id], w, d.fence)}}
           f == [x \in Rows |-> Settled(row[x], row[x].status)]
<1>0. TypeOK /\ RestTyped /\ wk[w] \in Worker
  BY DEF IInv, TypeOK, RestTyped
<1>1. ASSUME NEW r \in ids \cap Rows
      PROVE  Quiet(r, f[r]) /\ f[r].status # "SENDING"
  <2>1. r \in Rows /\ row[r].status # "SENDING"
    BY FencedNotSending
  <2>2. QED
    BY <2>1, LeaseQuiet
<1>2. row' = [r \in Rows |-> IF r \in ids
                             THEN RetryGuard(r \in stopped, row[r], f[r])
                             ELSE row[r]]
  BY DEF ReleaseRest, Update
<1>3. faults' \in 0 .. MaxFaults
  BY <1>0, MaxFaultsAssumption DEF ReleaseRest, RestTyped
<1>4. Goto(w, Idle) /\ UNCHANGED <<env, handed, accepted>>
  BY DEF ReleaseRest
<1>5. /\ RestTyped' /\ UNCHANGED <<handed, accepted>>
      /\ \A v \in Workers : wk'[v] = wk[v] \/ Harmless(wk'[v])
  BY <1>0, <1>3, <1>4, IdleHarmless, GotoHarmless DEF env, RestTyped
<1>6. QED
  <2> HIDE DEF f, ids
  <2>1. QED
    BY <1>1, <1>2, <1>5, QuietUpdate

(* The updates of one captured row.                                          *)
LEMMA DeferringKeeps ==
    ASSUME IInv, NEW w \in Workers, NEW c \in wk[w].batch, DeferRow(w, c)
    PROVE  IInv' /\ Kept /\ Promised
<1> DEFINE ids == {r \in {c.id} : Fenced(row[r], w, c.fence)}
           f == [x \in Rows |-> Deferred(row[x])]
<1>0. TypeOK /\ RestTyped /\ wk[w] \in Worker
  BY DEF IInv, TypeOK, RestTyped
<1>1. ASSUME NEW r \in ids \cap Rows
      PROVE  Quiet(r, f[r]) /\ f[r].status # "SENDING"
  BY FencedNotSending, LeaseQuiet
<1>2. row' = [r \in Rows |-> IF r \in ids
                             THEN RetryGuard(r \in stopped, row[r], f[r])
                             ELSE row[r]]
  BY DEF DeferRow, Update
<1>3. /\ Proceed(w, wk[w].batch \ {c}) /\ wk[w].batch \ {c} \in SUBSET wk[w].batch
      /\ UNCHANGED <<env, handed, accepted, faults>>
  BY DEF DeferRow
<1>4. /\ RestTyped' /\ UNCHANGED <<handed, accepted>>
      /\ \A v \in Workers : wk'[v] = wk[v] \/ Harmless(wk'[v])
  BY <1>0, <1>3, ProceedHarmless DEF env, RestTyped
<1>5. QED
  <2> HIDE DEF f, ids
  <2>1. QED
    BY <1>1, <1>2, <1>4, QuietUpdate

(* The common form of SkipRow, CatchFailure and FinishSecurity: one row in   *)
(* hand, if the worker still holds it, changes quietly to x.                  *)
LEMMA ClosingKeeps ==
    ASSUME IInv, NEW w \in Workers, wk[w].pc \in InHand, NEW ids, NEW x,
           ids \subseteq {wk[w].at},
           ids # {} => Quiet(wk[w].at, x) /\ x.status # "SENDING",
           row' = [r \in Rows |-> IF r \in ids
                                  THEN RetryGuard(r \in stopped, row[r], x)
                                  ELSE row[r]],
           Proceed(w, Rest(w)),
           UNCHANGED <<env, handed, accepted, faults>>
    PROVE  IInv' /\ Kept /\ Promised
<1> DEFINE f == [r \in Rows |-> x]
<1>0. RestTyped
  BY DEF IInv, TypeOK, RestTyped
<1>1. Rest(w) \in SUBSET wk[w].batch /\ wk[w].at \in Rows
  BY InHandFacts
<1>2. \A r \in ids \cap Rows : Quiet(r, f[r]) /\ f[r].status # "SENDING"
  OBVIOUS
<1>3. row' = [r \in Rows |-> IF r \in ids
                             THEN RetryGuard(r \in stopped, row[r], f[r])
                             ELSE row[r]]
  BY <1>1
<1>4. /\ RestTyped' /\ UNCHANGED <<handed, accepted>>
      /\ \A v \in Workers : wk'[v] = wk[v] \/ Harmless(wk'[v])
  BY <1>0, <1>1, ProceedHarmless DEF env, RestTyped
<1>5. /\ row' = [r \in Rows |-> row'[r]]
      /\ \A r \in Rows : Quiet(r, row'[r])
  <2> HIDE DEF f
  <2>1. QED
    BY <1>2, <1>3, QuietRows
<1>6. QED
  BY <1>4, <1>5, QuietStep

LEMMA SkippingKeeps ==
    ASSUME IInv, NEW w \in Workers, SkipRow(w)
    PROVE  IInv' /\ Kept /\ Promised
<1> DEFINE ids == {r \in {wk[w].at} : Holds(w) /\ Live(row[r])}
           x == Settled(row[wk[w].at], "SKIPPED")
<1>1. wk[w].pc \in InHand
  BY DEF SkipRow, InHand
<1>2. ids # {} => Quiet(wk[w].at, x) /\ x.status # "SENDING"
  <2>1. SUFFICES ASSUME ids # {}
                 PROVE  Quiet(wk[w].at, x) /\ x.status # "SENDING"
    OBVIOUS
  <2>2. wk[w].at \in Rows /\ (wk[w].at \in Optional => ~row[wk[w].at].started)
    BY <1>1, <2>1, InHandFacts
  <2>3. row[wk[w].at] \in Row /\ "SKIPPED" \in Statuses
    BY <2>2 DEF IInv, TypeOK, Statuses
  <2>4. QED
    BY <2>2, <2>3, QuietSettled, SettledType
<1>3. row' = [r \in Rows |-> IF r \in ids
                             THEN RetryGuard(r \in stopped, row[r], x)
                             ELSE row[r]]
  BY DEF SkipRow, Update
<1>4. QED
  <2>1. Proceed(w, Rest(w)) /\ UNCHANGED <<env, handed, accepted, faults>>
    BY DEF SkipRow
  <2>2. ids \subseteq {wk[w].at}
    OBVIOUS
  <2> HIDE DEF ids, x
  <2>3. QED
    BY <1>1, <1>2, <1>3, <2>1, <2>2, ClosingKeeps

LEMMA CatchingKeeps ==
    ASSUME IInv, NEW w \in Workers, BuildFails(w) \/ FailSecurity(w)
    PROVE  IInv' /\ Kept /\ Promised
<1> DEFINE at == wk[w].at
           ids == {r \in {at} : Holds(w) /\ row[r].status = "PENDING"}
           x == Rejected(row[at], wk[w].tries + 1)
<1>1. wk[w].pc \in InHand /\ CatchFailure(w)
  BY DEF BuildFails, FailSecurity, InHand
<1>2. ids # {} => Quiet(at, x) /\ x.status # "SENDING"
  <2>1. SUFFICES ASSUME ids # {}
                 PROVE  Quiet(at, x) /\ x.status # "SENDING"
    OBVIOUS
  <2>2. at \in Rows /\ (at \in Optional => ~row[at].started)
    BY <1>1, <2>1, InHandFacts
  <2>3. row[at] \in Row /\ RowInv(at, row[at]) /\ wk[w] \in Worker
    BY <2>2 DEF IInv, TypeOK
  <2>4. wk[w].tries < MaxAttempts
    BY <1>1, <2>2 DEF IInv, WorkerInv
  <2>5. wk[w].tries + 1 \in 0 .. MaxAttempts
    BY <2>3, <2>4, MaxAttemptsAssumption DEF Worker
  <2> DEFINE n == wk[w].tries + 1
             s == IF n >= MaxAttempts THEN "FAILED" ELSE "PENDING"
  <2>6. x \in Row
    <3> HIDE DEF n
    <3>1. \A m \in 0 .. MaxAttempts : Rejected(row[at], m) \in Row
      BY <2>3, RowUpdates DEF Statuses
    <3>2. QED
      BY <2>5, <3>1 DEF n
  <2>7. /\ x.status = s /\ x.attempts = n
        /\ x.started = row[at].started /\ x.attempt = row[at].attempt
    <3>1. /\ Settled(row[at], s) \in Row /\ Settled(row[at], s).status = s
          /\ Settled(row[at], s).started = row[at].started
          /\ Settled(row[at], s).attempt = row[at].attempt
      BY <2>3, SettledType DEF Statuses
    <3>2. x = [Settled(row[at], s) EXCEPT !.attempts = n, !.due = FALSE]
      BY DEF Rejected
    <3> HIDE DEF s, n, x
    <3>3. QED
      BY <3>1, <3>2 DEF Row
  <2>8. s = "PENDING" => n < MaxAttempts
    BY <2>5, MaxAttemptsAssumption
  <2>9. QED
    <3> HIDE DEF n, x
    <3>1. QED
      BY <2>2, <2>3, <2>6, <2>7, <2>8 DEF Quiet, RowInv
<1>3. row' = [r \in Rows |-> IF r \in ids
                             THEN RetryGuard(r \in stopped, row[r], x)
                             ELSE row[r]]
  BY <1>1 DEF CatchFailure, Update
<1>4. QED
  <2>1. Proceed(w, Rest(w)) /\ UNCHANGED <<env, handed, accepted, faults>>
    BY <1>1 DEF CatchFailure
  <2>2. ids \subseteq {at}
    OBVIOUS
  <2> HIDE DEF ids, x
  <2>3. QED
    BY <1>1, <1>2, <1>3, <2>1, <2>2, ClosingKeeps

LEMMA FinishingSecurityKeeps ==
    ASSUME IInv, NEW w \in Workers, FinishSecurity(w)
    PROVE  IInv' /\ Kept /\ Promised
<1> DEFINE at == wk[w].at
           ids == {r \in {at} : Holds(w) /\ row[r].status = "PENDING"}
           y == Settled(row[at], "SENT")
           x == [y EXCEPT !.attempts = @ + 1]
<1>1. wk[w].pc \in InHand /\ wk[w].pc = "accepted" /\ at \in Security
  BY DEF FinishSecurity, InHand
<1>2. ids # {} => Quiet(at, x) /\ x.status # "SENDING"
  <2>1. SUFFICES ASSUME ids # {}
                 PROVE  Quiet(at, x) /\ x.status # "SENDING"
    OBVIOUS
  <2>2. at \in Rows /\ at \notin Optional /\ at \in accepted
    BY <1>1, RowsAssumption DEF Rows, IInv, WorkerInv
  <2>3. row[at] \in Row /\ RowInv(at, row[at]) /\ row[at].attempts < MaxAttempts
    BY <2>1, <2>2 DEF IInv, TypeOK, RowInv
  <2>4. y \in Row /\ y.status = "SENT" /\ y.attempts = row[at].attempts
    BY <2>3, SettledType DEF Statuses
  <2>5. y.attempts + 1 \in 0 .. MaxAttempts
    BY <2>3, <2>4, MaxAttemptsAssumption DEF Row
  <2>6. x \in Row /\ x.status = "SENT"
    <3> HIDE DEF y
    <3>1. QED
      BY <2>4, <2>5 DEF Row
  <2>7. QED
    <3> HIDE DEF x
    <3>1. QED
      BY <2>2, <2>6 DEF Quiet, RowInv
<1>3. row' = [r \in Rows |-> IF r \in ids
                             THEN RetryGuard(r \in stopped, row[r], x)
                             ELSE row[r]]
  BY DEF FinishSecurity, Update
<1>4. QED
  <2>1. Proceed(w, Rest(w)) /\ UNCHANGED <<env, handed, accepted, faults>>
    BY DEF FinishSecurity
  <2>2. ids \subseteq {at}
    OBVIOUS
  <2> HIDE DEF ids, x
  <2>3. QED
    BY <1>1, <1>2, <1>3, <2>1, <2>2, ClosingKeeps

------------------------------------------------------------------------------
(* The steps that open, make and close a transport attempt.                 *)
LEMMA BeginningKeeps ==
    ASSUME IInv, NEW w \in Workers, BeginSecurity(w)
    PROVE  IInv' /\ Kept /\ Promised
<1> DEFINE n == [wk[w] EXCEPT !.pc = "send"]
<1>1. TypeOK /\ wk[w] \in Worker
  BY DEF IInv, TypeOK
<1>2. /\ n \in Worker /\ n.pc = "send" /\ n.at = wk[w].at
      /\ n.batch = wk[w].batch /\ n.tries = wk[w].tries
  BY <1>1 DEF Worker
<1>3. wk' = [wk EXCEPT ![w] = n]
      /\ UNCHANGED <<row, stopped, holder, topic, mailOn, up, handed, accepted, faults>>
  BY DEF BeginSecurity, Goto, env
<1>4. wk' \in [Workers -> Worker] /\ wk'[w] = n
      /\ \A v \in Workers \ {w} : wk'[v] = wk[v]
  <2> HIDE DEF n
  <2>1. QED
    BY <1>1, <1>2, <1>3 DEF TypeOK
<1>5. TypeOK'
  BY <1>1, <1>3, <1>4 DEF TypeOK
<1>6. \A r \in Rows : RowInv(r, row[r])' /\ HandedInv(r)'
  BY <1>3 DEF IInv, RowInv, HandedInv
<1>7. WorkerInv(w)'
  <2>1. wk[w].pc = "decide" /\ wk[w].at \notin Optional
    BY RowsAssumption DEF BeginSecurity
  <2> HIDE DEF n
  <2>2. QED
    BY <1>2, <1>3, <1>4, <2>1 DEF IInv, WorkerInv, Fresh, InHand
<1>8. \A v \in Workers \ {w} : WorkerInv(v)'
  BY <1>3, <1>4 DEF IInv, WorkerInv, Fresh
<1>9. Kept
  BY <1>3 DEF Kept
<1>10. Promised
  <2>1. \A r \in Optional : FateOf(r)' = FateOf(r)
    BY <1>3 DEF FateOf
  <2>2. QED
    BY <1>3, <2>1, SameFate
<1>11. QED
  BY <1>5, <1>6, <1>7, <1>8, <1>9, <1>10 DEF IInv

LEMMA TransmittingKeeps ==
    ASSUME IInv, NEW w \in Workers, NEW taken \in BOOLEAN, NEW heard \in BOOLEAN,
           Transmit(w, taken, heard)
    PROVE  IInv' /\ Kept /\ Promised
<1> DEFINE at == wk[w].at
           n == [wk[w] EXCEPT !.pc = IF heard THEN "accepted" ELSE "rejected"]
<1>1. TypeOK /\ wk[w] \in Worker
  BY DEF IInv, TypeOK
<1>2. /\ n \in Worker /\ n.pc = IF heard THEN "accepted" ELSE "rejected"
      /\ n.at = at /\ n.batch = wk[w].batch /\ n.tries = wk[w].tries
  BY <1>1 DEF Worker
<1>3. /\ wk' = [wk EXCEPT ![w] = n] /\ wk[w].pc = "send" /\ (heard => taken)
      /\ UNCHANGED <<row, stopped, holder, topic, mailOn, up, faults>>
  BY DEF Transmit, Goto, env
<1>4. wk' \in [Workers -> Worker] /\ wk'[w] = n
      /\ \A v \in Workers \ {w} : wk'[v] = wk[v]
  <2> HIDE DEF n
  <2>1. QED
    BY <1>1, <1>2, <1>3 DEF TypeOK
<1>5. at \in Rows
  BY <1>3, InHandFacts DEF InHand
<1>6. /\ handed' \in [Rows -> 0 .. 2]
      /\ handed'[at] = (IF handed[at] = 2 THEN 2 ELSE handed[at] + 1)
      /\ \A r \in Rows \ {at} : handed'[r] = handed[r]
  BY <1>1, <1>5 DEF Transmit, TypeOK
<1>7. /\ accepted \subseteq accepted' /\ accepted' \subseteq Rows
      /\ heard => at \in accepted'
  BY <1>1, <1>3, <1>5 DEF Transmit, TypeOK
<1>8. at \in Optional => handed[at] = 0 /\ row[at].started /\ row[at].attempt = w
  BY <1>3 DEF IInv, WorkerInv, InTransport
<1>9. TypeOK'
  BY <1>1, <1>3, <1>4, <1>6, <1>7 DEF TypeOK
<1>10. \A r \in Rows : RowInv(r, row[r])' /\ HandedInv(r)'
  BY <1>3, <1>6, <1>7, <1>8 DEF IInv, RowInv, HandedInv
<1>11. WorkerInv(w)'
  <2> HIDE DEF n
  <2>1. QED
    BY <1>2, <1>3, <1>4, <1>7, <1>8 DEF IInv, WorkerInv, Fresh, InHand, InTransport
<1>12. ASSUME NEW v \in Workers \ {w}
       PROVE  WorkerInv(v)'
  <2>1. wk[v].pc = "send" /\ wk[v].at \in Optional => wk[v].at # at
    BY <1>8 DEF IInv, WorkerInv, InTransport
  <2>2. wk[v].pc = "send" /\ wk[v].at \in Optional => handed'[wk[v].at] = handed[wk[v].at]
    BY <1>6, <2>1 DEF Rows
  <2>3. QED
    BY <1>3, <1>4, <1>7, <2>2 DEF IInv, WorkerInv, Fresh
<1>13. Kept
  BY <1>3 DEF Kept
<1>14. Promised
  <2>1. \A r \in Optional : FateOf(r)' = FateOf(r)
    BY <1>3 DEF FateOf
  <2>2. CASE at \notin Optional
    <3>1. \A r \in Optional : handed'[r] = handed[r]
      BY <1>6, <2>2 DEF Rows
    <3>2. (accepted \cap Optional)' = accepted \cap Optional
      BY <2>2 DEF Transmit
    <3>3. QED
      BY <2>1, <3>1, <3>2, SameFate
  <2>3. CASE at \in Optional
    <3>1. PICK m \in Optional : m = at
      BY <2>3
    <3>2. FateOf(m) = "attempted" /\ handed[m] = 0
      BY <1>3, <1>8, <3>1 DEF FateOf, IInv, WorkerInv, InTransport
    <3>3. [r \in Optional |-> handed[r]]' = [[r \in Optional |-> handed[r]] EXCEPT ![m] = 1]
      <4>1. handed'[m] = 1
        BY <1>6, <3>1, <3>2
      <4>2. \A r \in Optional \ {m} : handed'[r] = handed[r]
        BY <1>6, <3>1 DEF Rows
      <4>3. QED
        BY <4>1, <4>2
    <3>4. (accepted \cap Optional)' \in {accepted \cap Optional, (accepted \cap Optional) \cup {m}}
      BY <3>1 DEF Transmit
    <3>5. Promise!Send(m)
      BY <2>1, <3>2, <3>3, <3>4 DEF Promise!Send
    <3>6. QED
      BY <3>5 DEF Promised, Promise!Next
  <2>4. QED
    BY <2>2, <2>3
<1>15. QED
  BY <1>9, <1>10, <1>11, <1>12, <1>13, <1>14 DEF IInv

(* A row in hand, unchanged or quietly closed by the admission.              *)
LEMMA RefusingKeeps ==
    ASSUME IInv, NEW w \in Workers, wk[w].pc \in InHand,
           UNCHANGED row, Proceed(w, Rest(w)),
           UNCHANGED <<env, handed, accepted, faults>>
    PROVE  IInv' /\ Kept /\ Promised
<1>1. row' = [r \in Rows |-> row'[r]] /\ \A r \in Rows : Quiet(r, row'[r])
  BY SameRowQuiet DEF IInv, TypeOK
<1>2. Rest(w) \in SUBSET wk[w].batch
  BY InHandFacts
<1>3. /\ RestTyped' /\ UNCHANGED <<handed, accepted>>
      /\ \A v \in Workers : wk'[v] = wk[v] \/ Harmless(wk'[v])
  BY <1>2, ProceedHarmless DEF env, RestTyped, IInv, TypeOK
<1>4. QED
  BY <1>1, <1>3, QuietStep

(* The admission proper: a fresh row gets its one attempt.                   *)
LEMMA OpeningKeeps ==
    ASSUME IInv, NEW w \in Workers, wk[w].pc = "decide", wk[w].at \in Optional,
           ~AdmitRefused(w), row[wk[w].at].attempts < MaxAttempts,
           Update({wk[w].at}, LAMBDA x : AttemptBy(x, w)),
           Goto(w, [wk[w] EXCEPT !.pc = "send"]),
           UNCHANGED <<env, handed, accepted, faults>>
    PROVE  IInv' /\ Kept /\ Promised
<1> DEFINE at == wk[w].at
           x == AttemptBy(row[at], w)
           n == [wk[w] EXCEPT !.pc = "send"]
<1>1. TypeOK /\ wk[w] \in Worker /\ at \in Rows /\ row[at] \in Row
  BY InHandFacts DEF IInv, TypeOK, InHand
<1>2. /\ n \in Worker /\ n.pc = "send" /\ n.at = at
      /\ n.batch = wk[w].batch /\ n.tries = wk[w].tries
  BY <1>1 DEF Worker
<1>3. wk' \in [Workers -> Worker] /\ wk'[w] = n
      /\ \A v \in Workers \ {w} : wk'[v] = wk[v]
  <2>1. wk' = [wk EXCEPT ![w] = n]
    BY DEF Goto
  <2> HIDE DEF n
  <2>2. QED
    BY <1>1, <1>2, <2>1 DEF TypeOK
<1>4. x \in Row /\ x.status = "SENDING" /\ x.started /\ x.attempt = w
  <2>1. "SENDING" \in Statuses
    BY DEF Statuses
  <2>2. x \in Row
    BY <1>1, <2>1, RowUpdates
  <2>3. x.status = "SENDING" /\ x.started /\ x.attempt = w
    BY <1>1 DEF AttemptBy, Row
  <2>4. QED
    BY <2>2, <2>3
<1>5. row' = [r \in Rows |-> IF r \in {at}
                             THEN RetryGuard(r \in stopped, row[r], AttemptBy(row[r], w))
                             ELSE row[r]]
  BY DEF Update
<1>6. RetryGuard(at \in stopped, row[at], x) = x
  BY DEF AdmitRefused, RetryGuard
<1>7. row' \in [Rows -> Row] /\ row'[at] = x /\ \A r \in Rows \ {at} : row'[r] = row[r]
  <2>1. row'[at] = x
    BY <1>1, <1>5, <1>6
  <2>2. \A r \in Rows \ {at} : row'[r] = row[r]
    BY <1>5
  <2>3. \A r \in Rows : row'[r] \in Row
    BY <1>1, <1>4, <2>1, <2>2 DEF TypeOK
  <2>4. QED
    BY <1>5, <2>1, <2>2, <2>3
<1>8. ~row[at].started /\ at \notin Security
  BY RowsAssumption DEF AdmitRefused
<1>9. UNCHANGED <<stopped, holder, topic, mailOn, up, handed, accepted, faults>>
  BY DEF env
<1>10. TypeOK'
  BY <1>1, <1>3, <1>7, <1>9 DEF TypeOK
<1>11. ASSUME NEW r \in Rows
       PROVE  RowInv(r, row[r])' /\ HandedInv(r)'
  <2>1. CASE r = at
    <3> HIDE DEF x
    <3>1. w # NoWorker
      BY NoWorkerAssumption
    <3>2. row'[r] = x /\ r \notin Security /\ handed'[r] <= 1
      BY <1>1, <1>7, <1>8, <1>9, <2>1 DEF IInv, HandedInv
    <3>3. QED
      BY <1>4, <3>1, <3>2 DEF RowInv, HandedInv, Closed
  <2>2. CASE r # at
    BY <1>7, <1>9, <2>2 DEF IInv, RowInv, HandedInv
  <2>3. QED
    BY <2>1, <2>2
<1>12. WorkerInv(w)'
  <2>1. handed[at] = 0
    BY <1>1, <1>8 DEF IInv, HandedInv
  <2> HIDE DEF n, x
  <2>2. QED
    BY <1>2, <1>3, <1>4, <1>7, <1>9, <2>1 DEF IInv, WorkerInv, Fresh, InHand
<1>13. ASSUME NEW v \in Workers \ {w}
       PROVE  WorkerInv(v)'
  <2>1. wk[v].pc \in InTransport /\ wk[v].at \in Optional => wk[v].at # at
    BY <1>8 DEF IInv, WorkerInv
  <2>2. wk[v].at \in Optional => wk[v].at \in Rows
    BY DEF Rows
  <2> HIDE DEF x
  <2>3. QED
    BY <1>3, <1>4, <1>7, <1>9, <2>1, <2>2 DEF IInv, WorkerInv, Fresh
<1>14. Kept
  <2> HIDE DEF x
  <2>1. QED
    BY <1>7, <1>8 DEF Kept, Rows
<1>15. Promised
  <2>1. PICK m \in Optional : m = at
    OBVIOUS
  <2>2. FateOf(m) = "open" /\ FateOf(m)' = "attempted"
    <3> HIDE DEF x
    <3>1. row'[m] = x
      BY <1>7, <2>1
    <3>2. QED
      BY <1>4, <1>8, <2>1, <3>1 DEF FateOf
  <2>3. \A r \in Optional \ {m} : FateOf(r)' = FateOf(r)
    BY <1>7, <2>1 DEF FateOf, Rows
  <2>4. [r \in Optional |-> FateOf(r)]' = [[r \in Optional |-> FateOf(r)] EXCEPT ![m] = "attempted"]
    BY <2>2, <2>3
  <2>5. Promise!Commit(m)
    BY <1>9, <2>2, <2>4 DEF Promise!Commit
  <2>6. QED
    BY <2>5 DEF Promised, Promise!Next
<1>16. QED
  BY <1>10, <1>11, <1>12, <1>13, <1>14, <1>15 DEF IInv

LEMMA AdmittingKeeps ==
    ASSUME IInv, NEW w \in Workers, Admit(w)
    PROVE  IInv' /\ Kept /\ Promised
<1> DEFINE at == wk[w].at
           withheld == holder[at] # "reader"
           spent == row[at].attempts >= MaxAttempts
           s == IF withheld THEN "CANCELLED" ELSE "FAILED"
<1>1. /\ wk[w].pc \in InHand /\ wk[w].pc = "decide" /\ at \in Optional
      /\ UNCHANGED <<env, handed, accepted, faults>>
  BY DEF Admit, InHand
<1>2. CASE AdmitRefused(w)
  BY <1>1, <1>2, RefusingKeeps DEF Admit
<1>3. CASE ~AdmitRefused(w) /\ (withheld \/ spent)
  <2>1. /\ Update({at}, LAMBDA x : Settled(x, s))
        /\ Proceed(w, Rest(w))
    BY <1>3 DEF Admit
  <2>2. at \in Rows /\ row[at] \in Row /\ s \in Statuses
    BY <1>1, InHandFacts DEF IInv, TypeOK, Statuses
  <2>3. Quiet(at, Settled(row[at], s)) /\ Settled(row[at], s).status # "SENDING"
    BY <1>3, <2>2, QuietSettled, SettledType DEF AdmitRefused
  <2>4. row' = [r \in Rows |-> IF r \in {at}
                               THEN RetryGuard(r \in stopped, row[r], Settled(row[at], s))
                               ELSE row[r]]
    BY <2>1 DEF Update
  <2>5. QED
    <3> HIDE DEF s, at
    <3>1. {at} \subseteq {wk[w].at}
      BY DEF at
    <3>2. QED
      BY <1>1, <2>1, <2>3, <2>4, <3>1, ClosingKeeps DEF at
<1>4. CASE ~AdmitRefused(w) /\ ~withheld /\ ~spent
  <2>1. row[at] \in Row
    BY <1>1, InHandFacts DEF IInv, TypeOK
  <2>2. row[at].attempts < MaxAttempts
    BY <1>4, <2>1, MaxAttemptsAssumption DEF Row
  <2>3. /\ Update({at}, LAMBDA x : AttemptBy(x, w))
        /\ Goto(w, [wk[w] EXCEPT !.pc = "send"])
    BY <1>4 DEF Admit
  <2>4. QED
    BY <1>1, <1>4, <2>2, <2>3, OpeningKeeps
<1>5. QED
  BY <1>2, <1>3, <1>4

LEMMA FinishingKeeps ==
    ASSUME IInv, NEW w \in Workers, FinishOptional(w)
    PROVE  IInv' /\ Kept /\ Promised
<1> DEFINE at == wk[w].at
           sent == wk[w].pc = "accepted"
           settles == /\ row[at].attempt = w /\ row[at].started
                      /\ \/ row[at].status \in {"SENDING", "UNCERTAIN"}
                         \/ sent /\ row[at].status = "CANCELLED"
           x == Settled(row[at], Verdict(w, at))
<1>1. /\ wk[w].pc \in InHand /\ at \in Optional /\ wk[w].pc \in InTransport
      /\ UNCHANGED <<env, handed, accepted, faults>> /\ Proceed(w, Rest(w))
  BY DEF FinishOptional, InHand, InTransport
<1>2. TypeOK /\ RestTyped /\ at \in Rows /\ row[at] \in Row /\ RowInv(at, row[at])
  BY <1>1, InHandFacts DEF IInv, TypeOK, RestTyped
<1>3. settles
  BY <1>1 DEF IInv, WorkerInv
<1>4. row' = [r \in Rows |-> IF r \in {at}
                             THEN RetryGuard(r \in stopped, row[r], Settled(row[r], Verdict(w, at)))
                             ELSE row[r]]
  BY <1>3 DEF FinishOptional, Update
<1>5. Verdict(w, at) \in {"SENT", "CANCELLED", "UNCERTAIN"}
      /\ (Verdict(w, at) = "SENT" => sent)
  BY DEF Verdict
<1>6. /\ x \in Row /\ x.status = Verdict(w, at)
      /\ x.started = row[at].started /\ x.attempt = row[at].attempt
  BY <1>2, <1>5, SettledType DEF Statuses
<1>7. at \in accepted \/ ~sent
  BY DEF IInv, WorkerInv
<1>8. RowInv(at, x)
  <2>1. x.started /\ (x.status = "SENT" => at \in accepted)
    BY <1>3, <1>5, <1>6, <1>7
  <2> HIDE DEF x
  <2>2. QED
    BY <1>2, <1>5, <1>6, <2>1 DEF RowInv, Closed
<1>9. RetryGuard(at \in stopped, row[at], x) \in {x, row[at]}
  <2> HIDE DEF x
  <2>1. QED
    BY <1>5, <1>6 DEF RetryGuard
<1>10. /\ row'[at] \in {x, row[at]} /\ row' = [r \in Rows |-> row'[r]]
       /\ \A r \in Rows \ {at} : row'[r] = row[r]
  BY <1>2, <1>4, <1>9
<1>11. /\ RowInv(at, row'[at]) /\ row'[at] \in Row
       /\ row'[at].started = row[at].started /\ row'[at].attempt = row[at].attempt
  <2> HIDE DEF x
  <2>1. QED
    BY <1>2, <1>6, <1>8, <1>10
<1>12. /\ RestTyped'
       /\ \A v \in Workers : wk'[v] = wk[v] \/ Harmless(wk'[v])
       /\ \A v \in Workers \ {w} : wk'[v] = wk[v]
       /\ Harmless(wk'[w])
  <2>1. Rest(w) \in SUBSET wk[w].batch
    BY <1>1, InHandFacts
  <2>2. /\ wk' \in [Workers -> Worker]
        /\ \A v \in Workers : wk'[v] = wk[v] \/ Harmless(wk'[v])
    BY <1>1, <2>1, ProceedHarmless
  <2>3. \A v \in Workers \ {w} : wk'[v] = wk[v]
    BY <1>1, <1>2 DEF Proceed, Goto, TypeOK
  <2>4. wk'[w].pc \notin InTransport
    BY <1>1, <1>2 DEF Proceed, Goto, TypeOK, Idle, InTransport
  <2>5. Harmless(wk'[w])
    BY <1>1, <2>2, <2>4
  <2>6. QED
    BY <1>1, <1>2, <2>2, <2>3, <2>5 DEF env, RestTyped
<1>13. TypeOK'
  <2>1. \A r \in Rows : row'[r] \in Row
    BY <1>2, <1>10, <1>11 DEF TypeOK
  <2>2. QED
    BY <1>10, <1>12, <2>1 DEF TypeOK, RestTyped
<1>14. \A r \in Rows : RowInv(r, row[r])' /\ HandedInv(r)'
  BY <1>1, <1>2, <1>10, <1>11 DEF IInv, RowInv, HandedInv
<1>15. WorkerInv(w)'
  <2>1. wk'[w].pc \notin {"send", "accepted", "rejected"}
    BY <1>12 DEF Harmless, InTransport
  <2>2. wk'[w].pc \in InHand => wk'[w].pc = "decide"
    BY <2>1 DEF InHand
  <2>3. wk'[w].at \in Optional => row'[wk'[w].at].started = row[wk'[w].at].started
    BY <1>10, <1>11 DEF Rows
  <2>4. QED
    BY <1>12, <2>1, <2>2, <2>3 DEF WorkerInv, Harmless, InTransport, Fresh
<1>16. ASSUME NEW v \in Workers \ {w}
       PROVE  WorkerInv(v)'
  <2>1. wk[v].pc \in InTransport /\ wk[v].at \in Optional => wk[v].at # at
    BY <1>3 DEF IInv, WorkerInv
  <2>2. wk[v].at \in Optional => row'[wk[v].at].started = row[wk[v].at].started
    BY <1>10, <1>11 DEF Rows
  <2>3. wk[v].pc \in InTransport /\ wk[v].at \in Optional => row'[wk[v].at] = row[wk[v].at]
    BY <1>10, <2>1 DEF Rows
  <2>4. WorkerInv(v) /\ wk'[v] = wk[v] /\ UNCHANGED <<handed, accepted>>
    BY <1>1, <1>12 DEF IInv
  <2>5. QED
    BY <2>2, <2>3, <2>4 DEF WorkerInv, Fresh, InTransport
<1>17. Kept
  <2>1. row[at].status # "SENT"
    BY <1>1 DEF IInv, WorkerInv
  <2>2. QED
    BY <1>10, <1>11, <2>1 DEF Kept, Rows
<1>18. Promised
  <2>1. PICK m \in Optional : m = at
    BY <1>1
  <2>2. FateOf(m) = "attempted"
    BY <1>1, <2>1 DEF FateOf, IInv, WorkerInv
  <2>3. \A r \in Optional \ {m} : FateOf(r)' = FateOf(r)
    BY <1>10, <2>1 DEF FateOf, Rows
  <2>4. FateOf(m)' \in {"attempted", "delivered"}
    BY <1>3, <1>11, <2>1 DEF FateOf
  <2>5. CASE FateOf(m)' = "attempted"
    BY <1>1, <2>2, <2>3, <2>5, SameFate
  <2>6. CASE FateOf(m)' = "delivered"
    <3>1. m \in accepted
      BY <1>1, <1>11, <2>1, <2>6 DEF FateOf, RowInv
    <3>2. [r \in Optional |-> FateOf(r)]' = [[r \in Optional |-> FateOf(r)] EXCEPT ![m] = "delivered"]
      BY <2>3, <2>6
    <3>3. Promise!Confirm(m)
      BY <1>1, <2>2, <3>1, <3>2 DEF Promise!Confirm
    <3>4. QED
      BY <3>3 DEF Promised, Promise!Next
  <2>7. QED
    BY <2>4, <2>5, <2>6
<1>19. QED
  BY <1>13, <1>14, <1>15, <1>16, <1>17, <1>18 DEF IInv

------------------------------------------------------------------------------
(* The other writers, and time: they change rows quietly and leave the       *)
(* dispatchers alone.                                                        *)
LEMMA OutsideUpdate ==
    ASSUME IInv, RestTyped', UNCHANGED <<wk, handed, accepted>>, NEW ids, NEW f,
           \A r \in ids \cap Rows : Quiet(r, f[r]) /\ f[r].status # "SENDING",
           row' = [r \in Rows |-> IF r \in ids
                                  THEN RetryGuard(r \in stopped, row[r], f[r])
                                  ELSE row[r]]
    PROVE  IInv' /\ Kept /\ Promised
<1>1. \A v \in Workers : wk'[v] = wk[v]
  OBVIOUS
<1>2. QED
  BY <1>1, QuietUpdate

LEMMA WithdrawingKeeps ==
    ASSUME IInv, NEW r \in Rows,
           \/ r \in Optional /\ (OptOut(r) \/ CorrectOwnership(r))
           \/ RetireAccount(r)
    PROVE  IInv' /\ Kept /\ Promised
<1>0. TypeOK /\ RestTyped
  BY DEF IInv, TypeOK, RestTyped
<1>1. \A q \in Rows : row[q].status = "PENDING" => (q \in Optional => ~row[q].started)
  BY PendingUnstarted
<1>2. ASSUME NEW q \in Rows, NEW s \in {"SKIPPED", "CANCELLED"},
             row[q].status = "PENDING"
      PROVE  /\ Quiet(q, Settled(row[q], s)) /\ Settled(row[q], s).status = s
             /\ Quiet(q, [row[q] EXCEPT !.status = s])
             /\ [row[q] EXCEPT !.status = s].status = s
  <2>1. row[q] \in Row /\ s \in Statuses
    BY <1>0 DEF TypeOK, Statuses
  <2>2. [row[q] EXCEPT !.status = s].status = s
    BY <2>1 DEF Row
  <2>3. QED
    BY <1>1, <1>2, <2>1, <2>2, QuietSettled, QuietClosed, SettledType
<1>3. CASE r \in Optional /\ OptOut(r)
  <2> DEFINE ids == Pending({r})
             f == [q \in Rows |-> Settled(row[q], "SKIPPED")]
  <2>1. \A q \in ids \cap Rows : Quiet(q, f[q]) /\ f[q].status # "SENDING"
    BY <1>2 DEF Pending
  <2>2. row' = [q \in Rows |-> IF q \in ids
                               THEN RetryGuard(q \in stopped, row[q], f[q])
                               ELSE row[q]]
    BY <1>3 DEF OptOut, Update
  <2>3. RestTyped' /\ UNCHANGED <<wk, handed, accepted>>
    BY <1>0, <1>3 DEF OptOut, local, RestTyped, Topics
  <2>4. QED
    <3> HIDE DEF f, ids
    <3>1. QED
      BY <2>1, <2>2, <2>3, OutsideUpdate
<1>4. CASE r \in Optional /\ CorrectOwnership(r)
  <2> DEFINE ids == {q \in Pending({r}) : ~row[q].started}
             f == [q \in Rows |-> Settled(row[q], "CANCELLED")]
  <2>1. \A q \in ids \cap Rows : Quiet(q, f[q]) /\ f[q].status # "SENDING"
    BY <1>2 DEF Pending
  <2>2. row' = [q \in Rows |-> IF q \in ids
                               THEN RetryGuard(q \in stopped, row[q], f[q])
                               ELSE row[q]]
    BY <1>4 DEF CorrectOwnership, Update
  <2>3. RestTyped' /\ UNCHANGED <<wk, handed, accepted>>
    BY <1>0, <1>4 DEF CorrectOwnership, local, RestTyped, Holders
  <2>4. QED
    <3> HIDE DEF f, ids
    <3>1. QED
      BY <2>1, <2>2, <2>3, OutsideUpdate
<1>5. CASE RetireAccount(r)
  <2> DEFINE ids == Pending({r})
             f == [q \in Rows |-> [row[q] EXCEPT !.status = "CANCELLED"]]
  <2>1. \A q \in ids \cap Rows : Quiet(q, f[q]) /\ f[q].status # "SENDING"
    BY <1>2 DEF Pending
  <2>2. row' = [q \in Rows |-> IF q \in ids
                               THEN RetryGuard(q \in stopped, row[q], f[q])
                               ELSE row[q]]
    BY <1>5 DEF RetireAccount, Update
  <2>3. RestTyped' /\ UNCHANGED <<wk, handed, accepted>>
    BY <1>0, <1>5 DEF RetireAccount, local, RestTyped, Holders
  <2>4. QED
    <3> HIDE DEF f, ids
    <3>1. QED
      BY <2>1, <2>2, <2>3, OutsideUpdate
<1>6. QED
  BY <1>3, <1>4, <1>5

LEMMA DisablingKeeps ==
    ASSUME IInv, DisableMail
    PROVE  IInv' /\ Kept /\ Promised
<1> DEFINE ids == Pending(Optional)
           f == [q \in Rows |-> [row[q] EXCEPT !.status = "SKIPPED"]]
<1>1. ASSUME NEW q \in ids \cap Rows
      PROVE  Quiet(q, f[q]) /\ f[q].status # "SENDING"
  <2>1. q \in Rows /\ row[q] \in Row /\ ~row[q].started
    BY PendingUnstarted DEF Pending, IInv, TypeOK
  <2>2. Quiet(q, [row[q] EXCEPT !.status = "SKIPPED"])
    BY <2>1, QuietClosed
  <2>3. QED
    BY <2>1, <2>2 DEF Row
<1>2. row' = [q \in Rows |-> IF q \in ids
                             THEN RetryGuard(q \in stopped, row[q], f[q])
                             ELSE row[q]]
  BY DEF DisableMail, Update
<1>3. RestTyped' /\ UNCHANGED <<wk, handed, accepted>>
  BY DEF DisableMail, local, IInv, TypeOK, RestTyped
<1>4. QED
  <2> HIDE DEF f, ids
  <2>1. QED
    BY <1>1, <1>2, <1>3, OutsideUpdate

LEMMA ResendingKeeps ==
    ASSUME IInv, ResendStuck
    PROVE  IInv' /\ Kept /\ Promised
<1> DEFINE ids == {r \in Rows : Resendable(r)}
           f == [q \in Rows |-> Requeued(row[q])]
<1>1. ASSUME NEW q \in ids \cap Rows
      PROVE  Quiet(q, f[q]) /\ f[q].status # "SENDING"
  <2>1. /\ f[q].status = "PENDING" /\ f[q].attempts = 0
        /\ f[q].started = FALSE /\ f[q].attempt = NoWorker
    BY DEF Requeued, NewRow
  <2>2. f[q] \in Row
    BY MaxAttemptsAssumption DEF Requeued, NewRow, Row, Statuses, Token
  <2>3. /\ q \in Optional => ~row[q].started /\ row[q].attempt = NoWorker
        /\ row[q].status \notin {"SENDING", "UNCERTAIN", "SENT"}
    BY RowsAssumption DEF Resendable, Stuck, IInv, RowInv
  <2>4. q \in Optional => row[q].started = FALSE
    BY <2>3 DEF IInv, RowInv, Row
  <2>5. RowInv(q, f[q])
    <3> HIDE DEF f
    <3>1. QED
      BY <2>1, <2>2, MaxAttemptsAssumption DEF RowInv
  <2>6. QED
    <3> HIDE DEF f
    <3>1. QED
      BY <2>1, <2>3, <2>4, <2>5 DEF Quiet
<1>2. row' = [q \in Rows |-> IF q \in ids
                             THEN RetryGuard(q \in stopped, row[q], f[q])
                             ELSE row[q]]
  BY DEF ResendStuck, Update
<1>3. RestTyped' /\ UNCHANGED <<wk, handed, accepted>>
  BY DEF ResendStuck, env, local, IInv, TypeOK, RestTyped
<1>4. QED
  <2> HIDE DEF f, ids
  <2>1. QED
    BY <1>1, <1>2, <1>3, OutsideUpdate

(* One row changes quietly to x, outside any retry guard.                    *)
LEMMA OneRowKeeps ==
    ASSUME IInv, RestTyped', UNCHANGED <<wk, handed, accepted>>,
           NEW r \in Rows, NEW x, Quiet(r, x), row' = [row EXCEPT ![r] = x]
    PROVE  IInv' /\ Kept /\ Promised
<1>1. row' = [q \in Rows |-> row'[q]] /\ row'[r] = x
      /\ \A q \in Rows \ {r} : row'[q] = row[q]
  BY DEF IInv, TypeOK
<1>2. \A q \in Rows : Quiet(q, row'[q])
  BY <1>1, SameRowQuiet
<1>3. \A v \in Workers : wk'[v] = wk[v]
  OBVIOUS
<1>4. QED
  BY <1>1, <1>2, <1>3, QuietStep

LEMMA CancellingKeeps ==
    ASSUME IInv, NEW r \in Rows, CancelEffects(r)
    PROVE  IInv' /\ Kept /\ Promised
<1> DEFINE y == Settled(row[r], "CANCELLED")
           x == [y EXCEPT !.attempt = NoWorker]
<1>0. TypeOK /\ RestTyped /\ row[r] \in Row /\ RowInv(r, row[r])
  BY DEF IInv, TypeOK, RestTyped
<1>1. RestTyped' /\ UNCHANGED <<wk, handed, accepted>>
  BY <1>0 DEF CancelEffects, local, RestTyped
<1>2. CASE Cancellable(r)
  <2>1. /\ y \in Row /\ y.status = "CANCELLED" /\ y.started = row[r].started
        /\ ~row[r].started
    BY <1>0, <1>2, SettledType DEF Statuses, Cancellable
  <2>2. /\ x \in Row /\ x.status = "CANCELLED" /\ x.started = row[r].started
        /\ x.attempt = NoWorker
    <3> HIDE DEF y
    <3>1. QED
      BY <2>1 DEF Row, Token
  <2>3. Quiet(r, x)
    <3> HIDE DEF x
    <3>1. QED
      BY <1>0, <2>1, <2>2 DEF Quiet, RowInv
  <2>4. row' = [row EXCEPT ![r] = x]
    BY <1>2 DEF CancelEffects
  <2>5. QED
    <3> HIDE DEF x
    <3>1. QED
      BY <1>1, <2>3, <2>4, OneRowKeeps
<1>3. CASE ~Cancellable(r)
  <2>1. row' = [row EXCEPT ![r] = row[r]]
    BY <1>3 DEF CancelEffects
  <2>2. QED
    BY <1>1, <2>1, SameRowQuiet, OneRowKeeps
<1>4. QED
  BY <1>2, <1>3

LEMMA TimeKeeps ==
    ASSUME IInv, NEW r \in Rows,
           LeaseRunsOut(r) \/ WorkerOverruns(r) \/ BackoffEnds(r)
    PROVE  IInv' /\ Kept /\ Promised
<1>0. TypeOK /\ RestTyped /\ row[r] \in Row /\ RowInv(r, row[r])
  BY DEF IInv, TypeOK, RestTyped
<1>1. \A x : /\ x \in Row /\ x.status = row[r].status /\ x.attempts = row[r].attempts
             /\ x.started = row[r].started /\ x.attempt = row[r].attempt
             => Quiet(r, x)
  BY <1>0 DEF Quiet, RowInv
<1>2. Quiet(r, [row[r] EXCEPT !.expired = TRUE])
  <2> DEFINE x == [row[r] EXCEPT !.expired = TRUE]
  <2>1. /\ x \in Row /\ x.status = row[r].status /\ x.attempts = row[r].attempts
        /\ x.started = row[r].started /\ x.attempt = row[r].attempt
    BY <1>0 DEF Row
  <2> HIDE DEF x
  <2>2. Quiet(r, x)
    BY <1>1, <2>1
  <2>3. QED
    BY <2>2 DEF x
<1>3. Quiet(r, [row[r] EXCEPT !.due = TRUE])
  <2> DEFINE x == [row[r] EXCEPT !.due = TRUE]
  <2>1. /\ x \in Row /\ x.status = row[r].status /\ x.attempts = row[r].attempts
        /\ x.started = row[r].started /\ x.attempt = row[r].attempt
    BY <1>0 DEF Row
  <2> HIDE DEF x
  <2>2. Quiet(r, x)
    BY <1>1, <2>1
  <2>3. QED
    BY <2>2 DEF x
<1>4. RestTyped' /\ UNCHANGED <<wk, handed, accepted>>
  BY <1>0, MaxFaultsAssumption DEF LeaseRunsOut, WorkerOverruns, BackoffEnds, env, RestTyped
<1>5. \/ row' = [row EXCEPT ![r] = [row[r] EXCEPT !.expired = TRUE]]
      \/ row' = [row EXCEPT ![r] = [row[r] EXCEPT !.due = TRUE]]
  BY DEF LeaseRunsOut, WorkerOverruns, BackoffEnds
<1>6. QED
  BY <1>2, <1>3, <1>4, <1>5, OneRowKeeps

------------------------------------------------------------------------------
LEMMA InitInvariant == Init => IInv
<1> SUFFICES ASSUME Init
             PROVE  IInv
  OBVIOUS
<1>1. NewRow("PENDING") \in Row
  BY MaxAttemptsAssumption DEF NewRow, Row, Statuses, Token
<1>2. TypeOK
  BY <1>1, IdleHarmless, MaxFaultsAssumption
     DEF Init, TypeOK, Holders, Topics
<1>3. ASSUME NEW r \in Rows
      PROVE  RowInv(r, row[r]) /\ HandedInv(r)
  BY <1>1, MaxAttemptsAssumption DEF Init, NewRow, RowInv, HandedInv
<1>4. ASSUME NEW w \in Workers
      PROVE  WorkerInv(w)
  BY DEF Init, Idle, WorkerInv, InHand, InTransport
<1>5. QED
  BY <1>2, <1>3, <1>4 DEF IInv

LEMMA NextInvariant == IInv /\ [Next]_vars => IInv' /\ Kept /\ Promised
<1> SUFFICES ASSUME IInv, [Next]_vars
             PROVE  IInv' /\ Kept /\ Promised
  OBVIOUS
<1>1. CASE Environment
  <2>1. CASE \E r \in Optional : OptOut(r) \/ CorrectOwnership(r)
    BY <2>1, WithdrawingKeeps DEF Rows
  <2>2. CASE DisableMail \/ EnableMail
    BY <2>2, DisablingKeeps, RegardlessKeeps
  <2>3. CASE \E r \in Optional : OptIn(r)
    BY <2>3, RegardlessKeeps DEF Rows
  <2>4. CASE \E c \in Transports : ChangeTransport(c)
    BY <2>4, RegardlessKeeps
  <2>5. CASE ResendStuck
    BY <2>5, ResendingKeeps
  <2>6. CASE \E r \in Rows : CancelEffects(r)
    BY <2>6, CancellingKeeps
  <2>7. CASE \E r \in Rows : Suspend(r)
    BY <2>7, RegardlessKeeps
  <2>8. CASE \E r \in Rows : RetireAccount(r)
    BY <2>8, WithdrawingKeeps
  <2>9. QED
    BY <1>1, <2>1, <2>2, <2>3, <2>4, <2>5, <2>6, <2>7, <2>8 DEF Environment
<1>2. CASE Mishap \/ Time
  BY <1>2, TimeKeeps, ReleasingKeeps, CrashingKeeps DEF Mishap, Time
<1>3. CASE \E w \in Workers : Dispatch(w)
  <2>1. PICK w \in Workers : Dispatch(w)
    BY <1>3
  <2>2. wk[w].batch \subseteq Capture
    BY DEF IInv, TypeOK, Worker
  <2>3. CASE \/ Sweep(w) \/ SkipBacklog(w) \/ LeaseBatch(w)
             \/ SkipRow(w) \/ BuildFails(w) \/ FinishSecurity(w) \/ FailSecurity(w)
    BY <2>3, SweepKeeps, LeasingKeeps, SkippingKeeps, CatchingKeeps,
       FinishingSecurityKeeps
  <2>4. CASE BeginSecurity(w) \/ Admit(w) \/ FinishOptional(w)
    BY <2>4, BeginningKeeps, AdmittingKeeps, FinishingKeeps
  <2>5. CASE \E taken, heard \in BOOLEAN : Transmit(w, taken, heard)
    BY <2>5, TransmittingKeeps
  <2>6. CASE ReadSettings(w) \/ FinishOptionalFails(w)
    BY <2>6, ReadingKeeps
  <2>7. CASE \E c \in wk[w].batch : DeferRow(w, c)
    BY <2>7, DeferringKeeps
  <2>8. CASE \E c \in wk[w].batch : \/ PassRow(w, c)
                                    \/ \E other \in BOOLEAN : ReadRow(w, c, other)
    BY <2>2, <2>8, ReadingRowKeeps
  <2>9. QED
    BY <2>1, <2>3, <2>4, <2>5, <2>6, <2>7, <2>8 DEF Dispatch
<1>4. CASE UNCHANGED vars
  <2>1. \A r \in Optional : FateOf(r)' = FateOf(r)
    BY <1>4 DEF vars, FateOf
  <2>2. Promised
    BY <1>4, <2>1, SameFate DEF vars
  <2>3. QED
    BY <1>4, <2>2 DEF vars, IInv, TypeOK, RowInv, HandedInv, WorkerInv, Fresh, Kept
<1>5. QED
  BY <1>1, <1>2, <1>3, <1>4 DEF Next

(* In every reachable state the inductive invariant holds.                   *)
THEOREM Invariance == Spec => []IInv
<1>1. Init => IInv
  BY InitInvariant
<1>2. IInv /\ [Next]_vars => IInv'
  BY NextInvariant
<1>3. QED
  BY <1>1, <1>2, PTL DEF Spec

(* Rows, captures and dispatcher states keep their types: in particular no   *)
(* row is ever charged more attempts than its budget.                        *)
THEOREM TypeCorrect == Spec => []TypeOK
<1>1. IInv => TypeOK
  BY DEF IInv
<1>2. QED
  BY <1>1, Invariance, PTL

(* deliverNotifications hands an optional message to SMTP at most once,      *)
(* for any number of concurrent dispatchers, crashes and expired leases.     *)
THEOREM AtMostOnce == Spec => []HandedAtMostOnce
<1>1. IInv => HandedAtMostOnce
  BY DEF IInv, HandedInv, HandedAtMostOnce, Rows
<1>2. QED
  BY <1>1, Invariance, PTL

(* A row is SENT only if the provider took its message, whichever of         *)
(* finishRecoveryGenericDelivery and the dispatcher wrote it.                *)
THEOREM SentIsAccepted == Spec => []SentMeansAccepted
<1>1. IInv => SentMeansAccepted
  BY DEF IInv, RowInv, SentMeansAccepted
<1>2. QED
  BY <1>1, Invariance, PTL

(* A dispatcher that heard of an acceptance always finds its own attempt     *)
(* still open on the row.                                                    *)
THEOREM Recordable == Spec => []AcceptanceCanBeRecorded
<1>1. IInv => AcceptanceCanBeRecorded
  BY DEF IInv, WorkerInv, InTransport, AcceptanceCanBeRecorded
<1>2. QED
  BY <1>1, Invariance, PTL

(* No step erases, replaces or reopens an admitted attempt of optional mail. *)
THEOREM EvidenceKept == Spec => AttemptEvidenceKept
<1>1. IInv /\ [Next]_vars =>
        [\A r \in Optional : row[r].started =>
          /\ row'[r].started /\ row'[r].attempt = row[r].attempt
          /\ row'[r].status \notin {"PENDING", "FAILED", "SKIPPED"}
          /\ row[r].status = "SENT" => row'[r].status = "SENT"]_vars
  <2>1. SUFFICES ASSUME IInv, [Next]_vars, NEW r \in Optional, row[r].started
                 PROVE  /\ row'[r].started /\ row'[r].attempt = row[r].attempt
                        /\ row'[r].status \notin {"PENDING", "FAILED", "SKIPPED"}
                        /\ row[r].status = "SENT" => row'[r].status = "SENT"
    OBVIOUS
  <2>2. IInv' /\ Kept
    BY <2>1, NextInvariant
  <2>3. row'[r].started /\ (IInv' => RowInv(r, row[r])')
    BY <2>1, <2>2 DEF Kept, IInv, Rows
  <2>4. QED
    BY <2>1, <2>2, <2>3 DEF Kept, RowInv, Closed
<1>2. QED
  BY <1>1, Invariance, PTL DEF Spec, AttemptEvidenceKept

(* The outbox, with everything that writes to it, implements the abstract    *)
(* promise about each optional message.                                      *)
THEOREM PromiseKept == Spec => KeepsPromise
<1>1. Init => Promise!Init
  BY DEF Init, Promise!Init, FateOf, NewRow, Rows
<1>2. IInv /\ [Next]_vars => [Promise!Next]_(Promise!promise)
  BY NextInvariant DEF Promised
<1>3. QED
  BY <1>1, <1>2, Invariance, PTL DEF Spec, KeepsPromise, Promise!Spec

------------------------------------------------------------------------------
(***************************************************************************)
(* Why an admission may rely on checks made in an earlier transaction.  The *)
(* dispatcher reads the programme switch and the topic preference, and      *)
(* admits the row later without reading them again; whoever closes one of   *)
(* the two in between also settles the queued row, and from then on no      *)
(* writer gives that row back to that dispatcher.                           *)
(***************************************************************************)

(* The row is queued under the lease of worker w.                            *)
QueuedFor(x, w) == x.status = "PENDING" /\ x.lease = w

(* What a dispatcher that found the row eligible still knows, as long as the *)
(* row is queued under its lease.                                            *)
StillWelcome(w) ==
    wk[w].pc = "decide" /\ wk[w].ok =>
        \A r \in Optional : wk[w].at = r /\ QueuedFor(row[r], w) =>
            mailOn /\ topic[r] # "off"

AllWelcome == \A w \in Workers : StillWelcome(w)

(* A change of row r to x that queues it under nobody's lease anew, the      *)
(* workers of V excepted, and starts no transport.                           *)
Tame(r, x, V) ==
    /\ "status" \in DOMAIN x
    /\ x.status = "SENDING" => row[r].status = "SENDING"
    /\ \A w \in Workers \ V : QueuedFor(x, w) => QueuedFor(row[r], w)

Welcome(r) == mailOn /\ topic[r] # "off" /\ holder[r] = "reader" /\ r \notin stopped

NoSurprise == \A r \in Optional : Admits(r) => Welcome(r)

------------------------------------------------------------------------------
(* The updates of a row that are tame.                                       *)
LEMMA TameUpdates ==
    ASSUME IInv, NEW r \in Rows, NEW s \in Statuses, s # "SENDING",
           NEW t, NEW V
    PROVE  /\ Tame(r, row[r], V)
           /\ Tame(r, Settled(row[r], s), V)
           /\ Tame(r, Settled(row[r], row[r].status), V)
           /\ Tame(r, Deferred(row[r]), V)
           /\ Tame(r, Rejected(row[r], t), V)
           /\ Tame(r, Requeued(row[r]), V)
           /\ s # "PENDING" => Tame(r, [row[r] EXCEPT !.status = s], V)
<1>1. row[r] \in Row
  BY DEF IInv, TypeOK
<1>2. ASSUME NEW q \in Statuses
      PROVE  /\ Settled(row[r], q).status = q
             /\ Settled(row[r], q).lease = NoWorker
             /\ Deferred(row[r]).status = row[r].status
             /\ Deferred(row[r]).lease = NoWorker
  BY <1>1 DEF Row, Settled, Deferred
<1>3. row[r].status \in Statuses
  BY <1>1 DEF Row
<1>4. Rejected(row[r], t).status # "SENDING" /\ Rejected(row[r], t).lease = NoWorker
  BY <1>1 DEF Row, Settled, Rejected
<1>5. Requeued(row[r]).status # "SENDING" /\ Requeued(row[r]).lease = NoWorker
  BY DEF Requeued, NewRow
<1>6. [row[r] EXCEPT !.status = s].status = s
  BY <1>1 DEF Row
<1>7. \A w \in Workers : w # NoWorker
  BY NoWorkerAssumption
<1>8. /\ "status" \in DOMAIN row[r]
      /\ \A q \in Statuses : "status" \in DOMAIN Settled(row[r], q)
      /\ "status" \in DOMAIN Deferred(row[r])
      /\ "status" \in DOMAIN Rejected(row[r], t)
      /\ "status" \in DOMAIN Requeued(row[r])
      /\ "status" \in DOMAIN [row[r] EXCEPT !.status = s]
  BY <1>1 DEF Row, Settled, Deferred, Rejected, Requeued, NewRow
<1>9. /\ Tame(r, row[r], V)
      /\ Tame(r, Settled(row[r], s), V)
      /\ Tame(r, Settled(row[r], row[r].status), V)
      /\ Tame(r, Deferred(row[r]), V)
  BY <1>2, <1>3, <1>7, <1>8 DEF Tame, QueuedFor
<1>10. Tame(r, Rejected(row[r], t), V) /\ Tame(r, Requeued(row[r]), V)
  BY <1>4, <1>5, <1>7, <1>8 DEF Tame, QueuedFor
<1>11. s # "PENDING" => Tame(r, [row[r] EXCEPT !.status = s], V)
  BY <1>6, <1>8 DEF Tame, QueuedFor
<1>12. QED
  BY <1>9, <1>10, <1>11

(* The retry guard never queues a row, whatever it is given.                 *)
LEMMA GuardTame ==
    ASSUME IInv, NEW r \in Rows, NEW x, NEW V, Tame(r, x, V), NEW b \in BOOLEAN
    PROVE  /\ Tame(r, RetryGuard(b, row[r], x), V)
           /\ RetryGuard(b, row[r], x).status = "PENDING" =>
                  RetryGuard(b, row[r], x) = x \/ RetryGuard(b, row[r], x) = row[r]
<1> DEFINE g == RetryGuard(b, row[r], x)
           t == IF row[r].status = "SENT" THEN "SENT" ELSE "CANCELLED"
<1>1. g = row[r] \/ g = x \/ g = Settled(x, t)
  BY DEF RetryGuard
<1>2. Settled(x, t).status = t
  BY DEF Settled, Tame
<1>3. Tame(r, row[r], V)
  BY DEF Tame, IInv, TypeOK, Row
<1>4. Tame(r, Settled(x, t), V) /\ Settled(x, t).status # "PENDING"
  <2>1. "status" \in DOMAIN Settled(x, t)
    BY DEF Settled, Tame
  <2>2. QED
    BY <1>2, <2>1 DEF Tame, QueuedFor
<1>5. QED
  BY <1>1, <1>3, <1>4

(* An update of some rows, each tamely, is tame on every row.                *)
LEMMA TameRows ==
    ASSUME IInv, NEW ids, NEW f, NEW V,
           \A r \in ids \cap Rows : Tame(r, f[r], V),
           row' = [r \in Rows |-> IF r \in ids
                                  THEN RetryGuard(r \in stopped, row[r], f[r])
                                  ELSE row[r]]
    PROVE  /\ \A r \in Rows : Tame(r, row'[r], V)
           /\ \A r \in ids \cap Rows : row'[r].status = "PENDING" =>
                  row'[r] = f[r] \/ row'[r] = row[r]
<1>1. ASSUME NEW r \in Rows
      PROVE  /\ Tame(r, row'[r], V)
             /\ r \in ids => (row'[r].status = "PENDING" =>
                                  row'[r] = f[r] \/ row'[r] = row[r])
  <2>1. CASE r \in ids
    <3>1. row'[r] = RetryGuard(r \in stopped, row[r], f[r])
      BY <2>1
    <3>2. Tame(r, f[r], V) /\ (r \in stopped) \in BOOLEAN
      BY <2>1
    <3>3. /\ Tame(r, RetryGuard(r \in stopped, row[r], f[r]), V)
          /\ RetryGuard(r \in stopped, row[r], f[r]).status = "PENDING" =>
                \/ RetryGuard(r \in stopped, row[r], f[r]) = f[r]
                \/ RetryGuard(r \in stopped, row[r], f[r]) = row[r]
      BY <3>2, GuardTame
    <3>4. QED
      BY <3>1, <3>3
  <2>2. CASE r \notin ids
    BY <2>2 DEF Tame, IInv, TypeOK, Row
  <2>3. QED
    BY <2>1, <2>2
<1>2. QED
  BY <1>1

------------------------------------------------------------------------------
(* The knowledge of every dispatcher survives a step that is tame on the     *)
(* optional rows, and that closes the programme or a topic only for rows it  *)
(* leaves settled.                                                           *)
LEMMA KnowledgeKept ==
    ASSUME AllWelcome, NEW V,
           \A r \in Optional : \A w \in Workers \ V :
              QueuedFor(row'[r], w) => QueuedFor(row[r], w),
           \A w \in Workers : wk'[w] = wk[w] \/ wk'[w].pc # "decide",
           \A w \in Workers \cap V : wk'[w].pc # "decide",
           \A r \in Optional : mailOn /\ topic[r] # "off" /\ row'[r].status = "PENDING" =>
              mailOn' /\ topic'[r] # "off"
    PROVE  AllWelcome'
<1>1. SUFFICES ASSUME NEW w \in Workers, wk'[w].pc = "decide", wk'[w].ok,
                      NEW r \in Optional, wk'[w].at = r, QueuedFor(row'[r], w)
               PROVE  mailOn' /\ topic'[r] # "off"
  BY DEF AllWelcome, StillWelcome
<1>2. w \notin V /\ wk'[w] = wk[w]
  BY <1>1
<1>3. QueuedFor(row[r], w)
  BY <1>1, <1>2
<1>4. mailOn /\ topic[r] # "off"
  BY <1>1, <1>2, <1>3 DEF AllWelcome, StillWelcome
<1>5. QED
  BY <1>1, <1>4 DEF QueuedFor

LEMMA TameStep ==
    ASSUME AllWelcome, NEW V,
           \A r \in Rows : Tame(r, row'[r], V),
           \A w \in Workers : wk'[w] = wk[w] \/ wk'[w].pc # "decide",
           \A w \in Workers \cap V : wk'[w].pc # "decide",
           \A r \in Optional : mailOn /\ topic[r] # "off" /\ row'[r].status = "PENDING" =>
              mailOn' /\ topic'[r] # "off"
    PROVE  AllWelcome' /\ NoSurprise
<1>1. AllWelcome'
  BY KnowledgeKept DEF Tame, Rows
<1>2. NoSurprise
  BY DEF NoSurprise, Admits, Tame, Rows
<1>3. QED
  BY <1>1, <1>2

(* The dispatcher's way out of a row.                                        *)
LEMMA Leaving ==
    ASSUME IInv, NEW w \in Workers, NEW b, Proceed(w, b)
    PROVE  \A v \in Workers : wk'[v] = wk[v] \/ wk'[v].pc # "decide"
  BY DEF IInv, TypeOK, Proceed, Goto, Idle

LEMMA Moving ==
    ASSUME IInv, NEW w \in Workers, NEW n, n.pc # "decide", Goto(w, n)
    PROVE  \A v \in Workers : wk'[v] = wk[v] \/ wk'[v].pc # "decide"
  BY DEF IInv, TypeOK, Goto

------------------------------------------------------------------------------
(* The actions that write no row.                                            *)
LEMMA UnwrittenTame ==
    ASSUME IInv, AllWelcome, row' = row,
           \A w \in Workers : wk'[w] = wk[w] \/ wk'[w].pc # "decide",
           \A r \in Optional : mailOn /\ topic[r] # "off" => mailOn' /\ topic'[r] # "off"
    PROVE  AllWelcome' /\ NoSurprise
<1>1. \A r \in Rows : Tame(r, row'[r], {})
  BY DEF Tame, IInv, TypeOK, Row
<1>2. QED
  BY <1>1, TameStep

LEMMA IdlingTame ==
    ASSUME IInv, AllWelcome, NEW w \in Workers,
           \/ ReadSettings(w) \/ BeginSecurity(w) \/ FinishOptionalFails(w) \/ Crash(w)
           \/ \E c \in wk[w].batch : PassRow(w, c)
           \/ \E taken, heard \in BOOLEAN : Transmit(w, taken, heard)
    PROVE  AllWelcome' /\ NoSurprise
<1>0. wk[w] \in Worker
  BY DEF IInv, TypeOK
<1>1. row' = row /\ mailOn' = mailOn /\ topic' = topic
  BY DEF ReadSettings, BeginSecurity, FinishOptionalFails, Crash, PassRow, Transmit, env
<1>2. CASE \E c \in wk[w].batch : PassRow(w, c)
  BY <1>1, <1>2, Leaving, UnwrittenTame DEF PassRow
<1>3. CASE ReadSettings(w) \/ FinishOptionalFails(w) \/ Crash(w)
  <2>1. \/ Goto(w, [Idle EXCEPT !.pc = IF mailOn THEN "lease" ELSE "skip"])
        \/ Goto(w, Idle)
    BY <1>3 DEF ReadSettings, FinishOptionalFails, Crash
  <2>2. \A v \in Workers : wk'[v] = wk[v] \/ wk'[v].pc # "decide"
    BY <2>1 DEF IInv, TypeOK, Goto, Idle
  <2>3. QED
    BY <1>1, <2>2, UnwrittenTame
<1>4. CASE BeginSecurity(w) \/ \E taken, heard \in BOOLEAN : Transmit(w, taken, heard)
  <2>1. \E p \in {"send", "accepted", "rejected"} : Goto(w, [wk[w] EXCEPT !.pc = p])
    BY <1>4 DEF BeginSecurity, Transmit
  <2>2. \A v \in Workers : wk'[v] = wk[v] \/ wk'[v].pc # "decide"
    BY <1>0, <2>1 DEF IInv, TypeOK, Goto, Worker
  <2>3. QED
    BY <1>1, <2>2, UnwrittenTame
<1>5. QED
  BY <1>2, <1>3, <1>4

(* The row is read with the switch and the topic as they are.                *)
LEMMA ReadingTame ==
    ASSUME IInv, AllWelcome, NEW w \in Workers, NEW c \in wk[w].batch,
           NEW other \in BOOLEAN, ReadRow(w, c, other)
    PROVE  AllWelcome' /\ NoSurprise
<1>0. wk \in [Workers -> Worker]
  BY DEF IInv, TypeOK
<1>1. row' = row /\ mailOn' = mailOn /\ topic' = topic
  BY DEF ReadRow, env
<1>2. /\ \A v \in Workers \ {w} : wk'[v] = wk[v]
      /\ wk'[w].at = c.id /\ wk'[w].ok = Eligible(c.id, other)
  BY <1>0 DEF ReadRow, Goto, Worker
<1>3. ASSUME NEW v \in Workers
      PROVE  StillWelcome(v)'
  <2>1. CASE v = w
    BY <1>1, <1>2, <2>1 DEF StillWelcome, Eligible
  <2>2. CASE v # w
    BY <1>1, <1>2, <2>2 DEF StillWelcome, AllWelcome
  <2>3. QED
    BY <2>1, <2>2
<1>4. NoSurprise
  BY <1>1 DEF NoSurprise, Admits
<1>5. QED
  BY <1>3, <1>4 DEF AllWelcome

------------------------------------------------------------------------------
(* The dispatcher's writes other than the admission.                         *)
LEMMA WritingTame ==
    ASSUME IInv, AllWelcome, NEW w \in Workers, NEW ids, NEW f,
           \A r \in ids \cap Rows : Tame(r, f[r], {}),
           row' = [r \in Rows |-> IF r \in ids
                                  THEN RetryGuard(r \in stopped, row[r], f[r])
                                  ELSE row[r]],
           \A v \in Workers : wk'[v] = wk[v] \/ wk'[v].pc # "decide",
           mailOn' = mailOn, topic' = topic
    PROVE  AllWelcome' /\ NoSurprise
<1>1. \A r \in Rows : Tame(r, row'[r], {})
  BY TameRows
<1>2. QED
  BY <1>1, TameStep

LEMMA SweepingTame ==
    ASSUME IInv, AllWelcome, NEW w \in Workers,
           Sweep(w) \/ SkipBacklog(w) \/ ReleaseRest(w)
    PROVE  AllWelcome' /\ NoSurprise
<1>1. CASE Sweep(w)
  <2> DEFINE ids == {r \in Optional : Abandoned(r)}
             f == [x \in Rows |-> Settled(row[x], "UNCERTAIN")]
  <2>1. \A r \in ids \cap Rows : Tame(r, f[r], {})
    BY TameUpdates DEF Statuses
  <2>2. row' = [r \in Rows |-> IF r \in ids
                               THEN RetryGuard(r \in stopped, row[r], f[r])
                               ELSE row[r]]
    BY <1>1 DEF Sweep, Update
  <2>3. /\ mailOn' = mailOn /\ topic' = topic
        /\ \A v \in Workers : wk'[v] = wk[v] \/ wk'[v].pc # "decide"
    BY <1>1, Moving DEF Sweep, env, Idle
  <2>4. QED
    <3> HIDE DEF ids, f
    <3>1. QED
      BY <2>1, <2>2, <2>3, WritingTame
<1>2. CASE SkipBacklog(w)
  <2> DEFINE ids == Pending(Optional)
             f == [x \in Rows |-> [row[x] EXCEPT !.status = "SKIPPED"]]
  <2>1. \A r \in ids \cap Rows : Tame(r, f[r], {})
    BY TameUpdates DEF Statuses
  <2>2. row' = [r \in Rows |-> IF r \in ids
                               THEN RetryGuard(r \in stopped, row[r], f[r])
                               ELSE row[r]]
    BY <1>2 DEF SkipBacklog, Update
  <2>3. /\ mailOn' = mailOn /\ topic' = topic
        /\ \A v \in Workers : wk'[v] = wk[v] \/ wk'[v].pc # "decide"
    BY <1>2, Moving DEF SkipBacklog, env, Idle
  <2>4. QED
    <3> HIDE DEF ids, f
    <3>1. QED
      BY <2>1, <2>2, <2>3, WritingTame
<1>3. CASE ReleaseRest(w)
  <2> DEFINE ids == {c.id : c \in {d \in wk[w].batch : /\ Live(row[d.id])
                                                       /\ Fenced(row[d.id], w, d.fence)}}
             f == [x \in Rows |-> Settled(row[x], row[x].status)]
  <2>1. \A r \in ids \cap Rows : Tame(r, f[r], {})
    <3>1. "SKIPPED" \in Statuses
      BY DEF Statuses
    <3>2. QED
      BY <3>1, TameUpdates
  <2>2. row' = [r \in Rows |-> IF r \in ids
                               THEN RetryGuard(r \in stopped, row[r], f[r])
                               ELSE row[r]]
    BY <1>3 DEF ReleaseRest, Update
  <2>3. /\ mailOn' = mailOn /\ topic' = topic
        /\ \A v \in Workers : wk'[v] = wk[v] \/ wk'[v].pc # "decide"
    BY <1>3, Moving DEF ReleaseRest, env, Idle
  <2>4. QED
    <3> HIDE DEF ids, f
    <3>1. QED
      BY <2>1, <2>2, <2>3, WritingTame
<1>4. QED
  BY <1>1, <1>2, <1>3

(* A dispatcher done with the row in its hand; f says what it writes there.  *)
LEMMA ClosingTame ==
    ASSUME IInv, AllWelcome, NEW w \in Workers, NEW ids, NEW f, NEW b,
           \A r \in ids \cap Rows : Tame(r, f[r], {}),
           row' = [r \in Rows |-> IF r \in ids
                                  THEN RetryGuard(r \in stopped, row[r], f[r])
                                  ELSE row[r]],
           Proceed(w, b), UNCHANGED env
    PROVE  AllWelcome' /\ NoSurprise
<1>1. /\ mailOn' = mailOn /\ topic' = topic
      /\ \A v \in Workers : wk'[v] = wk[v] \/ wk'[v].pc # "decide"
  BY Leaving DEF env
<1>2. QED
  BY <1>1, WritingTame

LEMMA HandlingTame ==
    ASSUME IInv, AllWelcome, NEW w \in Workers,
           \/ SkipRow(w) \/ BuildFails(w) \/ FailSecurity(w) \/ FinishSecurity(w)
           \/ FinishOptional(w) \/ \E c \in wk[w].batch : DeferRow(w, c)
    PROVE  AllWelcome' /\ NoSurprise
<1>0. "SKIPPED" \in Statuses /\ "SENT" \in Statuses /\ Verdict(w, wk[w].at) \in Statuses
      /\ Verdict(w, wk[w].at) # "SENDING"
  BY DEF Statuses, Verdict
<1>1. CASE \E c \in wk[w].batch : DeferRow(w, c)
  <2>1. PICK c \in wk[w].batch : DeferRow(w, c)
    BY <1>1
  <2> DEFINE ids == {r \in {c.id} : Fenced(row[r], w, c.fence)}
             f == [x \in Rows |-> Deferred(row[x])]
  <2>2. \A r \in ids \cap Rows : Tame(r, f[r], {})
    BY <1>0, TameUpdates
  <2>3. row' = [r \in Rows |-> IF r \in ids
                               THEN RetryGuard(r \in stopped, row[r], f[r])
                               ELSE row[r]]
    BY <2>1 DEF DeferRow, Update
  <2>4. Proceed(w, wk[w].batch \ {c}) /\ UNCHANGED env
    BY <2>1 DEF DeferRow
  <2>5. QED
    <3> HIDE DEF ids, f
    <3>1. QED
      BY <2>2, <2>3, <2>4, ClosingTame
<1>2. CASE SkipRow(w)
  <2> DEFINE ids == {r \in {wk[w].at} : Holds(w) /\ Live(row[r])}
             f == [x \in Rows |-> Settled(row[x], "SKIPPED")]
  <2>2. \A r \in ids \cap Rows : Tame(r, f[r], {})
    BY <1>0, TameUpdates
  <2>3. row' = [r \in Rows |-> IF r \in ids
                               THEN RetryGuard(r \in stopped, row[r], f[r])
                               ELSE row[r]]
    BY <1>2 DEF SkipRow, Update
  <2>4. Proceed(w, Rest(w)) /\ UNCHANGED env
    BY <1>2 DEF SkipRow
  <2>5. QED
    <3> HIDE DEF ids, f
    <3>1. QED
      BY <2>2, <2>3, <2>4, ClosingTame
<1>3. CASE BuildFails(w) \/ FailSecurity(w)
  <2> DEFINE ids == {r \in {wk[w].at} : Holds(w) /\ row[r].status = "PENDING"}
             f == [x \in Rows |-> Rejected(row[x], wk[w].tries + 1)]
  <2>1. CatchFailure(w)
    BY <1>3 DEF BuildFails, FailSecurity
  <2>2. \A r \in ids \cap Rows : Tame(r, f[r], {})
    BY <1>0, TameUpdates
  <2>3. row' = [r \in Rows |-> IF r \in ids
                               THEN RetryGuard(r \in stopped, row[r], f[r])
                               ELSE row[r]]
    BY <2>1 DEF CatchFailure, Update
  <2>4. Proceed(w, Rest(w)) /\ UNCHANGED env
    BY <2>1 DEF CatchFailure
  <2>5. QED
    <3> HIDE DEF ids, f
    <3>1. QED
      BY <2>2, <2>3, <2>4, ClosingTame
<1>4. CASE FinishSecurity(w)
  <2> DEFINE ids == {r \in {wk[w].at} : Holds(w) /\ row[r].status = "PENDING"}
             f == [x \in Rows |-> [Settled(row[x], "SENT") EXCEPT !.attempts = @ + 1]]
  <2>2. ASSUME NEW r \in ids \cap Rows
        PROVE  Tame(r, f[r], {})
    <3>1. row[r] \in Row
      BY DEF IInv, TypeOK
    <3>2. "status" \in DOMAIN f[r] /\ f[r].status = "SENT"
      BY <3>1 DEF Row, Settled
    <3>3. QED
      BY <3>2 DEF Tame, QueuedFor
  <2>3. row' = [r \in Rows |-> IF r \in ids
                               THEN RetryGuard(r \in stopped, row[r], f[r])
                               ELSE row[r]]
    BY <1>4 DEF FinishSecurity, Update
  <2>4. Proceed(w, Rest(w)) /\ UNCHANGED env
    BY <1>4 DEF FinishSecurity
  <2>5. QED
    <3> HIDE DEF ids, f
    <3>1. QED
      BY <2>2, <2>3, <2>4, ClosingTame
<1>5. CASE FinishOptional(w)
  <2> DEFINE at == wk[w].at
             settles == /\ row[at].attempt = w /\ row[at].started
                        /\ \/ row[at].status \in {"SENDING", "UNCERTAIN"}
                           \/ wk[w].pc = "accepted" /\ row[at].status = "CANCELLED"
             ids == IF settles THEN {at} ELSE {}
             f == [x \in Rows |-> Settled(row[x], Verdict(w, at))]
  <2>2. \A r \in ids \cap Rows : Tame(r, f[r], {})
    <3>1. \A r \in Rows : Tame(r, Settled(row[r], Verdict(w, at)), {})
      BY <1>0, TameUpdates
    <3>2. QED
      BY <3>1
  <2>3. row' = [r \in Rows |-> IF r \in ids
                               THEN RetryGuard(r \in stopped, row[r], f[r])
                               ELSE row[r]]
    BY <1>5 DEF FinishOptional, Update
  <2>4. Proceed(w, Rest(w)) /\ UNCHANGED env
    BY <1>5 DEF FinishOptional
  <2>5. QED
    <3> HIDE DEF ids, f
    <3>1. QED
      BY <2>2, <2>3, <2>4, ClosingTame
<1>6. QED
  BY <1>1, <1>2, <1>3, <1>4, <1>5

(* A lease goes to a dispatcher that has still to read what it leased.       *)
LEMMA LeasingTame ==
    ASSUME IInv, AllWelcome, NEW w \in Workers, LeaseBatch(w)
    PROVE  AllWelcome' /\ NoSurprise
<1> DEFINE ids == IF up = {} THEN {} ELSE Leasable
           f == [x \in Rows |-> Leased(row[x], w)]
<1>1. ASSUME NEW r \in ids \cap Rows
      PROVE  Tame(r, f[r], {w})
  <2>1. row[r] \in Row /\ row[r].status = "PENDING"
    BY DEF IInv, TypeOK, Leasable, Pending
  <2>2. "status" \in DOMAIN f[r] /\ f[r].status = "PENDING" /\ f[r].lease = w
    BY <2>1 DEF Row, Leased
  <2>3. QED
    BY <2>2 DEF Tame, QueuedFor
<1>2. row' = [r \in Rows |-> IF r \in ids
                             THEN RetryGuard(r \in stopped, row[r], f[r])
                             ELSE row[r]]
  BY DEF LeaseBatch, Update
<1>3. \A r \in Rows : Tame(r, row'[r], {w})
  <2> HIDE DEF ids, f
  <2>1. QED
    BY <1>1, <1>2, TameRows
<1>4. /\ mailOn' = mailOn /\ topic' = topic
      /\ \E b : Proceed(w, b)
  BY DEF LeaseBatch, env
<1>5. /\ \A v \in Workers : wk'[v] = wk[v] \/ wk'[v].pc # "decide"
      /\ wk'[w].pc # "decide"
  BY <1>4 DEF IInv, TypeOK, Proceed, Goto, Idle
<1>6. QED
  BY <1>3, <1>4, <1>5, TameStep

------------------------------------------------------------------------------
(* The admission: what was checked with the row still holds, and the rest is *)
(* checked again.                                                            *)
LEMMA AdmittingTame ==
    ASSUME IInv, AllWelcome, NEW w \in Workers, Admit(w)
    PROVE  AllWelcome' /\ NoSurprise
<1> DEFINE at == wk[w].at
           withheld == holder[at] # "reader"
           spent == row[at].attempts >= MaxAttempts
           s == IF withheld THEN "CANCELLED" ELSE "FAILED"
<1>1. /\ wk[w].pc = "decide" /\ wk[w].ok /\ at \in Optional /\ at \in Rows
      /\ row[at] \in Row /\ UNCHANGED env
      /\ s \in Statuses /\ s # "SENDING"
  BY DEF Admit, IInv, TypeOK, Rows, Statuses
<1>2. CASE AdmitRefused(w)
  <2>1. row' = row /\ mailOn' = mailOn /\ topic' = topic /\ Proceed(w, Rest(w))
    BY <1>1, <1>2 DEF Admit, env
  <2>2. QED
    BY <2>1, Leaving, UnwrittenTame
<1>3. CASE ~AdmitRefused(w) /\ (withheld \/ spent)
  <2> DEFINE f == [x \in Rows |-> Settled(row[x], s)]
  <2>1. \A r \in {at} \cap Rows : Tame(r, f[r], {})
    <3> HIDE DEF s
    <3>1. QED
      BY <1>1, TameUpdates
  <2>2. Update({at}, LAMBDA x : Settled(x, s)) /\ Proceed(w, Rest(w))
    BY <1>3 DEF Admit
  <2>3. row' = [r \in Rows |-> IF r \in {at}
                               THEN RetryGuard(r \in stopped, row[r], f[r])
                               ELSE row[r]]
    BY <2>2 DEF Update
  <2>4. QED
    <3> HIDE DEF f, at
    <3>1. QED
      BY <1>1, <2>1, <2>2, <2>3, ClosingTame
<1>4. CASE ~AdmitRefused(w) /\ ~withheld /\ ~spent
  <2> DEFINE x == AttemptBy(row[at], w)
  <2>1. /\ Update({at}, LAMBDA y : AttemptBy(y, w))
        /\ Goto(w, [wk[w] EXCEPT !.pc = "send"])
    BY <1>4 DEF Admit
  <2>2. x.status = "SENDING"
    BY <1>1, RowStatuses
  <2>3. RetryGuard(at \in stopped, row[at], x) = x
    BY <1>4 DEF AdmitRefused, RetryGuard
  <2>4. row'[at].status = "SENDING" /\ \A r \in Rows \ {at} : row'[r] = row[r]
    BY <1>1, <2>1, <2>2, <2>3 DEF Update
  <2>5. QueuedFor(row[at], w)
    BY <1>4 DEF AdmitRefused, Admissible, Fenced, QueuedFor
  <2>6. Welcome(at)
    BY <1>1, <1>4, <2>5 DEF AllWelcome, StillWelcome, Welcome, AdmitRefused
  <2>7. NoSurprise
    BY <1>1, <2>4, <2>6 DEF NoSurprise, Admits, Rows
  <2>8. \A r \in Optional, v \in Workers : QueuedFor(row'[r], v) => QueuedFor(row[r], v)
    BY <2>4 DEF QueuedFor, Rows
  <2>9. \A v \in Workers : wk'[v] = wk[v] \/ wk'[v].pc # "decide"
    BY <1>1, <2>1 DEF IInv, TypeOK, Goto, Worker
  <2>10. mailOn' = mailOn /\ topic' = topic
    BY <1>1 DEF env
  <2>11. AllWelcome'
    <3>1. \A r \in Optional, v \in Workers \ {} : QueuedFor(row'[r], v) => QueuedFor(row[r], v)
      BY <2>8
    <3>2. \A r \in Optional : mailOn /\ topic[r] # "off" => mailOn' /\ topic'[r] # "off"
      BY <2>10
    <3>3. \A v \in Workers \cap {} : wk'[v].pc # "decide"
      OBVIOUS
    <3>4. QED
      BY <2>9, <3>1, <3>2, <3>3, KnowledgeKept
  <2>12. QED
    BY <2>7, <2>11
<1>5. QED
  BY <1>2, <1>3, <1>4

------------------------------------------------------------------------------
(* The other writers, and time.                                              *)
LEMMA OutsideTame ==
    ASSUME IInv, AllWelcome, NEW ids, NEW f,
           \A r \in ids \cap Rows : Tame(r, f[r], {}),
           row' = [r \in Rows |-> IF r \in ids
                                  THEN RetryGuard(r \in stopped, row[r], f[r])
                                  ELSE row[r]],
           wk' = wk,
           \A r \in Optional : mailOn /\ topic[r] # "off" /\ row'[r].status = "PENDING" =>
              mailOn' /\ topic'[r] # "off"
    PROVE  AllWelcome' /\ NoSurprise
<1>1. \A r \in Rows : Tame(r, row'[r], {})
  BY TameRows
<1>2. QED
  BY <1>1, TameStep

(* Queued rows that an update settles are queued no more.                    *)
LEMMA SettledAway ==
    ASSUME IInv, NEW ids, NEW f, NEW s \in {"SKIPPED", "CANCELLED"},
           \A r \in ids \cap Rows : Tame(r, f[r], {}) /\ f[r].status = s,
           row' = [r \in Rows |-> IF r \in ids
                                  THEN RetryGuard(r \in stopped, row[r], f[r])
                                  ELSE row[r]],
           NEW q \in Rows, row[q].status = "PENDING" => q \in ids
    PROVE  row'[q].status # "PENDING"
<1>1. CASE q \in ids
  <2>1. row'[q] = RetryGuard(q \in stopped, row[q], f[q]) /\ f[q].status = s
    BY <1>1
  <2>2. RetryGuard(q \in stopped, row[q], f[q]) = f[q]
    BY <2>1 DEF RetryGuard
  <2>3. QED
    BY <2>1, <2>2
<1>2. CASE q \notin ids
  BY <1>2
<1>3. QED
  BY <1>1, <1>2

LEMMA ClosingTopicTame ==
    ASSUME IInv, AllWelcome, NEW q \in Optional, OptOut(q)
    PROVE  AllWelcome' /\ NoSurprise
<1> DEFINE ids == Pending({q})
           f == [x \in Rows |-> Settled(row[x], "SKIPPED")]
<1>1. ASSUME NEW r \in ids \cap Rows
      PROVE  Tame(r, f[r], {}) /\ f[r].status = "SKIPPED"
  <2>1. row[r] \in Row /\ "SKIPPED" \in Statuses
    BY DEF IInv, TypeOK, Statuses
  <2>2. QED
    BY <2>1, TameUpdates, SettledType
<1>2. row' = [r \in Rows |-> IF r \in ids
                             THEN RetryGuard(r \in stopped, row[r], f[r])
                             ELSE row[r]]
  BY DEF OptOut, Update
<1>3. q \in Rows /\ (row[q].status = "PENDING" => q \in ids)
  BY DEF Rows, Pending
<1>4. row'[q].status # "PENDING"
  <2> HIDE DEF ids, f
  <2>1. QED
    BY <1>1, <1>2, <1>3, SettledAway
<1>5. wk' = wk /\ mailOn' = mailOn /\ \A r \in Optional \ {q} : topic'[r] = topic[r]
  BY DEF OptOut, local, IInv, TypeOK
<1>6. QED
  <2> HIDE DEF ids, f
  <2>1. QED
    BY <1>1, <1>2, <1>4, <1>5, OutsideTame

LEMMA ClosingProgrammeTame ==
    ASSUME IInv, AllWelcome, DisableMail
    PROVE  AllWelcome' /\ NoSurprise
<1> DEFINE ids == Pending(Optional)
           f == [x \in Rows |-> [row[x] EXCEPT !.status = "SKIPPED"]]
<1>1. ASSUME NEW r \in ids \cap Rows
      PROVE  Tame(r, f[r], {}) /\ f[r].status = "SKIPPED"
  <2>1. row[r] \in Row /\ "SKIPPED" \in Statuses
    BY DEF IInv, TypeOK, Statuses
  <2>2. f[r].status = "SKIPPED"
    BY <2>1 DEF Row
  <2>3. QED
    BY <2>1, <2>2, TameUpdates
<1>2. row' = [r \in Rows |-> IF r \in ids
                             THEN RetryGuard(r \in stopped, row[r], f[r])
                             ELSE row[r]]
  BY DEF DisableMail, Update
<1>3. ASSUME NEW q \in Optional
      PROVE  row'[q].status # "PENDING"
  <2>1. q \in Rows /\ (row[q].status = "PENDING" => q \in ids)
    BY DEF Rows, Pending
  <2> HIDE DEF ids, f
  <2>2. QED
    BY <1>1, <1>2, <2>1, SettledAway
<1>4. wk' = wk
  BY DEF DisableMail, local
<1>5. QED
  <2> HIDE DEF ids, f
  <2>1. QED
    BY <1>1, <1>2, <1>3, <1>4, OutsideTame

LEMMA ReopeningTame ==
    ASSUME IInv, AllWelcome,
           \/ \E r \in Optional : OptIn(r)
           \/ EnableMail
           \/ \E c \in Transports : ChangeTransport(c)
           \/ \E r \in Rows : Suspend(r)
    PROVE  AllWelcome' /\ NoSurprise
<1>1. row' = row /\ wk' = wk /\ (mailOn' = mailOn \/ mailOn')
  BY DEF OptIn, EnableMail, ChangeTransport, Suspend, local
<1>2. \A r \in Optional : topic[r] # "off" => topic'[r] # "off"
  BY DEF OptIn, EnableMail, ChangeTransport, Suspend, IInv, TypeOK
<1>3. QED
  BY <1>1, <1>2, UnwrittenTame

LEMMA ResendingTame ==
    ASSUME IInv, AllWelcome, ResendStuck
    PROVE  AllWelcome' /\ NoSurprise
<1> DEFINE ids == {r \in Rows : Resendable(r)}
           f == [x \in Rows |-> Requeued(row[x])]
<1>1. \A r \in ids \cap Rows : Tame(r, f[r], {})
  BY TameUpdates DEF Statuses
<1>2. row' = [r \in Rows |-> IF r \in ids
                             THEN RetryGuard(r \in stopped, row[r], f[r])
                             ELSE row[r]]
  BY DEF ResendStuck, Update
<1>3. wk' = wk /\ mailOn' = mailOn /\ topic' = topic
  BY DEF ResendStuck, env, local
<1>4. QED
  <2> HIDE DEF ids, f
  <2>1. QED
    BY <1>1, <1>2, <1>3, OutsideTame

LEMMA WithdrawingTame ==
    ASSUME IInv, AllWelcome, NEW q \in Rows, CorrectOwnership(q) \/ RetireAccount(q)
    PROVE  AllWelcome' /\ NoSurprise
<1>1. CASE CorrectOwnership(q)
  <2> DEFINE ids == {x \in Pending({q}) : ~row[x].started}
             f == [x \in Rows |-> Settled(row[x], "CANCELLED")]
  <2>1. \A r \in ids \cap Rows : Tame(r, f[r], {})
    BY TameUpdates DEF Statuses
  <2>2. row' = [r \in Rows |-> IF r \in ids
                               THEN RetryGuard(r \in stopped, row[r], f[r])
                               ELSE row[r]]
    BY <1>1 DEF CorrectOwnership, Update
  <2>3. wk' = wk /\ mailOn' = mailOn /\ topic' = topic
    BY <1>1 DEF CorrectOwnership, local
  <2>4. QED
    <3> HIDE DEF ids, f
    <3>1. QED
      BY <2>1, <2>2, <2>3, OutsideTame
<1>2. CASE RetireAccount(q)
  <2> DEFINE ids == Pending({q})
             f == [x \in Rows |-> [row[x] EXCEPT !.status = "CANCELLED"]]
  <2>1. \A r \in ids \cap Rows : Tame(r, f[r], {})
    BY TameUpdates DEF Statuses
  <2>2. row' = [r \in Rows |-> IF r \in ids
                               THEN RetryGuard(r \in stopped, row[r], f[r])
                               ELSE row[r]]
    BY <1>2 DEF RetireAccount, Update
  <2>3. wk' = wk /\ mailOn' = mailOn /\ topic' = topic
    BY <1>2 DEF RetireAccount, local
  <2>4. QED
    <3> HIDE DEF ids, f
    <3>1. QED
      BY <2>1, <2>2, <2>3, OutsideTame
<1>3. QED
  BY <1>1, <1>2

(* One row changes outside any retry guard: recovery cancels it, its lease   *)
(* runs out, or its back-off ends.                                           *)
LEMMA OneRowTame ==
    ASSUME IInv, AllWelcome, NEW q \in Rows,
           CancelEffects(q) \/ LeaseRunsOut(q) \/ WorkerOverruns(q) \/ BackoffEnds(q)
    PROVE  AllWelcome' /\ NoSurprise
<1> DEFINE y == Settled(row[q], "CANCELLED")
           z == [y EXCEPT !.attempt = NoWorker]
<1>0. row \in [Rows -> Row] /\ row[q] \in Row /\ "CANCELLED" \in Statuses
  BY DEF IInv, TypeOK, Statuses
<1>1. /\ y \in Row /\ y.status = "CANCELLED"
      /\ "status" \in DOMAIN z /\ z.status = "CANCELLED"
  <2>1. y \in Row /\ y.status = "CANCELLED"
    BY <1>0, SettledType
  <2> HIDE DEF y
  <2>2. QED
    BY <2>1 DEF Row
<1>2. PICK x : /\ row' = [row EXCEPT ![q] = x]
               /\ x \in {z, row[q], [row[q] EXCEPT !.expired = TRUE],
                         [row[q] EXCEPT !.due = TRUE]}
  BY <1>0 DEF CancelEffects, LeaseRunsOut, WorkerOverruns, BackoffEnds
<1>3. Tame(q, x, {})
  <2>1. \/ x = z
        \/ "status" \in DOMAIN x /\ x.status = row[q].status /\ x.lease = row[q].lease
    <3> HIDE DEF y, z
    <3>1. QED
      BY <1>0, <1>2 DEF Row
  <2> HIDE DEF y, z
  <2>2. QED
    BY <1>1, <2>1 DEF Tame, QueuedFor
<1>4. ASSUME NEW r \in Rows
      PROVE  Tame(r, row'[r], {})
  <2>1. CASE r = q
    BY <1>0, <1>2, <1>3, <2>1
  <2>2. CASE r # q
    BY <1>0, <1>2, <2>2 DEF Tame, Row
  <2>3. QED
    BY <2>1, <2>2
<1>5. wk' = wk /\ mailOn' = mailOn /\ topic' = topic
  BY DEF CancelEffects, LeaseRunsOut, WorkerOverruns, BackoffEnds, env, local
<1>6. QED
  BY <1>4, <1>5, TameStep

------------------------------------------------------------------------------
LEMMA AdmissionStep == IInv /\ AllWelcome /\ [Next]_vars => AllWelcome' /\ NoSurprise
<1> SUFFICES ASSUME IInv, AllWelcome, [Next]_vars
             PROVE  AllWelcome' /\ NoSurprise
  OBVIOUS
<1>1. CASE Environment
  <2>1. CASE \E r \in Optional : OptOut(r)
    BY <2>1, ClosingTopicTame
  <2>2. CASE DisableMail
    BY <2>2, ClosingProgrammeTame
  <2>3. CASE \/ \E r \in Optional : OptIn(r)
             \/ EnableMail
             \/ \E c \in Transports : ChangeTransport(c)
             \/ \E r \in Rows : Suspend(r)
    BY <2>3, ReopeningTame
  <2>4. CASE ResendStuck
    BY <2>4, ResendingTame
  <2>5. CASE \/ \E r \in Optional : CorrectOwnership(r)
             \/ \E r \in Rows : RetireAccount(r)
    BY <2>5, WithdrawingTame DEF Rows
  <2>6. CASE \E r \in Rows : CancelEffects(r)
    BY <2>6, OneRowTame
  <2>7. QED
    BY <1>1, <2>1, <2>2, <2>3, <2>4, <2>5, <2>6 DEF Environment
<1>2. CASE Mishap \/ Time
  BY <1>2, OneRowTame, SweepingTame, IdlingTame DEF Mishap, Time
<1>3. CASE \E w \in Workers : Dispatch(w)
  <2>1. PICK w \in Workers : Dispatch(w)
    BY <1>3
  <2>2. CASE Sweep(w) \/ SkipBacklog(w)
    BY <2>2, SweepingTame
  <2>3. CASE \/ ReadSettings(w) \/ BeginSecurity(w) \/ FinishOptionalFails(w)
             \/ \E c \in wk[w].batch : PassRow(w, c)
             \/ \E taken, heard \in BOOLEAN : Transmit(w, taken, heard)
    BY <2>3, IdlingTame
  <2>4. CASE \/ SkipRow(w) \/ BuildFails(w) \/ FailSecurity(w) \/ FinishSecurity(w)
             \/ FinishOptional(w) \/ \E c \in wk[w].batch : DeferRow(w, c)
    BY <2>4, HandlingTame
  <2>5. CASE \E c \in wk[w].batch, other \in BOOLEAN : ReadRow(w, c, other)
    BY <2>5, ReadingTame
  <2>6. CASE LeaseBatch(w) \/ Admit(w)
    BY <2>6, LeasingTame, AdmittingTame
  <2>7. QED
    BY <2>1, <2>2, <2>3, <2>4, <2>5, <2>6 DEF Dispatch
<1>4. CASE UNCHANGED vars
  <2>1. row' = row /\ wk' = wk /\ mailOn' = mailOn /\ topic' = topic
    BY <1>4 DEF vars
  <2>2. QED
    BY <2>1, UnwrittenTame
<1>5. QED
  BY <1>1, <1>2, <1>3, <1>4 DEF Next

(* No optional message is admitted while programme mail is off, after its    *)
(* topic was declined, for an account that may not read it or once recovery  *)
(* stopped it, although admitIdentityNotice reads neither the switch nor the *)
(* preference: deliverNotifications read them before.                        *)
THEOREM WelcomeOnly == Spec => AdmittedOnlyIfWelcome
<1>1. Init => AllWelcome
  BY DEF Init, Idle, AllWelcome, StillWelcome
<1>2. IInv /\ AllWelcome /\ [Next]_vars => AllWelcome' /\ NoSurprise
  BY AdmissionStep
<1>3. NoSurprise => \A r \in Optional : Admits(r) =>
                      /\ mailOn /\ topic[r] # "off"
                      /\ holder[r] = "reader" /\ r \notin stopped
  BY DEF NoSurprise, Welcome
<1>4. QED
  BY <1>1, <1>2, <1>3, Invariance, PTL DEF Spec, AdmittedOnlyIfWelcome

=============================================================================
