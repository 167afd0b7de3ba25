--------------------------- MODULE ScheduledRefresh ---------------------------
(***************************************************************************)
(* The change of the program period: a Head applies it at once, or reviews *)
(* it and has the server apply it at a set time.  Every server instance    *)
(* runs a worker that sweeps the due schedules; the period barrier         *)
(* (lockNextRecruitment) makes each transaction below one step, but a      *)
(* sweep is many of them, and between two the schedule, the reviewed       *)
(* settings and the Head may change.  Times are those of the database.     *)
(***************************************************************************)
EXTENDS Naturals, Sequences, FiniteSets

CONSTANTS Users,          \* the accounts that hold or held the Head role
          FirstHead,
          Instances,      \* server processes
          Last,           \* number of terms; the last one has no successor
          Zones,          \* program time zones
          FirstZone,
          MaxAttempts,    \* failed executions of one authorization (5 in the code)
          MaxTime,        \* bound: clock
          MaxVersion,     \* bound: authorizations and cancellations of a term
          MaxChanges,     \* bound: settings saved, changes of authority, reverts
          MaxFaults,      \* bound: errors, lost replies and restarts
          NoRow

Terms == 1 .. Last
Times == 0 .. MaxTime

ASSUME LastAssumption == Last \in Nat /\ Last >= 1
ASSUME FirstAssumption == FirstHead \in Users /\ FirstZone \in Zones
ASSUME BoundsAssumption ==
    /\ MaxAttempts \in Nat \ {0} /\ MaxTime \in Nat
    /\ MaxVersion \in Nat /\ MaxChanges \in Nat /\ MaxFaults \in Nat

VARIABLES
    clock,
    active,      \* the active Term
    created,     \* the latest Term that exists
    prep,        \* NextRecruitmentPreparation of the tutees, by source term
    staged,      \* ProgramFeature: revision, and whether a change is pending
    zone,        \* ProgramSettings.timeZone
    user,        \* role, suspension and refreshAuthorityRevision
    row,         \* ScheduledProgramRefresh, by source term
    worker,      \* the sweep of each instance
    notices,     \* ghost: terminal notices since the latest authorization
    failures,    \* ghost: executions that failed since then
    lapsed,      \* ghost: its Head's authority or its review changed since then
    changes, faults

settings == <<prep, staged, zone>>
ghosts == <<notices, failures, lapsed>>
vars == <<clock, active, created, prep, staged, zone, user, row, worker,
          notices, failures, lapsed, changes, faults>>

States == {"SCHEDULED", "BLOCKED", "FAILED", "CANCELLED", "COMPLETED"}
Terminal == {"COMPLETED", "BLOCKED", "FAILED"}     \* terminalNotice

(* What a Head reviewed: NextRecruitmentRefreshEvidence.  Preparations and   *)
(* staged features are known by their revision, the zone by its value, the   *)
(* destination by whether its Term exists.                                   *)
Evidence == [source : Terms, prep : Nat, staged : Nat, zone : Zones, reused : BOOLEAN]

Row == [state : States, version : Nat, at : Times, by : Users, authority : Nat,
        seen : Evidence, attempts : 0 .. MaxAttempts]
ASSUME NoRowAssumption == NoRow \notin Row

Item == Terms \X Nat       \* what the sweep selected: id and version
Idle == [pc |-> "idle", queue |-> << >>]
Worker == {Idle} \cup [pc : {"execute", "record"}, queue : Seq(Item) \ {<< >>}]

TypeOK ==
    /\ clock \in Times /\ active \in Terms /\ created \in Terms
    /\ prep \in [Terms -> [version : Nat, opens : Times]]
    /\ staged \in [revision : Nat, pending : BOOLEAN]
    /\ zone \in Zones
    /\ user \in [Users -> [head : BOOLEAN, suspended : BOOLEAN, revision : Nat]]
    /\ row \in [Terms -> Row \cup {NoRow}]
    /\ worker \in [Instances -> Worker]
    /\ notices \in [Terms -> Nat] /\ failures \in [Terms -> Nat]
    /\ lapsed \in [Terms -> BOOLEAN]
    /\ changes \in 0 .. MaxChanges /\ faults \in 0 .. MaxFaults

Init ==
    /\ clock = 0 /\ active = 1 /\ created = 1
    /\ prep = [t \in Terms |-> [version |-> 0, opens |-> 0]]
    /\ staged = [revision |-> 0, pending |-> FALSE]
    /\ zone = FirstZone
    /\ user = [u \in Users |-> [head |-> u = FirstHead, suspended |-> FALSE, revision |-> 0]]
    /\ row = [t \in Terms |-> NoRow]
    /\ worker = [i \in Instances |-> Idle]
    /\ notices = [t \in Terms |-> 0] /\ failures = [t \in Terms |-> 0]
    /\ lapsed = [t \in Terms |-> FALSE]
    /\ changes = 0 /\ faults = 0

(* readLockedNextRecruitment                                                *)
Current == [source |-> active, prep |-> prep[active].version,
            staged |-> staged.revision, zone |-> zone, reused |-> active < created]

(* assertNextRecruitmentActor: the live row decides, not the session.       *)
IsHead(u) == user[u].head /\ ~user[u].suspended

Version(t) == IF row[t] = NoRow THEN 0 ELSE row[t].version

------------------------------------------------------------------------------
(* Settings a refresh is reviewed on *)

(* saveNextRecruitment: an opening of the next period; 0 clears it.         *)
Prepare(opens) ==
    /\ changes < MaxChanges /\ changes' = changes + 1
    /\ prep' = [prep EXCEPT ![active] = [version |-> @.version + 1, opens |-> opens]]
    /\ lapsed' = [lapsed EXCEPT ![active] = TRUE]
    /\ UNCHANGED <<clock, active, created, staged, zone, user, row, worker, notices, failures, faults>>

(* setFeaturePending; saving the value in force again withdraws the change. *)
StageFeature ==
    /\ changes < MaxChanges /\ changes' = changes + 1
    /\ staged' = [revision |-> staged.revision + 1, pending |-> ~staged.pending]
    /\ lapsed' = [t \in Terms |-> TRUE]
    /\ UNCHANGED <<clock, active, created, prep, zone, user, row, worker, notices, failures, faults>>

SetTimeZone(z) ==
    /\ z # zone
    /\ changes < MaxChanges /\ changes' = changes + 1
    /\ zone' = z
    /\ UNCHANGED <<clock, active, created, prep, staged, user, row, worker, ghosts, faults>>

------------------------------------------------------------------------------
(* Who may authorize *)

(* Variant: only losing the role counts as a change of authority.           *)
AdvanceOnDemotion(u, head, suspended) ==
    [head |-> head, suspended |-> suspended,
     revision |-> IF user[u].head /\ ~head
                  THEN user[u].revision + 1 ELSE user[u].revision]

(* Trigger User_refresh_authority_revision: any change of role or           *)
(* suspension, also the one that restores what was there before.            *)
Advance(u, head, suspended) ==
    [head |-> head, suspended |-> suspended,
     revision |-> IF head # user[u].head \/ suspended # user[u].suspended
                  THEN user[u].revision + 1 ELSE user[u].revision]

ChangeAuthority(changed) ==
    /\ changes < MaxChanges /\ changes' = changes + 1
    /\ lapsed' = [t \in Terms |-> lapsed[t] \/ (row[t] # NoRow /\ row[t].by \in changed)]
    /\ UNCHANGED <<clock, active, created, settings, row, worker, notices, failures, faults>>

(* The Head hands over the role.                                            *)
TransferHead(u, v) ==
    /\ u # v /\ user[u].head
    /\ user' = [user EXCEPT ![u] = Advance(u, FALSE, @.suspended),
                            ![v] = Advance(v, TRUE, @.suspended)]
    /\ ChangeAuthority({u, v})

SetSuspension(u) ==
    /\ user' = [user EXCEPT ![u] = Advance(u, @.head, ~@.suspended)]
    /\ ChangeAuthority({u})

------------------------------------------------------------------------------
(* Scheduling *)

(* scheduleProgramRefresh, with a review and a version that are current: any *)
(* other call is refused and changes nothing.                                *)
Schedule(u, at) ==
    LET t == active IN
    /\ t < Last /\ IsHead(u)
    /\ Version(t) < MaxVersion
    /\ row[t] # NoRow => row[t].state # "COMPLETED"
    /\ at > clock
    /\ prep[t].opens > clock => at <= prep[t].opens
    /\ row' = [row EXCEPT ![t] =
                 [state |-> "SCHEDULED", version |-> Version(t) + 1, at |-> at, by |-> u,
                  authority |-> user[u].revision, seen |-> Current, attempts |-> 0]]
    /\ notices' = [notices EXCEPT ![t] = 0]
    /\ failures' = [failures EXCEPT ![t] = 0]
    /\ lapsed' = [lapsed EXCEPT ![t] = FALSE]
    /\ UNCHANGED <<clock, active, created, settings, user, worker, changes, faults>>

(* cancelProgramRefresh                                                     *)
Cancel(u, t) ==
    /\ IsHead(u)
    /\ row[t] # NoRow /\ row[t].state \in {"SCHEDULED", "BLOCKED", "FAILED"}
    /\ row[t].version < MaxVersion
    /\ row' = [row EXCEPT ![t].state = "CANCELLED", ![t].version = @ + 1]
    /\ UNCHANGED <<clock, active, created, settings, user, worker, ghosts, changes, faults>>

------------------------------------------------------------------------------
(* Activation *)

(* applyProgramRefresh under a review that still holds: staged features take *)
(* effect, the destination term is created or used again.                    *)
Activate ==
    /\ active' = active + 1
    /\ created' = IF created < active + 1 THEN active + 1 ELSE created
    /\ staged' = IF staged.pending
                 THEN [revision |-> staged.revision + 1, pending |-> FALSE] ELSE staged
    /\ UNCHANGED <<prep, zone>>

(* admin.refresh                                                            *)
RefreshNow(u) ==
    /\ IsHead(u) /\ active < Last
    /\ Activate
    /\ UNCHANGED <<clock, user, row, worker, ghosts, changes, faults>>

(* The recovery of a refresh: the source is active again; schedules, staged  *)
(* settings and preparations stay.                                           *)
Revert ==
    /\ active > 1 /\ created = active
    /\ changes < MaxChanges /\ changes' = changes + 1
    /\ active' = active - 1
    /\ UNCHANGED <<clock, created, settings, user, row, worker, ghosts, faults>>

------------------------------------------------------------------------------
(* The worker of a server instance *)

Due(t) == row[t] # NoRow /\ row[t].state = "SCHEDULED" /\ row[t].at <= clock

(* Variant: a row whose execution failed is not selected again.             *)
SelectableOnce == {t \in Terms : Due(t) /\ row[t].attempts = 0}

Selectable == {t \in Terms : Due(t)}

(* processDueScheduledRefreshes selects the due rows by time, then one by    *)
(* one.  A sweep that finds none is over.                                    *)
Sweep(i) ==
    /\ worker[i].pc = "idle"
    /\ Selectable # {}
    /\ \E q \in [1 .. Cardinality(Selectable) -> Selectable] :
         /\ \A j, k \in DOMAIN q : j < k => q[j] # q[k] /\ row[q[j]].at <= row[q[k]].at
         /\ worker' = [worker EXCEPT ![i] =
              [pc |-> "execute",
               queue |-> [k \in DOMAIN q |-> <<q[k], row[q[k]].version>>]]]
    /\ UNCHANGED <<clock, active, created, settings, user, row, ghosts, changes, faults>>

(* Variant: the loop does not notice that its list is used up.              *)
FinishedNever(w) == [pc |-> "execute", queue |-> Tail(w.queue)]

(* The loop goes on with the next row it selected.                          *)
Finished(w) == IF Len(w.queue) = 1 THEN Idle ELSE [pc |-> "execute", queue |-> Tail(w.queue)]
Failing(w) == [w EXCEPT !.pc = "record"]

(* validateAuthorization                                                    *)
StillReviewed(t) == row[t].seen = Current
StillAuthorized(t) == IsHead(row[t].by) /\ user[row[t].by].revision = row[t].authority

Ends(t, state) ==
    /\ row' = [row EXCEPT ![t].state = state, ![t].version = @ + 1]
    /\ notices' = [notices EXCEPT ![t] = @ + 1]

(* Variant: the sweep trusts the list it selected.                          *)
ExecutesSelected(t) ==
    IF row[t] # NoRow /\ StillReviewed(t) /\ StillAuthorized(t)
    THEN Activate /\ Ends(t, "COMPLETED")
    ELSE Ends(t, "BLOCKED") /\ UNCHANGED <<active, created, settings>>

(* processScheduledRefresh: the row is read again under the barrier.        *)
Executes(t) ==
    IF Due(t)
    THEN IF StillReviewed(t) /\ StillAuthorized(t)
         THEN Activate /\ Ends(t, "COMPLETED")
         ELSE Ends(t, "BLOCKED") /\ UNCHANGED <<active, created, settings>>
    ELSE UNCHANGED <<active, created, settings, row, notices>>

Execute(i) ==
    /\ worker[i].pc = "execute"
    /\ Executes(Head(worker[i].queue)[1])
    /\ worker' = [worker EXCEPT ![i] = Finished(@)]
    /\ UNCHANGED <<clock, user, failures, lapsed, changes, faults>>

(* The transaction commits, but its reply is lost.                          *)
ExecuteUnheard(i) ==
    /\ worker[i].pc = "execute" /\ faults < MaxFaults
    /\ faults' = faults + 1
    /\ Executes(Head(worker[i].queue)[1])
    /\ worker' = [worker EXCEPT ![i] = Failing(@)]
    /\ UNCHANGED <<clock, user, failures, lapsed, changes>>

(* The transaction fails and rolls back.                                    *)
ExecuteFails(i) ==
    /\ worker[i].pc = "execute" /\ faults < MaxFaults
    /\ faults' = faults + 1
    /\ worker' = [worker EXCEPT ![i] = Failing(@)]
    /\ failures' = [failures EXCEPT ![Head(worker[i].queue)[1]] = @ + 1]
    /\ UNCHANGED <<clock, active, created, settings, user, row, notices, lapsed, changes>>

(* Variant: the failure is charged to whatever is scheduled now.            *)
RecordsUnversioned(t, version) ==
    IF row[t] # NoRow /\ row[t].state = "SCHEDULED"
    THEN LET n == row[t].attempts + 1
             over == n >= MaxAttempts
         IN  /\ row' = [row EXCEPT ![t].attempts = n, ![t].version = @ + 1,
                                 ![t].state = IF over THEN "FAILED" ELSE @]
             /\ notices' = [notices EXCEPT ![t] = IF over THEN @ + 1 ELSE @]
    ELSE UNCHANGED <<row, notices>>

(* recordScheduledRefreshFailure                                            *)
Records(t, version) ==
    IF row[t] # NoRow /\ row[t].state = "SCHEDULED" /\ row[t].version = version
    THEN LET n == row[t].attempts + 1
             over == n >= MaxAttempts
         IN  /\ row' = [row EXCEPT ![t].attempts = n, ![t].version = @ + 1,
                                 ![t].state = IF over THEN "FAILED" ELSE @]
             /\ notices' = [notices EXCEPT ![t] = IF over THEN @ + 1 ELSE @]
    ELSE UNCHANGED <<row, notices>>

Record(i) ==
    /\ worker[i].pc = "record"
    /\ LET item == Head(worker[i].queue) IN Records(item[1], item[2])
    /\ worker' = [worker EXCEPT ![i] = Finished(@)]
    /\ UNCHANGED <<clock, active, created, settings, user, failures, lapsed, changes, faults>>

(* The process restarts, or the failure cannot be recorded: the sweep ends.  *)
Abandon(i) ==
    /\ worker[i].pc # "idle" /\ faults < MaxFaults
    /\ faults' = faults + 1
    /\ worker' = [worker EXCEPT ![i] = Idle]
    /\ UNCHANGED <<clock, active, created, settings, user, row, ghosts, changes>>

Tick ==
    /\ clock < MaxTime /\ clock' = clock + 1
    /\ UNCHANGED <<active, created, settings, user, row, worker, ghosts, changes, faults>>

Work(i) == Sweep(i) \/ Execute(i) \/ ExecuteUnheard(i) \/ ExecuteFails(i) \/ Record(i)

Next ==
    \/ \E opens \in Times : Prepare(opens)
    \/ StageFeature
    \/ \E z \in Zones : SetTimeZone(z)
    \/ \E u, v \in Users : TransferHead(u, v)
    \/ \E u \in Users : SetSuspension(u) \/ RefreshNow(u)
    \/ \E u \in Users, at \in Times : Schedule(u, at)
    \/ \E u \in Users, t \in Terms : Cancel(u, t)
    \/ Revert
    \/ \E i \in Instances : Work(i) \/ Abandon(i)
    \/ Tick

Spec == Init /\ [][Next]_vars

(* The interval timer sweeps again and again and a started sweep goes on;    *)
(* nobody has to schedule, cancel or change anything.                        *)
FairSpec == Spec /\ WF_vars(Tick) /\ \A i \in Instances : WF_vars(Work(i))

------------------------------------------------------------------------------
(* Management hears of the end of an authorization exactly once, whatever    *)
(* replies are lost and however many instances sweep (terminalNotice).       *)
NoticedOnce ==
    \A t \in Terms : row[t] # NoRow =>
        /\ row[t].state \in Terminal => notices[t] = 1
        /\ row[t].state = "SCHEDULED" => notices[t] = 0

(* An authorization is charged only with executions that failed while it was *)
(* in force: neither a committed one whose reply was lost, nor a failure of  *)
(* an earlier authorization, brings it nearer to FAILED.                     *)
ChargedForOwnFailures ==
    \A t \in Terms : row[t] # NoRow => row[t].attempts <= failures[t]

grant == [t \in Terms |->
            IF row[t] = NoRow THEN "none"
            ELSE CASE row[t].state = "COMPLETED" -> "spent"
                   [] row[t].state = "SCHEDULED" /\ ~lapsed[t] -> "live"
                   [] OTHER -> "void"]
Granted == INSTANCE RefreshGrant

(* The schedule implements the one-shot grant: every change of the period by *)
(* a worker spends, in the same step, a grant of the term that was active;   *)
(* one whose Head lost the authority, even for a moment, whose review was    *)
(* overtaken, or that was cancelled, blocked or given up is never spent.     *)
OneShot == Granted!Spec

(* A due schedule is carried out, blocked, given up or put off: it does not  *)
(* stay due for ever, although attempts fail and instances restart.          *)
DueSettles ==
    \A t \in Terms : Due(t) ~> ~Due(t)
===============================================================================
