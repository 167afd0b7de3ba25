------------------------------ MODULE Approvals ------------------------------
(***************************************************************************)
(* The approval queue: a coordinator's change of a record is stored as a   *)
(* proposal with the evidence it was made on; an Admin or the Head decides *)
(* it later, in one transaction that compares the evidence, replays the    *)
(* operation and records the decision.                                     *)
(*                                                                         *)
(* Submission and direct edits run READ COMMITTED, a decision SERIALIZABLE *)
(* except for attendance operations.  A serializable decision reads the    *)
(* database as of its first statement, which is before it waits for the    *)
(* lock of the request, and fails when it writes a row that changed since. *)
(* The other transactions do not run serializably, so nothing else of its  *)
(* snapshot is checked again.  An attendance approval reads live data      *)
(* under the locks of the writers.                                         *)
(***************************************************************************)
EXTENDS Naturals

CONSTANTS Users,
          Requests,        \* ApprovalRequest ids
          Decisions,       \* decide calls that can run at the same time
          Submissions,     \* submissions that can run at the same time
          Ordinary,        \* operations by what their approval fences:
          Identity,        \*   nothing, both actors' rows,
          Attendance,      \*   actors and record without a snapshot
          Official,        \*   actors' rows; Head only
          Nobody,
          MaxChanges,      \* bound: direct edits of the record, of the settings
          MaxRoleChanges   \* bound

Ops == Ordinary \cup Identity \cup Attendance \cup Official

ASSUME OpsAssumption ==
    /\ Ordinary \cap (Identity \cup Attendance \cup Official) = {}
    /\ Identity \cap (Attendance \cup Official) = {}
    /\ Attendance \cap Official = {}
ASSUME NobodyAssumption == Nobody \notin Users \cup Ops
ASSUME BoundsAssumption == MaxChanges \in Nat /\ MaxRoleChanges \in Nat

VARIABLES
    role,       \* User.role; "NONE": no management rank, suspended or merged
    target,     \* stamp of the last change of the record the proposals write
    context,    \* stamp of the last change of settings, features and period
    req,        \* ApprovalRequest
    tx,         \* the decide calls in progress
    sub,        \* the submissions in progress
    applied,    \* ghost: how often a proposal was applied
    moves       \* role changes so far

vars == <<role, target, context, req, tx, sub, applied, moves>>

Roles == {"HEAD", "ADMIN", "COORDINATOR", "NONE"}
States == {"none", "PENDING", "APPROVED", "REJECTED", "CANCELLED"}
Evidence == [target : Nat, context : Nat]

NoEvidence == [target |-> 0, context |-> 0]
NoRequest == [state |-> "none", by |-> Nobody, op |-> Nobody,
              seen |-> NoEvidence, reviewer |-> Nobody]
Request == [state : States, by : Users \cup {Nobody}, op : Ops \cup {Nobody},
            seen : Evidence, reviewer : Users \cup {Nobody}]

(* What a decision reads: the ranks of its two actors, the records and the   *)
(* state of the request.                                                     *)
View == [reviewer : Roles, requester : Roles, now : Evidence, state : States]

(* "fence": about to lock the actors' rows.  "wait": waiting for the lock of *)
(* the request.  "apply": holding it, all checks passed.                     *)
Decision == [pc : {"fence", "wait", "apply"}, who : Users, of : Requests,
             approve : BOOLEAN, view : View]
NoDecision == [pc |-> "idle"]

Submission == [pc : {"compare", "insert"}, by : Users, op : Ops, seen : Evidence]
NoSubmission == [pc |-> "idle"]

TypeOK ==
    /\ role \in [Users -> Roles]
    /\ target \in Nat /\ context \in Nat
    /\ req \in [Requests -> Request]
    /\ tx \in [Decisions -> Decision \cup {NoDecision}]
    /\ sub \in [Submissions -> Submission \cup {NoSubmission}]
    /\ applied \in [Requests -> Nat]
    /\ moves \in 0 .. MaxRoleChanges

Init ==
    /\ role \in {f \in [Users -> Roles] :
                   \A u, v \in Users : f[u] = "HEAD" /\ f[v] = "HEAD" => u = v}
    /\ target = 0 /\ context = 0
    /\ req = [r \in Requests |-> NoRequest]
    /\ tx = [d \in Decisions |-> NoDecision]
    /\ sub = [p \in Submissions |-> NoSubmission]
    /\ applied = [r \in Requests |-> 0]
    /\ moves = 0

(* classifyApproval                                                         *)
DirectRoles(op) == IF op \in Official THEN {"HEAD"} ELSE {"ADMIN", "HEAD"}
RequesterRoles(op) == IF op \in Official THEN {"ADMIN", "HEAD"}
                      ELSE {"COORDINATOR", "ADMIN", "HEAD"}
ReviewerRoles(op) == IF op \in Official THEN {"HEAD"} ELSE {"ADMIN", "HEAD"}

Now == [target |-> target, context |-> context]
Pending(r) == req[r].state = "PENDING"

------------------------------------------------------------------------------
(* Locks: they are held to the end of the transaction. *)

OpOf(d) == req[tx[d].of].op
Actors(d) == {tx[d].who, req[tx[d].of].by}

(* Only an approval fences its actors; a rejection is serializable.         *)
Fences(d) == tx[d].approve /\ OpOf(d) \notin Ordinary

(* READ COMMITTED: every statement reads what is committed by then.         *)
ReadsLive(d) == tx[d].approve /\ OpOf(d) \in Attendance

(* SELECT ... FOR SHARE on the rows of requester and reviewer.              *)
ActorLocked(u) ==
    \E d \in Decisions : tx[d].pc \in {"wait", "apply"} /\ Fences(d) /\ u \in Actors(d)

(* lockAttendanceApprovalTarget, the lock every writer of the record takes. *)
TargetLockedBy(d) == tx[d].pc = "apply" /\ ReadsLive(d)
TargetFree(others) == \A d \in others : ~TargetLockedBy(d)

(* lockEntity(approval:<id>)                                                *)
RequestFree(r) == \A d \in Decisions : tx[d].pc = "apply" => tx[d].of # r

------------------------------------------------------------------------------
(* Submitting a change: protectedProcedure, queueProposal *)

(* Who may change the record directly does.                                 *)
DirectChange(u, op) ==
    /\ role[u] \in DirectRoles(op)
    /\ target < MaxChanges /\ TargetFree(Decisions)
    /\ target' = target + 1
    /\ UNCHANGED <<role, context, req, tx, sub, applied, moves>>

(* Variant: submissions of one user do not wait for each other.             *)
ProposalAlwaysFree(u, op) == op \in Ops

(* lockEntity(proposal:<user>:<operation>:<payload>)                        *)
ProposalFree(u, op) ==
    \A p \in Submissions : sub[p].pc # "idle" => sub[p].by # u \/ sub[p].op # op

(* The role is checked and the evidence read in several statements: the     *)
(* records first, the settings later.                                       *)
Capture(p, u, op) ==
    /\ sub[p].pc = "idle"
    /\ role[u] \in RequesterRoles(op) \ DirectRoles(op)
    /\ ProposalFree(u, op)
    /\ sub' = [sub EXCEPT ![p] = [pc |-> "compare", by |-> u, op |-> op, seen |-> Now]]
    /\ UNCHANGED <<role, target, context, req, tx, applied, moves>>

Same(r, q) == req[r].by = q.by /\ req[r].op = q.op /\ req[r].seen = q.seen

(* An unchanged proposal that is still pending is returned, not repeated.   *)
Compare(p) ==
    LET q == [sub[p] EXCEPT !.pc = "insert", !.seen.context = context]
    IN  /\ sub[p].pc = "compare"
        /\ sub' = [sub EXCEPT ![p] = IF \E r \in Requests : Pending(r) /\ Same(r, q)
                                     THEN NoSubmission ELSE q]
        /\ UNCHANGED <<role, target, context, req, tx, applied, moves>>

Insert(p, r) ==
    /\ sub[p].pc = "insert" /\ req[r].state = "none"
    /\ req' = [req EXCEPT ![r] = [state |-> "PENDING", by |-> sub[p].by, op |-> sub[p].op,
                                  seen |-> sub[p].seen, reviewer |-> Nobody]]
    /\ sub' = [sub EXCEPT ![p] = NoSubmission]
    /\ UNCHANGED <<role, target, context, tx, applied, moves>>

(* Validation fails, or the transaction times out.                          *)
Abandon(p) ==
    /\ sub[p].pc # "idle"
    /\ sub' = [sub EXCEPT ![p] = NoSubmission]
    /\ UNCHANGED <<role, target, context, req, tx, applied, moves>>

------------------------------------------------------------------------------
(* Deciding: approval.decide *)

(* Variant: a requester's rank is read as the audit log prints it.           *)
LiveUnavailable(u, r) == [reviewer |-> role[u], requester |-> "UNAVAILABLE",
                          now |-> Now, state |-> req[r].state]

Live(u, r) == [reviewer |-> role[u], requester |-> role[req[r].by],
               now |-> Now, state |-> req[r].state]

Ends(d) == tx' = [tx EXCEPT ![d] = NoDecision]
settings == <<role, target, context, req, sub, applied, moves>>

(* The first statement of the transaction takes its snapshot.  A call for a *)
(* request that is decided by then only fails.                              *)
Decide(d, u, r, approve) ==
    /\ tx[d].pc = "idle" /\ role[u] \in {"HEAD", "ADMIN"} /\ Pending(r)
    /\ tx' = [tx EXCEPT ![d] =
                [pc |-> IF approve /\ req[r].op \notin Ordinary THEN "fence" ELSE "wait",
                 who |-> u, of |-> r, approve |-> approve, view |-> Live(u, r)]]
    /\ UNCHANGED settings

(* Variant: the actors' rows are locked without looking whether they moved. *)
FenceHoldsAlways(d) == tx[d].of \in Requests

(* A row changed since the snapshot cannot be locked by a serializable      *)
(* transaction; without a snapshot it can.                                  *)
FenceHolds(d) ==
    \/ ReadsLive(d)
    \/ /\ role[tx[d].who] = tx[d].view.reviewer
       /\ role[req[tx[d].of].by] = tx[d].view.requester

Fence(d) ==
    /\ tx[d].pc = "fence"
    /\ tx' = [tx EXCEPT ![d] = IF FenceHolds(d) THEN [@ EXCEPT !.pc = "wait"] ELSE NoDecision]
    /\ UNCHANGED settings

(* Variant: an attendance approval decides on its first reading, too.       *)
ViewAtStart(d) == tx[d].view

ViewOf(d) == IF ReadsLive(d) THEN Live(tx[d].who, tx[d].of) ELSE tx[d].view

(* Variant: the evidence is not compared.                                   *)
PermittedUnseen(d, v) ==
    /\ v.reviewer \in ReviewerRoles(OpOf(d)) /\ v.state = "PENDING"
    /\ tx[d].approve => v.requester \in RequesterRoles(OpOf(d))

(* The checks of reviewer, state, self-review, requester and evidence.      *)
Permitted(d, v) ==
    LET r == req[tx[d].of]
    IN  /\ v.reviewer \in ReviewerRoles(r.op)
        /\ v.state = "PENDING"
        /\ r.by = tx[d].who => v.reviewer = "HEAD"
        /\ tx[d].approve => v.requester \in RequesterRoles(r.op) /\ v.now = r.seen

Check(d) ==
    /\ tx[d].pc = "wait"
    /\ RequestFree(tx[d].of) /\ (ReadsLive(d) => TargetFree(Decisions))
    /\ IF Permitted(d, ViewOf(d))
       THEN tx' = [tx EXCEPT ![d].pc = "apply", ![d].view = ViewOf(d)]
       ELSE Ends(d)
    /\ UNCHANGED settings

(* First committer wins: the row of the request, and for an approval the    *)
(* record itself, changed after the snapshot.                               *)
Conflicts(d) ==
    /\ ~ReadsLive(d)
    /\ \/ req[tx[d].of].state # tx[d].view.state
       \/ tx[d].approve /\ target # tx[d].view.now.target

(* Replay of the operation, decision, audit and notification commit as one. *)
Commit(d) ==
    LET r == tx[d].of
    IN  /\ tx[d].pc = "apply" /\ ~Conflicts(d)
        /\ tx[d].approve => TargetFree(Decisions \ {d})
        /\ req' = [req EXCEPT ![r].state = IF tx[d].approve THEN "APPROVED" ELSE "REJECTED",
                              ![r].reviewer = tx[d].who]
        /\ IF tx[d].approve
           THEN target' = target + 1 /\ applied' = [applied EXCEPT ![r] = @ + 1]
           ELSE UNCHANGED <<target, applied>>
        /\ Ends(d)
        /\ UNCHANGED <<role, context, sub, moves>>

(* A write conflict, a refusal of the replayed operation, a missing          *)
(* confirmation or a timeout: nothing of the transaction remains.            *)
Rollback(d) ==
    /\ tx[d].pc # "idle"
    /\ Ends(d)
    /\ UNCHANGED settings

(* approval.cancel, READ COMMITTED under the lock of the request.           *)
Cancel(u, r) ==
    /\ RequestFree(r) /\ req[r].by = u /\ Pending(r)
    /\ req' = [req EXCEPT ![r].state = "CANCELLED"]
    /\ UNCHANGED <<role, target, context, tx, sub, applied, moves>>

------------------------------------------------------------------------------
(* The rest of the system *)

(* setUserRole, setMemberships, departure, suspension, combination.         *)
ChangeRole(u, new) ==
    /\ role[u] # "HEAD" /\ new \in Roles \ {"HEAD", role[u]}
    /\ ~ActorLocked(u) /\ moves < MaxRoleChanges
    /\ role' = [role EXCEPT ![u] = new]
    /\ moves' = moves + 1
    /\ UNCHANGED <<target, context, req, tx, sub, applied>>

(* transferHead                                                             *)
TransferLeadership(h, u) ==
    /\ role[h] = "HEAD" /\ role[u] \in {"ADMIN", "COORDINATOR"}
    /\ ~ActorLocked(h) /\ ~ActorLocked(u) /\ moves < MaxRoleChanges
    /\ role' = [role EXCEPT ![h] = "ADMIN", ![u] = "HEAD"]
    /\ moves' = moves + 1
    /\ UNCHANGED <<target, context, req, tx, sub, applied>>

(* A setting, a feature or the period changes: no decision locks these rows. *)
ChangeContext ==
    /\ context < MaxChanges
    /\ context' = context + 1
    /\ UNCHANGED <<role, target, req, tx, sub, applied, moves>>

Submit(p) ==
    \/ \E u \in Users, op \in Ops : Capture(p, u, op)
    \/ Compare(p) \/ Abandon(p)
    \/ \E r \in Requests : Insert(p, r)

Review(d) ==
    \/ \E u \in Users, r \in Requests, approve \in BOOLEAN : Decide(d, u, r, approve)
    \/ Fence(d) \/ Check(d) \/ Commit(d) \/ Rollback(d)

Manage ==
    \/ \E u \in Users, op \in Ops : DirectChange(u, op)
    \/ \E u \in Users, r \in Requests : Cancel(u, r)
    \/ \E u \in Users, new \in Roles : ChangeRole(u, new)
    \/ \E h, u \in Users : TransferLeadership(h, u)
    \/ ChangeContext

Next == \/ \E p \in Submissions : Submit(p)
        \/ \E d \in Decisions : Review(d)
        \/ Manage

Spec == Init /\ [][Next]_vars

------------------------------------------------------------------------------
(* Properties *)

(* Competing reviewers, retries and a cancellation on top never apply a      *)
(* proposal twice, and it counts as approved exactly when it was applied.    *)
AppliedOnce ==
    \A r \in Requests : applied[r] = IF req[r].state = "APPROVED" THEN 1 ELSE 0

(* A repeated or parallel submission of the same unchanged change does not   *)
(* give the reviewers two requests.                                          *)
OnePendingPerProposal ==
    \A r, q \in Requests : Pending(r) /\ Pending(q) /\ Same(r, req[q]) => r = q

Applies(r) == req[r].state # "APPROVED" /\ req'[r].state = "APPROVED"

(* An approval that fences its actors takes effect while requester and       *)
(* reviewer still have their rank, and on an own proposal only for the Head. *)
ActorsStillEntitled ==
    [][\A r \in Requests : Applies(r) /\ req[r].op \notin Ordinary =>
          LET who == req'[r].reviewer
          IN  /\ role[who] \in ReviewerRoles(req[r].op)
              /\ role[req[r].by] \in RequesterRoles(req[r].op)
              /\ who = req[r].by => role[who] = "HEAD"]_vars

(* The comment of proposalTargets: comparing the evidence prevents applying  *)
(* a proposal after the records it captured, settings included, changed.     *)
ContextAsReviewed ==
    [][\A r \in Requests : Applies(r) => context = req[r].seen.context]_vars

Contract == INSTANCE ApprovalContract WITH
    record <- target,
    proposal <- [r \in Requests |-> [state |-> req[r].state, at |-> req[r].seen.target]]

(* A proposal is decided once, finally, and applied only to the state of the *)
(* record that its evidence describes.                                       *)
KeepsContract == Contract!CSpec

=============================================================================
