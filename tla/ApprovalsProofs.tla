--------------------------- MODULE ApprovalsProofs ---------------------------
(***************************************************************************)
(* Theorems about Approvals, for every set of users, requests, operations  *)
(* and concurrent transactions.  The invariant says what a transaction     *)
(* that passed its checks may rely on: its own reading satisfied the       *)
(* checks, and what it locked is still as it read it.                      *)
(***************************************************************************)
EXTENDS Approvals, TLAPS

(* A filed request has a requester and an operation, and was not made on a   *)
(* later state of the record than the present one.                           *)
Filed ==
    \A r \in Requests : req[r].state # "none" =>
        req[r].by \in Users /\ req[r].op \in Ops /\ req[r].seen.target <= target

Deciding == \A d \in Decisions : tx[d].pc # "idle" => req[tx[d].of].state # "none"

Checked == \A d \in Decisions : tx[d].pc = "apply" => Permitted(d, tx[d].view)

(* The lock of a request has one holder.                                     *)
Alone == \A d, e \in Decisions :
            tx[d].pc = "apply" /\ tx[e].pc = "apply" /\ tx[d].of = tx[e].of => d = e

(* Without a snapshot, the locks keep request and record as they were read.  *)
Locked == \A d \in Decisions : TargetLockedBy(d) =>
             Pending(tx[d].of) /\ tx[d].view.now.target = target

(* Fenced actors keep the rank that was read.                                *)
ActorsHeld ==
    \A d \in Decisions :
        /\ tx[d].pc \in {"wait", "apply"} /\ Fences(d)
        /\ tx[d].pc = "wait" => ~ReadsLive(d)
        => /\ role[tx[d].who] = tx[d].view.reviewer
           /\ role[req[tx[d].of].by] = tx[d].view.requester

(* The lock of a proposal has one holder, and what it is about to insert is  *)
(* not there yet.                                                            *)
Distinct == \A p, q \in Submissions :
               /\ sub[p].pc # "idle" /\ sub[q].pc # "idle"
               /\ sub[p].by = sub[q].by /\ sub[p].op = sub[q].op
               => p = q
Fresh == \A p \in Submissions : sub[p].pc = "insert" =>
            \A r \in Requests : Pending(r) => ~Same(r, sub[p])
Earlier == \A p \in Submissions : sub[p].pc # "idle" => sub[p].seen.target <= target

IInv == /\ TypeOK /\ Filed /\ Deciding /\ Checked /\ Alone /\ Locked /\ ActorsHeld
        /\ Distinct /\ Fresh /\ Earlier
        /\ AppliedOnce /\ OnePendingPerProposal

-----------------------------------------------------------------------------
(* The actions by the variables they change. *)

SubmitStep(p) == \/ \E u \in Users, op \in Ops : Capture(p, u, op)
                 \/ Compare(p) \/ Abandon(p)

OnlyRoles == \/ \E u \in Users, new \in Roles : ChangeRole(u, new)
             \/ \E h, u \in Users : TransferLeadership(h, u)

OnlyContext == ChangeContext
OnlyTarget == \E u \in Users, op \in Ops : DirectChange(u, op)

(* A decision that begins, fences or ends without effect.                    *)
Quiet(d) ==
    \/ \E u \in Users, r \in Requests, approve \in BOOLEAN : Decide(d, u, r, approve)
    \/ Fence(d) \/ Rollback(d)

(* Every step is of one of these kinds.                                      *)
LEMMA Steps ==
    ASSUME [Next]_vars
    PROVE  \/ UNCHANGED vars
           \/ \E p \in Submissions : SubmitStep(p)
           \/ \E p \in Submissions, r \in Requests : Insert(p, r)
           \/ \E d \in Decisions : Quiet(d)
           \/ \E d \in Decisions : Check(d)
           \/ \E d \in Decisions : Commit(d)
           \/ \E u \in Users, r \in Requests : Cancel(u, r)
           \/ OnlyRoles \/ OnlyContext \/ OnlyTarget
  BY DEF Next, Submit, Review, Manage, SubmitStep, Quiet, OnlyRoles, OnlyContext, OnlyTarget

LEMMA InitHolds == Init => IInv
  <1> SUFFICES ASSUME Init PROVE IInv
    OBVIOUS
  <1>1. TypeOK
    <2>1. role \in [Users -> Roles] /\ moves \in 0 .. MaxRoleChanges
      BY BoundsAssumption DEF Init
    <2>2. req \in [Requests -> Request]
      BY DEF Init, NoRequest, Request, NoEvidence, Evidence, States
    <2>3. QED
      BY <2>1, <2>2 DEF Init, TypeOK
  <1>2. Filed /\ AppliedOnce /\ OnePendingPerProposal
    BY DEF Init, Filed, AppliedOnce, OnePendingPerProposal, Pending, NoRequest
  <1>3. Deciding /\ Checked /\ Alone /\ Locked /\ ActorsHeld
    BY DEF Init, Deciding, Checked, Alone, Locked, TargetLockedBy, ActorsHeld, NoDecision
  <1>4. Distinct /\ Fresh /\ Earlier
    <2>1. \A p \in Submissions : sub[p].pc = "idle"
      BY DEF Init, NoSubmission
    <2>2. QED
      BY <2>1 DEF Distinct, Fresh, Earlier
  <1>5. QED
    BY <1>1, <1>2, <1>3, <1>4 DEF IInv

(* What an active transaction is made of.                                    *)
LEMMA Active ==
    ASSUME TypeOK, NEW d \in Decisions, tx[d].pc # "idle"
    PROVE  tx[d] \in Decision
  BY DEF TypeOK, NoDecision

LEMMA Submitting ==
    ASSUME TypeOK, NEW p \in Submissions, sub[p].pc # "idle"
    PROVE  sub[p] \in Submission
  BY DEF TypeOK, NoSubmission

(* The kinds of step keep the types.                                         *)
LEMMA TypeStep ==
    ASSUME IInv, [Next]_vars
    PROVE  TypeOK'
  <1> USE DEF TypeOK
  <1>0. TypeOK /\ Filed /\ Deciding
    BY DEF IInv
  <1>1. CASE UNCHANGED vars
    BY <1>0, <1>1 DEF vars
  <1>2. ASSUME NEW p \in Submissions, SubmitStep(p) PROVE TypeOK'
    <2>1. CASE \E u \in Users, op \in Ops : Capture(p, u, op)
      BY <1>0, <2>1 DEF Capture, Submission, Now, Evidence
    <2>2. CASE Compare(p)
      <3>1. sub[p] \in Submission
        BY <1>0, <2>2, Submitting DEF Compare
      <3>2. [sub[p] EXCEPT !.pc = "insert", !.seen.context = context] \in Submission
        BY <1>0, <3>1 DEF Submission, Evidence
      <3>3. QED
        BY <1>0, <2>2, <3>2 DEF Compare
    <2>3. CASE Abandon(p)
      BY <1>0, <2>3 DEF Abandon
    <2>4. QED
      BY <1>2, <2>1, <2>2, <2>3 DEF SubmitStep
  <1>3. ASSUME NEW p \in Submissions, NEW r \in Requests, Insert(p, r) PROVE TypeOK'
    <2>1. sub[p] \in Submission
      BY <1>0, <1>3, Submitting DEF Insert
    <2>2. req' \in [Requests -> Request]
      BY <1>0, <1>3, <2>1 DEF Insert, Submission, Request, States
    <2>3. QED
      BY <1>0, <1>3, <2>2 DEF Insert
  <1>4. ASSUME NEW d \in Decisions, Quiet(d) PROVE TypeOK'
    <2>1. ASSUME NEW u \in Users, NEW r \in Requests, NEW approve \in BOOLEAN,
                 Decide(d, u, r, approve)
          PROVE  TypeOK'
      <3>1. req[r].by \in Users /\ req[r].state \in States
        BY <1>0, <2>1 DEF Decide, Pending, Filed, Request
      <3>2. Live(u, r) \in View
        BY <1>0, <3>1 DEF Live, View, Now, Evidence
      <3>3. QED
        BY <1>0, <2>1, <3>2 DEF Decide, Decision, settings
    <2>2. CASE Fence(d)
      <3>1. tx[d] \in Decision
        BY <1>0, <2>2, Active DEF Fence
      <3>2. [tx[d] EXCEPT !.pc = "wait"] \in Decision
        BY <3>1 DEF Decision
      <3>3. QED
        BY <1>0, <2>2, <3>2 DEF Fence, settings
    <2>3. CASE Rollback(d)
      BY <1>0, <2>3 DEF Rollback, Ends, settings
    <2>4. QED
      BY <1>4, <2>1, <2>2, <2>3 DEF Quiet
  <1>5. ASSUME NEW d \in Decisions, Check(d) PROVE TypeOK'
    <2>1. tx[d] \in Decision
      BY <1>0, <1>5, Active DEF Check
    <2>2. req[tx[d].of].by \in Users /\ req[tx[d].of].state \in States
      BY <1>0, <1>5, <2>1 DEF Check, Deciding, Filed, Decision, Request
    <2>3. ViewOf(d) \in View
      BY <1>0, <2>1, <2>2 DEF ViewOf, Live, View, Now, Evidence, Decision
    <2>4. tx' \in [Decisions -> Decision \cup {NoDecision}]
      <3>1. CASE Permitted(d, ViewOf(d))
        <4>1. tx' = [tx EXCEPT ![d].pc = "apply", ![d].view = ViewOf(d)]
          BY <1>5, <3>1 DEF Check
        <4>2. [[tx[d] EXCEPT !.pc = "apply"] EXCEPT !.view = ViewOf(d)] \in Decision
          BY <2>1, <2>3 DEF Decision
        <4>3. QED
          BY <1>0, <4>1, <4>2
      <3>2. CASE ~Permitted(d, ViewOf(d))
        BY <1>0, <1>5, <3>2 DEF Check, Ends
      <3>3. QED
        BY <3>1, <3>2
    <2>5. QED
      BY <1>0, <1>5, <2>4 DEF Check, settings
  <1>6. ASSUME NEW d \in Decisions, Commit(d) PROVE TypeOK'
    <2>1. tx[d] \in Decision
      BY <1>0, <1>6, Active DEF Commit
    <2>2. req' \in [Requests -> Request]
      BY <1>0, <1>6, <2>1 DEF Commit, Decision, Request, States
    <2>3. target' \in Nat /\ applied' \in [Requests -> Nat]
      BY <1>0, <1>6, <2>1 DEF Commit, Decision
    <2>4. QED
      BY <1>0, <1>6, <2>2, <2>3 DEF Commit, Ends
  <1>7. ASSUME NEW u \in Users, NEW r \in Requests, Cancel(u, r) PROVE TypeOK'
    <2>1. req' \in [Requests -> Request]
      BY <1>0, <1>7 DEF Cancel, Request, States
    <2>2. QED
      BY <1>0, <1>7, <2>1 DEF Cancel
  <1>8. CASE OnlyRoles
    <2>1. ASSUME NEW u \in Users, NEW new \in Roles, ChangeRole(u, new) PROVE TypeOK'
      BY <1>0, <2>1, BoundsAssumption DEF ChangeRole
    <2>2. ASSUME NEW h \in Users, NEW u \in Users, TransferLeadership(h, u) PROVE TypeOK'
      BY <1>0, <2>2, BoundsAssumption DEF TransferLeadership, Roles
    <2>3. QED
      BY <1>8, <2>1, <2>2 DEF OnlyRoles
  <1>9. CASE OnlyContext
    BY <1>0, <1>9 DEF OnlyContext, ChangeContext
  <1>10. CASE OnlyTarget
    BY <1>0, <1>10 DEF OnlyTarget, DirectChange
  <1>11. QED
    BY <1>1, <1>2, <1>3, <1>4, <1>5, <1>6, <1>7, <1>8, <1>9, <1>10, Steps

-----------------------------------------------------------------------------
(* Most steps leave requests and decisions alone; what is said of them then  *)
(* only depends on the record and the ranks.                                 *)

LEMMA FiledStep ==
    ASSUME IInv, [Next]_vars
    PROVE  Filed'
  <1> USE DEF Filed
  <1>0. TypeOK /\ Filed /\ Earlier
    BY DEF IInv
  <1>1. CASE UNCHANGED vars
    BY <1>0, <1>1 DEF vars
  <1>2. ASSUME NEW p \in Submissions, SubmitStep(p) PROVE Filed'
    BY <1>0, <1>2 DEF SubmitStep, Capture, Compare, Abandon
  <1>3. ASSUME NEW p \in Submissions, NEW r \in Requests, Insert(p, r) PROVE Filed'
    <2>1. sub[p] \in Submission /\ sub[p].seen.target <= target
      BY <1>0, <1>3, Submitting DEF Insert, Earlier
    <2>2. QED
      BY <1>0, <1>3, <2>1 DEF Insert, Submission, TypeOK
  <1>4. ASSUME NEW d \in Decisions, Quiet(d) \/ Check(d) PROVE Filed'
    BY <1>0, <1>4 DEF Quiet, Decide, Fence, Rollback, Check, settings
  <1>5. ASSUME NEW d \in Decisions, Commit(d) PROVE Filed'
    <2>1. tx[d] \in Decision /\ req[tx[d].of].state # "none"
      BY <1>0, <1>5, Active DEF Commit, IInv, Deciding
    <2>2. target' \in {target, target + 1}
      BY <1>5 DEF Commit
    <2>3. ASSUME NEW r \in Requests
          PROVE  /\ req'[r].by = req[r].by /\ req'[r].op = req[r].op
                 /\ req'[r].seen = req[r].seen
                 /\ req'[r].state # "none" => req[r].state # "none"
      BY <1>0, <1>5, <2>1 DEF Commit, TypeOK, Request, Decision
    <2>4. ASSUME NEW r \in Requests PROVE req[r].seen.target \in Nat /\ target \in Nat
      BY <1>0 DEF TypeOK, Request, Evidence
    <2>5. QED
      BY <1>0, <2>2, <2>3, <2>4
  <1>6. ASSUME NEW u \in Users, NEW r \in Requests, Cancel(u, r) PROVE Filed'
    BY <1>0, <1>6 DEF Cancel, TypeOK, Request, Pending
  <1>7. CASE OnlyRoles \/ OnlyContext
    BY <1>0, <1>7 DEF OnlyRoles, ChangeRole, TransferLeadership, OnlyContext, ChangeContext
  <1>8. CASE OnlyTarget
    <2>1. target' = target + 1 /\ req' = req
      BY <1>8 DEF OnlyTarget, DirectChange
    <2>2. ASSUME NEW r \in Requests PROVE req[r].seen.target \in Nat /\ target \in Nat
      BY <1>0 DEF TypeOK, Request, Evidence
    <2>3. QED
      BY <1>0, <2>1, <2>2
  <1>9. QED
    BY <1>1, <1>2, <1>3, <1>4, <1>5, <1>6, <1>7, <1>8, Steps

(* The submissions: one per proposal, and none about to repeat a request.    *)
LEMMA SubmissionsStep ==
    ASSUME IInv, [Next]_vars
    PROVE  Distinct' /\ Fresh' /\ Earlier' /\ OnePendingPerProposal'
  <1> USE DEF Distinct, Fresh, Earlier, OnePendingPerProposal, Pending, Same
  <1>0. TypeOK /\ Filed /\ Distinct /\ Fresh /\ Earlier /\ OnePendingPerProposal
    BY DEF IInv
  <1>1. CASE UNCHANGED vars
    BY <1>0, <1>1 DEF vars
  <1>2. ASSUME NEW p \in Submissions, SubmitStep(p)
        PROVE  Distinct' /\ Fresh' /\ Earlier' /\ OnePendingPerProposal'
    <2>1. req' = req /\ target' = target
      BY <1>2 DEF SubmitStep, Capture, Compare, Abandon
    <2>2. CASE \E u \in Users, op \in Ops : Capture(p, u, op)
      BY <1>0, <2>1, <2>2 DEF Capture, ProposalFree, TypeOK, Now
    <2>3. CASE Compare(p)
      <3>1. sub[p] \in Submission
        BY <1>0, <2>3, Submitting DEF Compare
      <3> DEFINE q == [sub[p] EXCEPT !.pc = "insert", !.seen.context = context]
      <3>2. /\ q.pc = "insert" /\ q.by = sub[p].by /\ q.op = sub[p].op
            /\ q.seen.target = sub[p].seen.target
        BY <3>1 DEF Submission, Evidence
      <3>3. CASE \E r \in Requests : Pending(r) /\ Same(r, q)
        <4>1. sub' = [sub EXCEPT ![p] = NoSubmission]
          BY <2>3, <3>3 DEF Compare
        <4>2. QED
          BY <1>0, <2>1, <4>1 DEF TypeOK, NoSubmission
      <3>4. CASE \A r \in Requests : ~(Pending(r) /\ Same(r, q))
        <4>1. sub' = [sub EXCEPT ![p] = q]
          BY <2>3, <3>4 DEF Compare
        <4> HIDE DEF q
        <4>2. QED
          BY <1>0, <2>1, <2>3, <3>2, <3>4, <4>1 DEF TypeOK, Compare
      <3>5. QED
        BY <3>3, <3>4
    <2>4. CASE Abandon(p)
      BY <1>0, <2>1, <2>4 DEF Abandon, TypeOK, NoSubmission
    <2>5. QED
      BY <1>2, <2>2, <2>3, <2>4 DEF SubmitStep
  <1>3. ASSUME NEW p \in Submissions, NEW r \in Requests, Insert(p, r)
        PROVE  Distinct' /\ Fresh' /\ Earlier' /\ OnePendingPerProposal'
    <2>1. sub[p] \in Submission /\ sub[p].pc = "insert"
      BY <1>0, <1>3, Submitting DEF Insert
    <2>2. /\ \A t \in Requests \ {r} : req'[t] = req[t]
          /\ req'[r].by = sub[p].by /\ req'[r].op = sub[p].op /\ req'[r].seen = sub[p].seen
      BY <1>0, <1>3 DEF Insert, TypeOK
    <2>3. /\ \A q \in Submissions \ {p} : sub'[q] = sub[q]
          /\ sub'[p].pc = "idle" /\ target' = target
      BY <1>0, <1>3 DEF Insert, TypeOK, NoSubmission
    <2>4. Distinct' /\ Earlier'
      BY <1>0, <2>3
    <2>5. OnePendingPerProposal'
      BY <1>0, <2>1, <2>2
    <2>6. Fresh'
      BY <1>0, <2>1, <2>2, <2>3
    <2>7. QED
      BY <2>4, <2>5, <2>6
  <1>4. ASSUME NEW d \in Decisions, Quiet(d) \/ Check(d)
        PROVE  Distinct' /\ Fresh' /\ Earlier' /\ OnePendingPerProposal'
    <2>1. UNCHANGED <<req, sub, target>>
      BY <1>4 DEF Quiet, Decide, Fence, Rollback, Check, settings
    <2>2. QED
      BY <1>0, <2>1
  <1>5. ASSUME /\ sub' = sub /\ target' \in {target, target + 1}
               /\ \A r \in Requests :
                     /\ req'[r].by = req[r].by /\ req'[r].op = req[r].op
                     /\ req'[r].seen = req[r].seen
                     /\ req'[r].state = "PENDING" => req[r].state = "PENDING"
        PROVE  Distinct' /\ Fresh' /\ Earlier' /\ OnePendingPerProposal'
    <2>1. ASSUME NEW p \in Submissions, sub[p].pc # "idle"
          PROVE  sub[p].seen.target \in Nat /\ target \in Nat
      BY <1>0, <2>1, Submitting DEF Submission, Evidence, TypeOK
    <2>2. QED
      BY <1>0, <1>5, <2>1
  <1>6. ASSUME NEW d \in Decisions, Commit(d)
        PROVE  Distinct' /\ Fresh' /\ Earlier' /\ OnePendingPerProposal'
    <2>1. tx[d] \in Decision
      BY <1>0, <1>6, Active DEF Commit
    <2>2. QED
      BY <1>0, <1>5, <1>6, <2>1 DEF Commit, TypeOK, Request, Decision
  <1>7. ASSUME NEW u \in Users, NEW r \in Requests, Cancel(u, r)
        PROVE  Distinct' /\ Fresh' /\ Earlier' /\ OnePendingPerProposal'
    BY <1>0, <1>5, <1>7 DEF Cancel, TypeOK, Request
  <1>8. CASE OnlyRoles \/ OnlyContext \/ OnlyTarget
    BY <1>5, <1>8 DEF OnlyRoles, ChangeRole, TransferLeadership, OnlyContext, ChangeContext,
                      OnlyTarget, DirectChange
  <1>9. QED
    BY <1>1, <1>2, <1>3, <1>4, <1>6, <1>7, <1>8, Steps

-----------------------------------------------------------------------------
(* The decisions *)

(* What a request asks for never changes once it is filed.                   *)
LEMMA Immutable ==
    ASSUME IInv, [Next]_vars, NEW r \in Requests, req[r].state # "none"
    PROVE  /\ req'[r].by = req[r].by /\ req'[r].op = req[r].op
           /\ req'[r].seen = req[r].seen /\ req'[r].state # "none"
  <1>0. TypeOK
    BY DEF IInv
  <1>1. CASE UNCHANGED req
    BY <1>1
  <1>2. ASSUME NEW p \in Submissions, NEW q \in Requests, Insert(p, q)
        PROVE  req'[r] = req[r]
    BY <1>0, <1>2 DEF Insert, TypeOK
  <1>3. ASSUME NEW d \in Decisions, Commit(d)
        PROVE  /\ req'[r].by = req[r].by /\ req'[r].op = req[r].op
               /\ req'[r].seen = req[r].seen /\ req'[r].state # "none"
    <2>1. tx[d] \in Decision
      BY <1>0, <1>3, Active DEF Commit
    <2>2. QED
      BY <1>0, <1>3, <2>1 DEF Commit, TypeOK, Request, Decision
  <1>4. ASSUME NEW u \in Users, NEW q \in Requests, Cancel(u, q)
        PROVE  /\ req'[r].by = req[r].by /\ req'[r].op = req[r].op
               /\ req'[r].seen = req[r].seen /\ req'[r].state # "none"
    BY <1>0, <1>4 DEF Cancel, TypeOK, Request
  <1>5. QED
    BY <1>1, <1>2, <1>3, <1>4 DEF Next, Submit, Review, Manage, vars, Capture, Compare, Abandon,
       Decide, Fence, Check, Rollback, settings, DirectChange, ChangeRole, TransferLeadership,
       ChangeContext

(* A decision in progress is about the same request until it ends, and a     *)
(* step that does not take it further leaves its reading alone.              *)
LEMMA Continues ==
    ASSUME IInv, [Next]_vars, NEW d \in Decisions, tx'[d].pc # "idle"
    PROVE  \/ tx'[d] = tx[d]
           \/ \E u \in Users, r \in Requests, approve \in BOOLEAN : Decide(d, u, r, approve)
           \/ Fence(d) /\ FenceHolds(d) /\ tx'[d] = [tx[d] EXCEPT !.pc = "wait"]
           \/ /\ Check(d) /\ Permitted(d, ViewOf(d))
              /\ tx'[d] = [tx[d] EXCEPT !.pc = "apply", !.view = ViewOf(d)]
  <1>0. TypeOK
    BY DEF IInv
  <1>1. ASSUME NEW e \in Decisions, Quiet(e) \/ Check(e) \/ Commit(e), e # d
        PROVE  tx'[d] = tx[d]
    BY <1>0, <1>1 DEF Quiet, Decide, Fence, Rollback, Check, Commit, Ends, TypeOK
  <1>2. CASE Fence(d)
    BY <1>0, <1>2 DEF Fence, TypeOK, NoDecision
  <1>3. CASE Check(d)
    <2>1. CASE Permitted(d, ViewOf(d))
      <3>1. tx' = [tx EXCEPT ![d].pc = "apply", ![d].view = ViewOf(d)]
        BY <1>3, <2>1 DEF Check
      <3>2. tx[d] \in Decision
        BY <1>0, <1>3, Active DEF Check
      <3>3. tx'[d] = [tx[d] EXCEPT !.pc = "apply", !.view = ViewOf(d)]
        BY <1>0, <3>1, <3>2 DEF TypeOK, Decision
      <3>4. QED
        BY <1>3, <2>1, <3>3
    <2>2. CASE ~Permitted(d, ViewOf(d))
      BY <1>0, <1>3, <2>2 DEF Check, Ends, TypeOK, NoDecision
    <2>3. QED
      BY <2>1, <2>2
  <1>4. CASE Commit(d) \/ Rollback(d)
    BY <1>0, <1>4 DEF Commit, Rollback, Ends, TypeOK, NoDecision
  <1>5. CASE UNCHANGED tx
    BY <1>5
  <1>6. QED
    BY <1>1, <1>2, <1>3, <1>4, <1>5 DEF Next, Submit, Review, Manage, vars, Capture, Compare,
       Abandon, Insert, Quiet, DirectChange, Cancel, ChangeRole, TransferLeadership, ChangeContext

LEMMA DecidingStep ==
    ASSUME IInv, [Next]_vars
    PROVE  Deciding' /\ Checked'
  <1>0. TypeOK /\ Deciding /\ Checked
    BY DEF IInv
  <1>1. ASSUME NEW d \in Decisions, tx'[d].pc # "idle"
        PROVE  /\ req'[tx'[d].of].state # "none"
               /\ tx'[d].pc = "apply" => Permitted(d, tx[d].view)'
    <2>0. \/ tx'[d] = tx[d]
          \/ \E u \in Users, r \in Requests, approve \in BOOLEAN : Decide(d, u, r, approve)
          \/ Fence(d) /\ FenceHolds(d) /\ tx'[d] = [tx[d] EXCEPT !.pc = "wait"]
          \/ /\ Check(d) /\ Permitted(d, ViewOf(d))
             /\ tx'[d] = [tx[d] EXCEPT !.pc = "apply", !.view = ViewOf(d)]
      BY <1>1, Continues, Zenon
    <2>1. CASE tx'[d] = tx[d]
      <3>1. tx[d] \in Decision /\ req[tx[d].of].state # "none"
        BY <1>0, <1>1, <2>1, Active DEF Deciding
      <3>2. tx[d].of \in Requests
        BY <3>1 DEF Decision
      <3>3. QED
        BY <1>0, <2>1, <3>1, <3>2, Immutable DEF Checked, Permitted
    <2>2. ASSUME NEW u \in Users, NEW r \in Requests, NEW approve \in BOOLEAN,
                 Decide(d, u, r, approve)
          PROVE  req'[tx'[d].of].state # "none" /\ tx'[d].pc # "apply"
      BY <1>0, <2>2 DEF Decide, Pending, settings, TypeOK
    <2>3. CASE Fence(d) /\ tx'[d] = [tx[d] EXCEPT !.pc = "wait"]
      <3>1. tx[d] \in Decision /\ req[tx[d].of].state # "none"
        BY <1>0, <2>3, Active DEF Deciding, Fence
      <3>2. QED
        BY <2>3, <3>1 DEF Fence, settings, Decision
    <2>4. CASE /\ Check(d) /\ Permitted(d, ViewOf(d))
               /\ tx'[d] = [tx[d] EXCEPT !.pc = "apply", !.view = ViewOf(d)]
      <3>1. tx[d] \in Decision /\ req[tx[d].of].state # "none" /\ req' = req
        BY <1>0, <2>4, Active DEF Deciding, Check, settings
      <3>2. /\ tx'[d].of = tx[d].of /\ tx'[d].who = tx[d].who
            /\ tx'[d].approve = tx[d].approve /\ tx'[d].view = ViewOf(d)
        BY <2>4, <3>1 DEF Decision
      <3>3. QED
        BY <2>4, <3>1, <3>2 DEF Permitted
    <2>5. QED
      BY <2>0, <2>1, <2>2, <2>3, <2>4, Zenon
  <1>2. QED
    BY <1>1 DEF Deciding, Checked

LEMMA AloneStep ==
    ASSUME IInv, [Next]_vars
    PROVE  Alone'
  <1>0. TypeOK /\ Alone
    BY DEF IInv
  <1>1. ASSUME NEW d \in Decisions, tx'[d].pc = "apply"
        PROVE  \/ tx'[d] = tx[d]
               \/ /\ Check(d) /\ tx'[d].of = tx[d].of
                  /\ \A e \in Decisions \ {d} : tx'[e] = tx[e]
    <2>0. \/ tx'[d] = tx[d]
          \/ \E u \in Users, r \in Requests, approve \in BOOLEAN : Decide(d, u, r, approve)
          \/ Fence(d) /\ FenceHolds(d) /\ tx'[d] = [tx[d] EXCEPT !.pc = "wait"]
          \/ /\ Check(d) /\ Permitted(d, ViewOf(d))
             /\ tx'[d] = [tx[d] EXCEPT !.pc = "apply", !.view = ViewOf(d)]
      BY <1>1, Continues
    <2>1. ASSUME NEW u \in Users, NEW r \in Requests, NEW approve \in BOOLEAN,
                 Decide(d, u, r, approve)
          PROVE  FALSE
      BY <1>0, <1>1, <2>1 DEF Decide, TypeOK
    <2>2. CASE Fence(d) /\ tx'[d] = [tx[d] EXCEPT !.pc = "wait"]
      <3>1. tx[d] \in Decision
        BY <1>0, <2>2, Active DEF Fence
      <3>2. QED
        BY <1>1, <2>2, <3>1 DEF Decision
    <2>3. CASE Check(d) /\ tx'[d] = [tx[d] EXCEPT !.pc = "apply", !.view = ViewOf(d)]
      <3>1. tx[d] \in Decision
        BY <1>0, <2>3, Active DEF Check
      <3>2. QED
        BY <1>0, <2>3, <3>1 DEF Decision, Check, Ends, TypeOK
    <2>4. QED
      BY <2>0, <2>1, <2>2, <2>3
  <1>2. ASSUME NEW d \in Decisions, Check(d), NEW e \in Decisions, tx[e].pc = "apply"
        PROVE  tx[e].of # tx[d].of
    BY <1>2 DEF Check, RequestFree
  <1>3. QED
    BY <1>0, <1>1, <1>2 DEF Alone

(* Nothing a READ COMMITTED approval relies on changes under its locks.      *)
LEMMA LockedStep ==
    ASSUME IInv, [Next]_vars
    PROVE  Locked'
  <1>0. TypeOK /\ Deciding /\ Alone /\ Locked
    BY DEF IInv
  <1>1. ASSUME NEW d \in Decisions, TargetLockedBy(d)'
        PROVE  Pending(tx[d].of)' /\ (tx[d].view.now.target = target)'
    <2>1. tx'[d].pc = "apply" /\ tx'[d].approve /\ req'[tx'[d].of].op \in Attendance
      BY <1>1 DEF TargetLockedBy, ReadsLive, OpOf
    <2>2. CASE tx'[d] = tx[d]
      <3>1. tx[d] \in Decision /\ tx[d].of \in Requests /\ req[tx[d].of].state # "none"
        BY <1>0, <2>1, <2>2, Active DEF Deciding, Decision
      <3>2. TargetLockedBy(d)
        BY <2>1, <2>2, <3>1, Immutable DEF TargetLockedBy, ReadsLive, OpOf
      <3>3. Pending(tx[d].of) /\ tx[d].view.now.target = target
        BY <1>0, <3>2 DEF Locked
      <3>4. ~RequestFree(tx[d].of) /\ ~TargetFree(Decisions)
        BY <2>1, <2>2, <3>2 DEF RequestFree, TargetFree
      <3>5. target' = target
        <4>1. ASSUME NEW e \in Decisions, Commit(e) PROVE target' = target
          <5>1. CASE e = d
            BY <1>0, <2>1, <4>1, <5>1 DEF Commit, Ends, TypeOK, NoDecision
          <5>2. CASE e # d
            <6>1. ~TargetFree(Decisions \ {e})
              BY <3>2, <5>2 DEF TargetFree
            <6>2. QED
              BY <4>1, <6>1 DEF Commit
          <5>3. QED
            BY <5>1, <5>2
        <4>2. CASE OnlyTarget
          BY <3>4, <4>2 DEF OnlyTarget, DirectChange
        <4>3. QED
          BY <4>1, <4>2, Steps DEF vars, SubmitStep, Capture, Compare, Abandon, Insert, Quiet,
             Decide, Fence, Rollback, Check, settings, Cancel, OnlyRoles, ChangeRole,
             TransferLeadership, OnlyContext, ChangeContext
      <3>6. req'[tx[d].of].state = req[tx[d].of].state
        <4>1. ASSUME NEW e \in Decisions, Commit(e)
              PROVE  req'[tx[d].of].state = req[tx[d].of].state
          <5>1. CASE e = d
            BY <1>0, <2>1, <4>1, <5>1 DEF Commit, Ends, TypeOK, NoDecision
          <5>2. CASE e # d
            <6>1. tx[e].of # tx[d].of
              BY <1>0, <2>1, <2>2, <4>1, <5>2 DEF Alone, Commit
            <6>2. QED
              BY <1>0, <3>1, <4>1, <6>1 DEF Commit, TypeOK
          <5>3. QED
            BY <5>1, <5>2
        <4>2. ASSUME NEW u \in Users, NEW r \in Requests, Cancel(u, r)
              PROVE  req'[tx[d].of].state = req[tx[d].of].state
          <5>1. r # tx[d].of
            BY <3>4, <4>2 DEF Cancel
          <5>2. QED
            BY <1>0, <3>1, <4>2, <5>1 DEF Cancel, TypeOK
        <4>3. ASSUME NEW p \in Submissions, NEW r \in Requests, Insert(p, r)
              PROVE  req'[tx[d].of].state = req[tx[d].of].state
          BY <1>0, <3>1, <4>3 DEF Insert, TypeOK
        <4>4. QED
          BY <4>1, <4>2, <4>3, Steps DEF vars, SubmitStep, Capture, Compare, Abandon, Quiet,
             Decide, Fence, Rollback, Check, settings, OnlyTarget, DirectChange, OnlyRoles,
             ChangeRole, TransferLeadership, OnlyContext, ChangeContext
      <3>7. QED
        BY <2>2, <3>3, <3>5, <3>6 DEF Pending
    <2>3. CASE /\ Check(d) /\ Permitted(d, ViewOf(d))
               /\ tx'[d] = [tx[d] EXCEPT !.pc = "apply", !.view = ViewOf(d)]
      <3>1. tx[d] \in Decision /\ req' = req /\ target' = target
        BY <1>0, <2>3, Active DEF Check, settings
      <3>2. tx'[d].of = tx[d].of /\ tx'[d].approve = tx[d].approve /\ tx'[d].view = ViewOf(d)
        BY <2>3, <3>1 DEF Decision
      <3>3. ReadsLive(d)
        BY <2>1, <3>1, <3>2 DEF ReadsLive, OpOf
      <3>4. ViewOf(d) = Live(tx[d].who, tx[d].of)
        BY <3>3 DEF ViewOf
      <3>5. ViewOf(d).now.target = target /\ ViewOf(d).state = req[tx[d].of].state
        BY <3>4 DEF Live, Now
      <3>6. ViewOf(d).state = "PENDING"
        BY <2>3 DEF Permitted
      <3>7. QED
        BY <3>1, <3>2, <3>5, <3>6 DEF Pending
    <2>4. ASSUME NEW u \in Users, NEW r \in Requests, NEW approve \in BOOLEAN,
                 Decide(d, u, r, approve)
          PROVE  FALSE
      BY <1>0, <2>1, <2>4 DEF Decide, TypeOK
    <2>5. CASE Fence(d) /\ tx'[d] = [tx[d] EXCEPT !.pc = "wait"]
      <3>1. tx[d] \in Decision
        BY <1>0, <2>5, Active DEF Fence
      <3>2. QED
        BY <2>1, <2>5, <3>1 DEF Decision
    <2>6. \/ tx'[d] = tx[d]
          \/ \E u \in Users, r \in Requests, approve \in BOOLEAN : Decide(d, u, r, approve)
          \/ Fence(d) /\ FenceHolds(d) /\ tx'[d] = [tx[d] EXCEPT !.pc = "wait"]
          \/ /\ Check(d) /\ Permitted(d, ViewOf(d))
             /\ tx'[d] = [tx[d] EXCEPT !.pc = "apply", !.view = ViewOf(d)]
      BY <2>1, Continues
    <2>7. QED
      BY <2>2, <2>3, <2>4, <2>5, <2>6, Zenon
  <1>2. QED
    BY <1>1 DEF Locked

(* No rank changes under a fence.                                            *)
LEMMA ActorsHeldStep ==
    ASSUME IInv, [Next]_vars
    PROVE  ActorsHeld'
  <1>0. TypeOK /\ Filed /\ Deciding /\ ActorsHeld
    BY DEF IInv
  <1>1. ASSUME NEW d \in Decisions, tx'[d].pc \in {"wait", "apply"}, Fences(d)',
               tx'[d].pc = "wait" => ~ReadsLive(d)'
        PROVE  /\ role'[tx'[d].who] = tx'[d].view.reviewer
               /\ role'[req'[tx'[d].of].by] = tx'[d].view.requester
    <2>0. \/ tx'[d] = tx[d]
          \/ \E u \in Users, r \in Requests, approve \in BOOLEAN : Decide(d, u, r, approve)
          \/ Fence(d) /\ FenceHolds(d) /\ tx'[d] = [tx[d] EXCEPT !.pc = "wait"]
          \/ /\ Check(d) /\ Permitted(d, ViewOf(d))
             /\ tx'[d] = [tx[d] EXCEPT !.pc = "apply", !.view = ViewOf(d)]
      BY <1>1, Continues
    <2>1. CASE tx'[d] = tx[d]
      <3>1. tx[d] \in Decision /\ tx[d].of \in Requests /\ req[tx[d].of].state # "none"
        BY <1>0, <1>1, <2>1, Active DEF Deciding, Decision
      <3>2. /\ req'[tx[d].of].op = req[tx[d].of].op /\ req'[tx[d].of].by = req[tx[d].of].by
            /\ tx[d].who \in Users /\ req[tx[d].of].by \in Users
        BY <1>0, <3>1, Immutable DEF Filed, Decision
      <3>3. Fences(d) /\ (tx[d].pc = "wait" => ~ReadsLive(d))
        BY <1>1, <2>1, <3>2 DEF Fences, ReadsLive, OpOf
      <3>4. /\ role[tx[d].who] = tx[d].view.reviewer
            /\ role[req[tx[d].of].by] = tx[d].view.requester
        BY <1>0, <1>1, <2>1, <3>3 DEF ActorsHeld
      <3>5. ActorLocked(tx[d].who) /\ ActorLocked(req[tx[d].of].by)
        BY <1>1, <2>1, <3>3 DEF ActorLocked, Actors
      <3>6. role'[tx[d].who] = role[tx[d].who] /\ role'[req[tx[d].of].by] = role[req[tx[d].of].by]
        <4>1. CASE OnlyRoles
          BY <1>0, <3>2, <3>5, <4>1 DEF OnlyRoles, ChangeRole, TransferLeadership, TypeOK
        <4>2. QED
          BY <4>1, Steps DEF vars, SubmitStep, Capture, Compare, Abandon, Insert, Quiet,
             Decide, Fence, Rollback, Check, settings, Commit, Cancel, OnlyContext,
             ChangeContext, OnlyTarget, DirectChange
      <3>7. QED
        BY <2>1, <3>2, <3>4, <3>6
    <2>2. ASSUME NEW u \in Users, NEW r \in Requests, NEW approve \in BOOLEAN,
                 Decide(d, u, r, approve)
          PROVE  FALSE
      <3>1. /\ tx'[d].pc = IF approve /\ req[r].op \notin Ordinary THEN "fence" ELSE "wait"
            /\ tx'[d].of = r /\ tx'[d].approve = approve /\ req' = req
        BY <1>0, <2>2 DEF Decide, TypeOK, settings
      <3>2. QED
        BY <1>1, <3>1 DEF Fences, OpOf
    <2>3. CASE Fence(d) /\ FenceHolds(d) /\ tx'[d] = [tx[d] EXCEPT !.pc = "wait"]
      <3>1. tx[d] \in Decision /\ req' = req /\ role' = role
        BY <1>0, <2>3, Active DEF Fence, settings
      <3>2. /\ tx'[d].pc = "wait" /\ tx'[d].of = tx[d].of /\ tx'[d].who = tx[d].who
            /\ tx'[d].approve = tx[d].approve /\ tx'[d].view = tx[d].view
        BY <2>3, <3>1 DEF Decision
      <3>3. ~ReadsLive(d)
        BY <1>1, <3>1, <3>2 DEF ReadsLive, OpOf
      <3>4. QED
        BY <2>3, <3>1, <3>2, <3>3 DEF FenceHolds
    <2>4. CASE /\ Check(d) /\ Permitted(d, ViewOf(d))
               /\ tx'[d] = [tx[d] EXCEPT !.pc = "apply", !.view = ViewOf(d)]
      <3>1. tx[d] \in Decision /\ tx[d].pc = "wait" /\ req' = req /\ role' = role
        BY <1>0, <2>4, Active DEF Check, settings
      <3>2. /\ tx'[d].of = tx[d].of /\ tx'[d].who = tx[d].who
            /\ tx'[d].approve = tx[d].approve /\ tx'[d].view = ViewOf(d)
        BY <2>4, <3>1 DEF Decision
      <3>3. Fences(d)
        BY <1>1, <3>1, <3>2 DEF Fences, OpOf
      <3>4. CASE ReadsLive(d)
        <4>1. ViewOf(d) = Live(tx[d].who, tx[d].of)
          BY <3>4 DEF ViewOf
        <4>2. QED
          BY <3>1, <3>2, <4>1 DEF Live
      <3>5. CASE ~ReadsLive(d)
        <4>1. ViewOf(d) = tx[d].view
          BY <3>5 DEF ViewOf
        <4>2. QED
          BY <1>0, <3>1, <3>2, <3>3, <3>5, <4>1 DEF ActorsHeld
      <3>6. QED
        BY <3>4, <3>5
    <2>5. QED
      BY <2>0, <2>1, <2>2, <2>3, <2>4, Zenon
  <1>2. QED
    BY <1>1 DEF ActorsHeld

(* A decision that commits finds the request undecided and, if it applies    *)
(* it, the record as the evidence has it.                                    *)
LEMMA CommitsReviewed ==
    ASSUME IInv, NEW d \in Decisions, Commit(d)
    PROVE  /\ Pending(tx[d].of)
           /\ tx[d].approve => target = req[tx[d].of].seen.target
  <1>1. tx[d].pc = "apply" /\ ~Conflicts(d) /\ Permitted(d, tx[d].view)
    BY DEF Commit, IInv, Checked
  <1>2. tx[d] \in Decision /\ TypeOK
    BY <1>1, Active DEF IInv
  <1>3. /\ tx[d].view.state = "PENDING"
        /\ tx[d].approve => tx[d].view.now = req[tx[d].of].seen
    BY <1>1 DEF Permitted
  <1>4. CASE ReadsLive(d)
    BY <1>1, <1>3, <1>4 DEF IInv, Locked, TargetLockedBy
  <1>5. CASE ~ReadsLive(d)
    BY <1>1, <1>3, <1>5 DEF Conflicts, Pending
  <1>6. QED
    BY <1>4, <1>5

LEMMA AppliedStep ==
    ASSUME IInv, [Next]_vars
    PROVE  AppliedOnce'
  <1>0. TypeOK /\ AppliedOnce
    BY DEF IInv
  <1>1. CASE UNCHANGED <<req, applied>>
    BY <1>0, <1>1 DEF AppliedOnce
  <1>2. ASSUME NEW p \in Submissions, NEW r \in Requests, Insert(p, r) PROVE AppliedOnce'
    BY <1>0, <1>2 DEF Insert, AppliedOnce, TypeOK
  <1>3. ASSUME NEW d \in Decisions, Commit(d) PROVE AppliedOnce'
    <2>1. tx[d] \in Decision /\ Pending(tx[d].of)
      BY <1>0, <1>3, Active, CommitsReviewed DEF Commit
    <2>2. tx[d].of \in Requests /\ applied[tx[d].of] = 0
      BY <1>0, <2>1 DEF AppliedOnce, Pending, Decision
    <2>3. CASE tx[d].approve
      BY <1>0, <1>3, <2>2, <2>3 DEF Commit, AppliedOnce, TypeOK, Request
    <2>4. CASE ~tx[d].approve
      BY <1>0, <1>3, <2>2, <2>4 DEF Commit, AppliedOnce, TypeOK, Request
    <2>5. QED
      BY <2>3, <2>4
  <1>4. ASSUME NEW u \in Users, NEW r \in Requests, Cancel(u, r) PROVE AppliedOnce'
    BY <1>0, <1>4 DEF Cancel, Pending, AppliedOnce, TypeOK, Request
  <1>5. QED
    BY <1>1, <1>2, <1>3, <1>4, Steps DEF vars, SubmitStep, Capture, Compare, Abandon, Quiet,
       Decide, Fence, Rollback, Check, settings, OnlyTarget, DirectChange, OnlyRoles,
       ChangeRole, TransferLeadership, OnlyContext, ChangeContext

LEMMA Inductive == IInv /\ [Next]_vars => IInv'
  BY TypeStep, FiledStep, SubmissionsStep, DecidingStep, AloneStep, LockedStep,
     ActorsHeldStep, AppliedStep DEF IInv

LEMMA Invariance == Spec => []IInv
  BY InitHolds, Inductive, PTL DEF Spec

-----------------------------------------------------------------------------
(* Theorems *)

(* Every variable keeps its type.                                            *)
THEOREM TypeCorrect == Spec => []TypeOK
  <1>1. IInv => TypeOK
    BY DEF IInv
  <1>2. QED
    BY <1>1, Invariance, PTL

(* Whatever reviewers, requesters and editors do at once, a proposal is      *)
(* applied at most once, and exactly when it counts as approved.             *)
THEOREM AppliedAtMostOnce == Spec => []AppliedOnce
  <1>1. IInv => AppliedOnce
    BY DEF IInv
  <1>2. QED
    BY <1>1, Invariance, PTL

(* Parallel and repeated submissions leave one pending request.              *)
THEOREM NoDuplicateRequest == Spec => []OnePendingPerProposal
  <1>1. IInv => OnePendingPerProposal
    BY DEF IInv
  <1>2. QED
    BY <1>1, Invariance, PTL

LEMMA EntitledStep ==
    ASSUME IInv, [Next]_vars, NEW r \in Requests, Applies(r), req[r].op \notin Ordinary
    PROVE  LET who == req'[r].reviewer
           IN  /\ role[who] \in ReviewerRoles(req[r].op)
               /\ role[req[r].by] \in RequesterRoles(req[r].op)
               /\ who = req[r].by => role[who] = "HEAD"
  <1>0. TypeOK
    BY DEF IInv
  <1>1. PICK d \in Decisions : Commit(d) /\ tx[d].of = r /\ tx[d].approve
                              /\ req'[r].reviewer = tx[d].who
    <2>1. ASSUME NEW p \in Submissions, NEW q \in Requests, Insert(p, q) PROVE FALSE
      BY <1>0, <2>1 DEF Insert, Applies, TypeOK
    <2>2. ASSUME NEW u \in Users, NEW q \in Requests, Cancel(u, q) PROVE FALSE
      BY <1>0, <2>2 DEF Cancel, Applies, TypeOK, Request
    <2>3. ASSUME NEW d \in Decisions, Commit(d)
          PROVE  tx[d].of = r /\ tx[d].approve /\ req'[r].reviewer = tx[d].who
      <3>1. tx[d] \in Decision /\ tx[d].of \in Requests
        BY <1>0, <2>3, Active DEF Commit, Decision
      <3>2. QED
        BY <1>0, <2>3, <3>1 DEF Commit, Applies, TypeOK, Request
    <2>4. QED
      BY <2>1, <2>2, <2>3, Steps DEF Applies, vars, SubmitStep, Capture, Compare, Abandon,
         Quiet, Decide, Fence, Rollback, Check, settings, OnlyTarget, DirectChange, OnlyRoles,
         ChangeRole, TransferLeadership, OnlyContext, ChangeContext
  <1>2. tx[d].pc = "apply" /\ Permitted(d, tx[d].view) /\ Fences(d)
    BY <1>1 DEF Commit, IInv, Checked, Fences, OpOf
  <1>3. /\ role[tx[d].who] = tx[d].view.reviewer
        /\ role[req[r].by] = tx[d].view.requester
    BY <1>1, <1>2 DEF IInv, ActorsHeld
  <1>4. QED
    BY <1>1, <1>2, <1>3 DEF Permitted

(* A fenced approval takes effect only while both actors have their rank.    *)
THEOREM FencedApprovalsEntitled == Spec => ActorsStillEntitled
  <1>1. IInv /\ [Next]_vars =>
          [\A r \in Requests : Applies(r) /\ req[r].op \notin Ordinary =>
             LET who == req'[r].reviewer
             IN  /\ role[who] \in ReviewerRoles(req[r].op)
                 /\ role[req[r].by] \in RequesterRoles(req[r].op)
                 /\ who = req[r].by => role[who] = "HEAD"]_vars
    BY EntitledStep
  <1>2. QED
    BY <1>1, Invariance, PTL DEF Spec, ActorsStillEntitled

-----------------------------------------------------------------------------
(* The refinement *)

LEMMA ContractInit == Init => Contract!CInit
  BY DEF Init, Contract!CInit, NoRequest, NoEvidence

(* A step that moves one request from a state of the contract to the next.   *)
LEMMA Moves ==
    ASSUME TypeOK, NEW r \in Requests, NEW state \in States,
           \A q \in Requests \ {r} : req'[q] = req[q],
           req'[r].state = state, req'[r].seen = req[r].seen
    PROVE  [q \in Requests |-> [state |-> req'[q].state, at |-> req'[q].seen.target]]
           = [[q \in Requests |-> [state |-> req[q].state, at |-> req[q].seen.target]]
                 EXCEPT ![r].state = state]
  OBVIOUS

LEMMA ContractStep ==
    ASSUME IInv, [Next]_vars
    PROVE  [Contract!CNext]_Contract!cvars
  <1> USE DEF Contract!CNext, Contract!cvars
  <1>0. TypeOK
    BY DEF IInv
  <1>1. CASE UNCHANGED <<req, target>>
    BY <1>1
  <1>2. ASSUME NEW p \in Submissions, NEW r \in Requests, Insert(p, r)
        PROVE  Contract!CNext
    <2>1. sub[p] \in Submission /\ sub[p].seen.target <= target
      BY <1>0, <1>2, Submitting DEF Insert, IInv, Earlier
    <2> DEFINE at == sub[p].seen.target
    <2>2. at \in 0 .. target
      BY <1>0, <2>1 DEF Submission, Evidence, TypeOK
    <2>3. [q \in Requests |-> [state |-> req'[q].state, at |-> req'[q].seen.target]]
          = [[q \in Requests |-> [state |-> req[q].state, at |-> req[q].seen.target]]
                EXCEPT ![r] = [state |-> "PENDING", at |-> at]]
      BY <1>0, <1>2 DEF Insert, TypeOK
    <2>4. req[r].state = "none" /\ target' = target
      BY <1>2 DEF Insert
    <2>5. Contract!File(r)
      BY <2>2, <2>3, <2>4 DEF Contract!File, Contract!Open
    <2>6. QED
      BY <2>5
  <1>3. ASSUME NEW d \in Decisions, Commit(d)
        PROVE  Contract!CNext
    <2>1. PICK r \in Requests : tx[d].of = r
      BY <1>0, <1>3, Active DEF Commit, Decision
    <2>2. Pending(r) /\ (tx[d].approve => target = req[r].seen.target)
      BY <1>3, <2>1, CommitsReviewed
    <2>3. /\ \A q \in Requests \ {r} : req'[q] = req[q]
          /\ req'[r].state = IF tx[d].approve THEN "APPROVED" ELSE "REJECTED"
          /\ req'[r].seen = req[r].seen
      BY <1>0, <1>3, <2>1 DEF Commit, TypeOK, Request
    <2>4. CASE tx[d].approve
      <3>1. req'[r].state = "APPROVED" /\ target' = target + 1
        BY <1>3, <2>3, <2>4 DEF Commit
      <3>2. Contract!Apply(r)
        BY <1>0, <2>2, <2>3, <2>4, <3>1, Moves DEF Contract!Apply, Pending, States
      <3>3. QED
        BY <3>2
    <2>5. CASE ~tx[d].approve
      <3>1. req'[r].state = "REJECTED" /\ target' = target
        BY <1>3, <2>3, <2>5 DEF Commit
      <3>2. Contract!Drop(r)
        BY <1>0, <2>2, <2>3, <3>1, Moves DEF Contract!Drop, Pending, States
      <3>3. QED
        BY <3>2
    <2>6. QED
      BY <2>4, <2>5
  <1>4. ASSUME NEW u \in Users, NEW r \in Requests, Cancel(u, r)
        PROVE  Contract!CNext
    <2>1. /\ \A q \in Requests \ {r} : req'[q] = req[q]
          /\ req'[r].state = "CANCELLED" /\ req'[r].seen = req[r].seen /\ target' = target
      BY <1>0, <1>4 DEF Cancel, TypeOK, Request
    <2>2. Contract!Drop(r)
      BY <1>0, <1>4, <2>1, Moves DEF Cancel, Contract!Drop, Pending, States
    <2>3. QED
      BY <2>2
  <1>5. CASE OnlyTarget
    <2>1. Contract!Change
      BY <1>5 DEF OnlyTarget, DirectChange, Contract!Change
    <2>2. QED
      BY <2>1
  <1>6. QED
    BY <1>1, <1>2, <1>3, <1>4, <1>5, Steps DEF vars, SubmitStep, Capture, Compare, Abandon,
       Quiet, Decide, Fence, Rollback, Check, settings, OnlyRoles, ChangeRole,
       TransferLeadership, OnlyContext, ChangeContext

(* The queue keeps its contract: one final decision per proposal, applied    *)
(* only to the state of the record the evidence describes.                   *)
THEOREM ContractKept == Spec => KeepsContract
  BY ContractInit, ContractStep, Invariance, PTL DEF Spec, KeepsContract, Contract!CSpec

=============================================================================
