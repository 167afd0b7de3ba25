------------------------ MODULE ScheduledRefreshProofs ------------------------
(***************************************************************************)
(* Theorems about ScheduledRefresh, for any number of terms, accounts and  *)
(* server instances.  The invariant relates three things that are read at  *)
(* different times: what a Head reviewed, what is true now, and the list   *)
(* of due schedules an instance is working through.                        *)
(***************************************************************************)
EXTENDS ScheduledRefresh, FiniteSetTheorems, SequenceTheorems, TLAPS

(* A schedule is for the term that was active when it was reviewed.         *)
Sources == \A t \in Terms : row[t] # NoRow => t < Last /\ row[t].seen.source = t

OneHead == \A u, v \in Users : user[u].head /\ user[v].head => u = v

(* A schedule that is still in force has an attempt left.                   *)
AttemptLeft == \A t \in Terms : row[t] # NoRow /\ row[t].state = "SCHEDULED" =>
             row[t].attempts < MaxAttempts

(* Revisions only grow, and what lapsed shows in one of them.               *)
Behind ==
    \A t \in Terms : row[t] # NoRow =>
        /\ row[t].authority <= user[row[t].by].revision
        /\ row[t].seen.prep <= prep[t].version
        /\ row[t].seen.staged <= staged.revision
        /\ lapsed[t] => \/ row[t].authority < user[row[t].by].revision
                        \/ row[t].seen.prep < prep[t].version
                        \/ row[t].seen.staged < staged.revision

(* What an instance selected was scheduled and due at that version.         *)
SelectedItem(t, version) ==
    /\ row[t] # NoRow /\ version <= row[t].version
    /\ row[t].state = "SCHEDULED" /\ row[t].version = version => row[t].at <= clock

Selected ==
    \A i \in Instances : \A k \in DOMAIN worker[i].queue : \A t \in Terms, n \in Nat :
        worker[i].queue[k] = <<t, n>> => SelectedItem(t, n)

(* A failure an instance is about to record is counted already, unless the   *)
(* schedule has moved on since.                                              *)
OwedItem(t, version) ==
    row[t].state = "SCHEDULED" /\ row[t].version = version => row[t].attempts < failures[t]

Owed ==
    \A i \in Instances : \A t \in Terms, n \in Nat :
        worker[i].pc = "record" /\ Head(worker[i].queue) = <<t, n>> => OwedItem(t, n)

IInv == /\ TypeOK /\ Sources /\ AttemptLeft /\ OneHead /\ Behind /\ Selected /\ Owed
        /\ NoticedOnce /\ ChargedForOwnFailures

-----------------------------------------------------------------------------
(* Types.                                                                   *)

LEMMA TermsFinite == IsFiniteSet(Selectable) /\ Cardinality(Selectable) \in Nat
  <1>1. Terms = 1 .. Last /\ IsFiniteSet(1 .. Last)
    BY LastAssumption, FS_Interval DEF Terms
  <1>2. Selectable \subseteq Terms
    BY DEF Selectable
  <1>. QED BY <1>1, <1>2, FS_Subset, FS_CardinalityType

LEMMA SelectableSome == Selectable # {} => Cardinality(Selectable) >= 1
  BY TermsFinite, FS_EmptySet

LEMMA TypeInit == Init => TypeOK
  BY FirstAssumption, LastAssumption, BoundsAssumption
  DEF Init, TypeOK, Terms, Times, Worker, Idle

LEMMA CurrentType == TypeOK => Current \in Evidence
  BY DEF TypeOK, Current, Evidence

(* The queue of a sweep, and what is left of one.                           *)
LEMMA SweptQueue ==
  ASSUME TypeOK, Selectable # {},
         NEW q \in [1 .. Cardinality(Selectable) -> Selectable]
  PROVE  LET list == [k \in DOMAIN q |-> <<q[k], row[q[k]].version>>]
         IN  list \in Seq(Item) \ {<< >>} /\ DOMAIN list = 1 .. Cardinality(Selectable)
  <1> DEFINE list == [k \in DOMAIN q |-> <<q[k], row[q[k]].version>>]
             n == Cardinality(Selectable)
  <1>1. n \in Nat /\ n >= 1
    BY TermsFinite, SelectableSome
  <1>2. \A k \in 1 .. n : list[k] \in Item
    <2> SUFFICES ASSUME NEW k \in 1 .. n PROVE list[k] \in Item
      OBVIOUS
    <2>1. q[k] \in Terms /\ row[q[k]] # NoRow
      BY DEF Selectable, Due
    <2>2. row[q[k]].version \in Nat
      BY <2>1 DEF TypeOK, Row
    <2>. QED BY <2>1, <2>2 DEF Item
  <1>3. list \in [1 .. n -> Item]
    BY <1>2
  <1>4. list \in Seq(Item)
    BY <1>1, <1>3
  <1>5. DOMAIN list = 1 .. n
    BY <1>1
  <1>6. list # << >>
    BY <1>1, <1>4, <1>5
  <1>. QED BY <1>4, <1>5, <1>6

LEMMA QueueParts ==
  ASSUME NEW q \in Seq(Item) \ {<< >>}
  PROVE  /\ Head(q) = q[1] /\ Head(q) \in Item /\ 1 \in DOMAIN q
         /\ Len(q) # 1 => Tail(q) \in Seq(Item) \ {<< >>}
         /\ \A k \in DOMAIN Tail(q) : k + 1 \in DOMAIN q /\ Tail(q)[k] = q[k + 1]
  <1>1. q \in Seq(Item) /\ q # << >>
    OBVIOUS
  <1>2. /\ Head(q) \in Item /\ Tail(q) \in Seq(Item) /\ Len(Tail(q)) = Len(q) - 1
        /\ \A k \in 1 .. Len(Tail(q)) : Tail(q)[k] = q[k + 1]
    BY <1>1, HeadTailProperties
  <1>3. Len(q) \in Nat \ {0} /\ DOMAIN q = 1 .. Len(q) /\ DOMAIN Tail(q) = 1 .. Len(Tail(q))
    BY <1>1, <1>2, EmptySeq, LenProperties
  <1>4. Len(q) # 1 => Tail(q) # << >>
    BY <1>2, <1>3, Len(<< >>) = 0
  <1>5. Head(q) = q[1]
    BY <1>1
  <1>. QED BY <1>2, <1>3, <1>4, <1>5

LEMMA FinishedType ==
  ASSUME NEW w \in Worker, w.pc # "idle"
  PROVE  /\ Finished(w) \in Worker
         /\ Head(w.queue) \in Item
         /\ Failing(w) \in Worker /\ Failing(w).queue = w.queue /\ Failing(w).pc = "record"
         /\ w.queue \in Seq(Item) \ {<< >>}
  <1>1. w \in [pc : {"execute", "record"}, queue : Seq(Item) \ {<< >>}]
    BY DEF Worker, Idle
  <1>2. w.queue \in Seq(Item) \ {<< >>}
    BY <1>1
  <1>3. Len(w.queue) # 1 => Tail(w.queue) \in Seq(Item) \ {<< >>}
    BY <1>2, QueueParts
  <1>4. Finished(w) \in Worker
    BY <1>3 DEF Finished, Worker
  <1>5. Failing(w) \in Worker /\ Failing(w).queue = w.queue /\ Failing(w).pc = "record"
    BY <1>1 DEF Failing, Worker
  <1>. QED BY <1>2, <1>4, <1>5, QueueParts

LEMMA TermsAround ==
  ASSUME NEW t \in Terms
  PROVE  (t < Last => t + 1 \in Terms) /\ (t > 1 => t - 1 \in Terms)
  BY LastAssumption DEF Terms

LEMMA TypeStep ==
  ASSUME TypeOK, Sources, AttemptLeft, [Next]_vars
  PROVE  TypeOK'
  <1> USE LastAssumption, BoundsAssumption
  <1>1. ASSUME NEW opens \in Times, Prepare(opens) PROVE TypeOK'
    BY <1>1 DEF TypeOK, Prepare
  <1>2. CASE StageFeature
    BY <1>2 DEF TypeOK, StageFeature
  <1>3. ASSUME NEW z \in Zones, SetTimeZone(z) PROVE TypeOK'
    BY <1>3 DEF TypeOK, SetTimeZone, ghosts
  <1>4. ASSUME NEW u \in Users, NEW v \in Users, TransferHead(u, v) PROVE TypeOK'
    <2>1. \A x \in Users, head, suspended \in BOOLEAN :
            Advance(x, head, suspended) \in [head : BOOLEAN, suspended : BOOLEAN, revision : Nat]
      BY DEF TypeOK, Advance
    <2>2. user' \in [Users -> [head : BOOLEAN, suspended : BOOLEAN, revision : Nat]]
      <3>1. user[u].suspended \in BOOLEAN /\ user[v].suspended \in BOOLEAN
        BY DEF TypeOK
      <3>2. user' = [user EXCEPT ![u] = Advance(u, FALSE, user[u].suspended),
                                 ![v] = Advance(v, TRUE, user[v].suspended)]
        BY <1>4 DEF TypeOK, TransferHead
      <3>3. /\ Advance(u, FALSE, user[u].suspended) \in [head : BOOLEAN, suspended : BOOLEAN, revision : Nat]
            /\ Advance(v, TRUE, user[v].suspended) \in [head : BOOLEAN, suspended : BOOLEAN, revision : Nat]
        BY <2>1, <3>1
      <3>. QED BY <3>2, <3>3 DEF TypeOK
    <2>3. ChangeAuthority({u, v})
      BY <1>4 DEF TransferHead
    <2>. QED BY <2>2, <2>3 DEF TypeOK, ChangeAuthority, settings
  <1>5. ASSUME NEW u \in Users, SetSuspension(u) PROVE TypeOK'
    BY <1>5 DEF TypeOK, SetSuspension, ChangeAuthority, Advance, settings
  <1>6. ASSUME NEW u \in Users, RefreshNow(u) PROVE TypeOK'
    BY <1>6, TermsAround DEF TypeOK, RefreshNow, Activate, ghosts
  <1>7. ASSUME NEW u \in Users, NEW at \in Times, Schedule(u, at) PROVE TypeOK'
    <2>1. Current \in Evidence
      BY CurrentType
    <2>2. Version(active) + 1 \in Nat /\ user[u].revision \in Nat
      BY DEF TypeOK, Version, Row
    <2>3. row'[active] \in Row
      BY <1>7, <2>1, <2>2 DEF TypeOK, Schedule, Row, States
    <2>4. row' = [row EXCEPT ![active] = row'[active]]
      BY <1>7 DEF TypeOK, Schedule
    <2>5. row' \in [Terms -> Row \cup {NoRow}]
      BY <2>3, <2>4 DEF TypeOK
    <2>. QED BY <1>7, <2>5 DEF TypeOK, Schedule, settings
  <1>8. ASSUME NEW u \in Users, NEW t \in Terms, Cancel(u, t) PROVE TypeOK'
    <2>1. row'[t] \in Row
      BY <1>8 DEF TypeOK, Cancel, Row, States
    <2>. QED BY <1>8, <2>1 DEF TypeOK, Cancel, settings, ghosts
  <1>9. CASE Revert
    BY <1>9, TermsAround DEF TypeOK, Revert, settings, ghosts
  <1>10. ASSUME NEW i \in Instances, Sweep(i) PROVE TypeOK'
    <2>1. PICK q \in [1 .. Cardinality(Selectable) -> Selectable] :
            worker' = [worker EXCEPT ![i] =
              [pc |-> "execute", queue |-> [k \in DOMAIN q |-> <<q[k], row[q[k]].version>>]]]
      BY <1>10 DEF Sweep
    <2>2. worker'[i] \in Worker
      BY <1>10, <2>1, SweptQueue DEF Sweep, TypeOK, Worker
    <2>. QED BY <1>10, <2>1, <2>2 DEF Sweep, TypeOK, settings, ghosts
  <1>11. ASSUME NEW t \in Terms, Executes(t)
         PROVE  /\ row' \in [Terms -> Row \cup {NoRow}] /\ notices' \in [Terms -> Nat]
                /\ active' \in Terms /\ created' \in Terms /\ prep' = prep /\ zone' = zone
                /\ staged' \in [revision : Nat, pending : BOOLEAN]
    <2>1. ASSUME NEW state \in States, Due(t), Ends(t, state)
          PROVE  row' \in [Terms -> Row \cup {NoRow}] /\ notices' \in [Terms -> Nat]
      <3>1. row'[t] \in Row
        BY <2>1 DEF TypeOK, Ends, Due, Row
      <3>. QED BY <2>1, <3>1 DEF TypeOK, Ends
    <2>2. Due(t) /\ StillReviewed(t) => active < Last
      BY DEF Due, StillReviewed, Current, Sources
    <2>3. CASE Due(t) /\ StillReviewed(t) /\ StillAuthorized(t)
      <3>1. Activate /\ Ends(t, "COMPLETED")
        BY <1>11, <2>3 DEF Executes
      <3>2. row' \in [Terms -> Row \cup {NoRow}] /\ notices' \in [Terms -> Nat]
        BY <2>1, <2>3, <3>1 DEF States
      <3>3. active + 1 \in Terms
        BY <2>2, <2>3, TermsAround DEF TypeOK
      <3>. QED BY <3>1, <3>2, <3>3 DEF TypeOK, Activate
    <2>4. CASE Due(t) /\ ~(StillReviewed(t) /\ StillAuthorized(t))
      BY <1>11, <2>1, <2>4 DEF TypeOK, Executes, settings, States
    <2>5. CASE ~Due(t)
      BY <1>11, <2>5 DEF TypeOK, Executes, settings
    <2>. QED BY <2>3, <2>4, <2>5
  <1>12. ASSUME NEW i \in Instances, Execute(i) \/ ExecuteUnheard(i) PROVE TypeOK'
    <2>1. worker[i] \in Worker /\ worker[i].pc # "idle"
      BY <1>12 DEF TypeOK, Execute, ExecuteUnheard
    <2>2. Head(worker[i].queue)[1] \in Terms
      BY <2>1, FinishedType DEF Item
    <2>3. Finished(worker[i]) \in Worker /\ Failing(worker[i]) \in Worker
      BY <2>1, FinishedType
    <2>4. Executes(Head(worker[i].queue)[1])
      BY <1>12 DEF Execute, ExecuteUnheard
    <2>5. /\ row' \in [Terms -> Row \cup {NoRow}] /\ notices' \in [Terms -> Nat]
          /\ active' \in Terms /\ created' \in Terms /\ prep' = prep /\ zone' = zone
          /\ staged' \in [revision : Nat, pending : BOOLEAN]
      BY <1>11, <2>2, <2>4
    <2>6. worker' \in [Instances -> Worker] /\ faults' \in 0 .. MaxFaults
      BY <1>12, <2>3 DEF TypeOK, Execute, ExecuteUnheard
    <2>. QED BY <1>12, <2>5, <2>6 DEF TypeOK, Execute, ExecuteUnheard
  <1>13. ASSUME NEW i \in Instances, ExecuteFails(i) PROVE TypeOK'
    <2>1. worker[i] \in Worker /\ worker[i].pc # "idle"
      BY <1>13 DEF TypeOK, ExecuteFails
    <2>2. Failing(worker[i]) \in Worker /\ Head(worker[i].queue)[1] \in Terms
      BY <2>1, FinishedType DEF Item
    <2>. QED BY <1>13, <2>2 DEF TypeOK, ExecuteFails, settings
  <1>14. ASSUME NEW i \in Instances, Record(i) PROVE TypeOK'
    <2>1. worker[i] \in Worker /\ worker[i].pc # "idle"
      BY <1>14 DEF TypeOK, Record
    <2>2. Head(worker[i].queue)[1] \in Terms /\ Finished(worker[i]) \in Worker
      BY <2>1, FinishedType DEF Item
    <2>3. ASSUME NEW t \in Terms, NEW version, Records(t, version)
          PROVE  row' \in [Terms -> Row \cup {NoRow}] /\ notices' \in [Terms -> Nat]
      <3>1. CASE row[t] # NoRow /\ row[t].state = "SCHEDULED" /\ row[t].version = version
        <4>1. row[t] \in Row
          BY <3>1 DEF TypeOK
        <4>2. row[t].attempts < MaxAttempts
          BY <3>1 DEF AttemptLeft
        <4>. QED BY <2>3, <3>1, <4>1, <4>2 DEF TypeOK, Records, Row, States
      <3>2. CASE ~(row[t] # NoRow /\ row[t].state = "SCHEDULED" /\ row[t].version = version)
        BY <2>3, <3>2 DEF TypeOK, Records
      <3>. QED BY <3>1, <3>2
    <2>. QED BY <1>14, <2>2, <2>3 DEF TypeOK, Record, settings
  <1>15. ASSUME NEW i \in Instances, Abandon(i) PROVE TypeOK'
    BY <1>15 DEF TypeOK, Abandon, Worker, settings, ghosts
  <1>16. CASE Tick
    BY <1>16 DEF TypeOK, Tick, settings, ghosts, Times
  <1>17. CASE UNCHANGED vars
    BY <1>17 DEF TypeOK, vars
  <1>. QED BY <1>1, <1>2, <1>3, <1>4, <1>5, <1>6, <1>7, <1>8, <1>9, <1>10, <1>12,
              <1>13, <1>14, <1>15, <1>16, <1>17 DEF Next, Work

-----------------------------------------------------------------------------
(* What a step does to the schedules.                                        *)

(* Schedule t keeps its review and its Head, and ends, is cancelled or put   *)
(* off; only a recorded failure is charged.                                  *)
ChargedBy(i, t) ==
    /\ worker[i].pc = "record"
    /\ Head(worker[i].queue)[1] = t /\ Head(worker[i].queue)[2] = row[t].version

Continues(t) ==
    /\ row[t] # NoRow /\ row'[t] \in Row
    /\ \A s \in Terms \ {t} : row'[s] = row[s] /\ notices'[s] = notices[s]
    /\ row'[t].at = row[t].at /\ row'[t].by = row[t].by
    /\ row'[t].authority = row[t].authority /\ row'[t].seen = row[t].seen
    /\ row'[t].version = row[t].version + 1
    /\ \/ row'[t].state = "CANCELLED" /\ notices'[t] = notices[t]
       \/ /\ row[t].state = "SCHEDULED" /\ row'[t].state \in Terminal
          /\ notices'[t] = notices[t] + 1
       \/ /\ row[t].state = "SCHEDULED" /\ row'[t].state = "SCHEDULED"
          /\ notices'[t] = notices[t] /\ row'[t].attempts < MaxAttempts
    /\ \/ row'[t].attempts = row[t].attempts
       \/ /\ row[t].state = "SCHEDULED" /\ row'[t].attempts = row[t].attempts + 1
          /\ \E i \in Instances : ChargedBy(i, t)

LEMMA RowWith ==
  ASSUME NEW q \in Row, NEW state \in States, NEW attempts \in 0 .. MaxAttempts
  PROVE  /\ [q EXCEPT !.state = state, !.version = q.version + 1] \in Row
         /\ [q EXCEPT !.attempts = attempts, !.version = q.version + 1, !.state = state] \in Row
  <1> DEFINE n == q.version + 1
  <1>1. n \in Nat
    BY DEF Row
  <1> HIDE DEF n
  <1>2. [q EXCEPT !.state = state, !.version = n] \in Row
    BY <1>1 DEF Row
  <1>3. [q EXCEPT !.attempts = attempts, !.version = n, !.state = state] \in Row
    BY <1>1 DEF Row
  <1>. QED BY <1>2, <1>3 DEF n

LEMMA EndsContinues ==
  ASSUME TypeOK, TypeOK', NEW t \in Terms, row[t] # NoRow, row[t].state = "SCHEDULED",
         NEW state \in {"COMPLETED", "BLOCKED"}, Ends(t, state)
  PROVE  Continues(t) /\ row'[t].state = state /\ row'[t].attempts = row[t].attempts
  <1>1. row[t] \in Row
    BY DEF TypeOK
  <1>2. row' = [row EXCEPT ![t].state = state, ![t].version = row[t].version + 1]
        /\ notices' = [notices EXCEPT ![t] = notices[t] + 1]
    BY <1>1 DEF TypeOK, Ends, Row
  <1>3. row'[t] = [row[t] EXCEPT !.state = state, !.version = row[t].version + 1]
    BY <1>2 DEF TypeOK
  <1>4. row'[t] \in Row
    <2>1. state \in States /\ row[t].attempts \in 0 .. MaxAttempts
      BY <1>1 DEF States, Row
    <2>2. [row[t] EXCEPT !.state = state, !.version = row[t].version + 1] \in Row
      BY <1>1, <2>1, RowWith
    <2>. QED BY <1>3, <2>2
  <1>. QED BY <1>1, <1>2, <1>3, <1>4 DEF TypeOK, Row, Continues, Terminal

LEMMA CancelContinues ==
  ASSUME TypeOK, NEW u \in Users, NEW t \in Terms, Cancel(u, t)
  PROVE  /\ Continues(t) /\ row[t].state # "COMPLETED" /\ row'[t].state = "CANCELLED"
         /\ lapsed' = lapsed /\ active' = active
  <1>1. row[t] \in Row
    BY DEF TypeOK, Cancel
  <1>2. row' = [row EXCEPT ![t].state = "CANCELLED", ![t].version = row[t].version + 1]
    BY DEF TypeOK, Cancel
  <1>3. row'[t] = [row[t] EXCEPT !.state = "CANCELLED", !.version = row[t].version + 1]
    BY <1>2 DEF TypeOK
  <1>4. row'[t] \in Row
    <2>1. "CANCELLED" \in States /\ row[t].attempts \in 0 .. MaxAttempts
      BY <1>1 DEF States, Row
    <2>2. [row[t] EXCEPT !.state = "CANCELLED", !.version = row[t].version + 1] \in Row
      BY <1>1, <2>1, RowWith
    <2>. QED BY <1>3, <2>2
  <1>. QED BY <1>1, <1>2, <1>3, <1>4 DEF TypeOK, Row, Cancel, ghosts, Continues

LEMMA RecordContinues ==
  ASSUME TypeOK, AttemptLeft, NEW i \in Instances, Record(i)
  PROVE  \/ row' = row /\ notices' = notices
         \/ \E t \in Terms : Continues(t) /\ row[t].state = "SCHEDULED" /\ row'[t].state # "COMPLETED"
  <1> DEFINE t == Head(worker[i].queue)[1]
             version == Head(worker[i].queue)[2]
             over == row[t].attempts + 1 >= MaxAttempts
  <1>1. t \in Terms /\ Records(t, version) /\ worker[i].pc = "record"
    BY FinishedType DEF TypeOK, Item, Record
  <1>2. CASE row[t] # NoRow /\ row[t].state = "SCHEDULED" /\ row[t].version = version
    <2>1. row[t] \in Row /\ row[t].attempts < MaxAttempts
      BY <1>1, <1>2 DEF TypeOK, AttemptLeft
    <2>2. /\ row' = [row EXCEPT ![t].attempts = row[t].attempts + 1,
                                ![t].version = row[t].version + 1,
                                ![t].state = IF over THEN "FAILED" ELSE row[t].state]
          /\ notices' = [notices EXCEPT ![t] = IF over THEN notices[t] + 1 ELSE notices[t]]
      BY <1>1, <1>2 DEF Records, TypeOK
    <2>3. row'[t] = [row[t] EXCEPT !.attempts = row[t].attempts + 1,
                                   !.version = row[t].version + 1,
                                   !.state = IF over THEN "FAILED" ELSE row[t].state]
      BY <1>1, <2>2 DEF TypeOK
    <2>4. row'[t] \in Row
      <3>1. row[t].attempts + 1 \in 0 .. MaxAttempts /\ row[t].state \in States
        BY <2>1, BoundsAssumption DEF Row
      <3>2. (IF over THEN "FAILED" ELSE row[t].state) \in States
        BY <3>1 DEF States
      <3>3. \A state \in States : [row[t] EXCEPT !.attempts = row[t].attempts + 1,
                                                !.version = row[t].version + 1,
                                                !.state = state] \in Row
        BY <2>1, <3>1, RowWith
      <3>. QED BY <2>3, <3>2, <3>3
    <2>5. ChargedBy(i, t)
      BY <1>1, <1>2 DEF ChargedBy
    <2>6. /\ row'[t].at = row[t].at /\ row'[t].by = row[t].by
          /\ row'[t].authority = row[t].authority /\ row'[t].seen = row[t].seen
          /\ row'[t].version = row[t].version + 1 /\ row'[t].attempts = row[t].attempts + 1
          /\ row'[t].state = IF over THEN "FAILED" ELSE row[t].state
      BY <2>1, <2>3 DEF Row
    <2>7. \A s \in Terms \ {t} : row'[s] = row[s] /\ notices'[s] = notices[s]
      BY <2>2 DEF TypeOK
    <2>8. notices'[t] = IF over THEN notices[t] + 1 ELSE notices[t]
      BY <1>1, <2>2 DEF TypeOK
    <2>9. ~over => row[t].attempts + 1 < MaxAttempts
      BY <2>1, BoundsAssumption DEF Row
    <2>10. Continues(t)
      BY <1>2, <2>4, <2>5, <2>6, <2>7, <2>8, <2>9 DEF Continues, Terminal
    <2>. QED BY <1>1, <1>2, <2>6, <2>10
  <1>3. CASE ~(row[t] # NoRow /\ row[t].state = "SCHEDULED" /\ row[t].version = version)
    BY <1>1, <1>3 DEF Records
  <1>. QED BY <1>2, <1>3

LEMMA RowSteps ==
  ASSUME TypeOK, TypeOK', AttemptLeft, [Next]_vars
  PROVE  \/ row' = row /\ notices' = notices
         \/ \E u \in Users, at \in Times : Schedule(u, at)
         \/ \E t \in Terms : Continues(t)
  <1>1. ASSUME NEW u \in Users, NEW t \in Terms, Cancel(u, t) PROVE Continues(t)
    BY <1>1, CancelContinues
  <1>2. ASSUME NEW t \in Terms, Executes(t)
        PROVE  (row' = row /\ notices' = notices) \/ Continues(t)
    BY <1>2, EndsContinues DEF Executes, Due
  <1>3. ASSUME NEW i \in Instances, Execute(i) \/ ExecuteUnheard(i)
        PROVE  (row' = row /\ notices' = notices) \/ \E t \in Terms : Continues(t)
    <2>1. Executes(Head(worker[i].queue)[1]) /\ worker[i].pc # "idle"
      BY <1>3 DEF Execute, ExecuteUnheard
    <2>2. Head(worker[i].queue)[1] \in Terms
      BY <2>1, FinishedType DEF TypeOK, Item
    <2>. QED BY <1>2, <2>1, <2>2
  <1>4. ASSUME NEW i \in Instances, Record(i)
        PROVE  (row' = row /\ notices' = notices) \/ \E t \in Terms : Continues(t)
    BY <1>4, RecordContinues
  <1>. QED BY <1>1, <1>3, <1>4
           DEF Next, Work, vars, Prepare, StageFeature, SetTimeZone, TransferHead,
               SetSuspension, ChangeAuthority, RefreshNow, Revert, Sweep, ExecuteFails,
               Abandon, Tick, ghosts

(* A schedule is never removed, and any change of it makes a new version.    *)
LEMMA RowMoves ==
  ASSUME TypeOK, TypeOK', AttemptLeft, [Next]_vars, NEW t \in Terms, row[t] # NoRow
  PROVE  row'[t] \in Row /\ (row'[t] = row[t] \/ row'[t].version > row[t].version)
  <1>0. row[t] \in Row /\ row[t].version \in Nat
    BY DEF TypeOK, Row
  <1>1. CASE row' = row
    BY <1>0, <1>1
  <1>2. ASSUME NEW u \in Users, NEW at \in Times, Schedule(u, at)
        PROVE  row'[t] \in Row /\ (row'[t] = row[t] \/ row'[t].version > row[t].version)
    <2>1. CASE t = active
      <3>1. row'[t].version = row[t].version + 1
        BY <1>2, <2>1 DEF Schedule, Version, TypeOK
      <3>2. row'[t] # NoRow
        <4>1. row'[t] = [state |-> "SCHEDULED", version |-> row[t].version + 1, at |-> at,
                         by |-> u, authority |-> user[u].revision, seen |-> Current, attempts |-> 0]
          BY <1>2, <2>1 DEF Schedule, Version, TypeOK
        <4>2. user[u].revision \in Nat /\ Current \in Evidence
          BY CurrentType DEF TypeOK
        <4>3. row'[t] \in Row
          BY <4>1, <4>2, <1>0, BoundsAssumption DEF Row, States
        <4>. QED BY <4>3, NoRowAssumption
      <3>. QED BY <1>0, <3>1, <3>2 DEF TypeOK
    <2>2. CASE t # active
      BY <1>0, <1>2, <2>2 DEF Schedule, TypeOK
    <2>. QED BY <2>1, <2>2
  <1>3. ASSUME NEW s \in Terms, Continues(s)
        PROVE  row'[t] \in Row /\ (row'[t] = row[t] \/ row'[t].version > row[t].version)
    BY <1>0, <1>3 DEF Continues
  <1>. QED BY <1>1, <1>2, <1>3, RowSteps

-----------------------------------------------------------------------------
(* What a step does to the rest.                                             *)

(* A new schedule is in force, uncharged, for the term that is active.        *)
Scheduled(u, at) ==
    /\ active < Last
    /\ row[active] # NoRow => row[active].state # "COMPLETED"
    /\ row'[active] = [state |-> "SCHEDULED", version |-> Version(active) + 1, at |-> at,
                       by |-> u, authority |-> user[u].revision, seen |-> Current,
                       attempts |-> 0]
    /\ row'[active] \in Row /\ row'[active] # NoRow
    /\ notices'[active] = 0 /\ failures'[active] = 0 /\ lapsed'[active] = FALSE
    /\ \A s \in Terms \ {active} : /\ row'[s] = row[s] /\ notices'[s] = notices[s]
                                   /\ failures'[s] = failures[s] /\ lapsed'[s] = lapsed[s]
    /\ clock' = clock /\ active' = active /\ prep' = prep /\ staged' = staged
    /\ user' = user /\ worker' = worker

LEMMA ScheduleRow ==
  ASSUME TypeOK, NEW u \in Users, NEW at \in Times, Schedule(u, at)
  PROVE  Scheduled(u, at)
  <1>1. row'[active] = [state |-> "SCHEDULED", version |-> Version(active) + 1, at |-> at,
                        by |-> u, authority |-> user[u].revision, seen |-> Current,
                        attempts |-> 0]
    BY DEF Schedule, TypeOK
  <1>2. Version(active) + 1 \in Nat
    BY DEF TypeOK, Version, Row
  <1>3. user[u].revision \in Nat /\ Current \in Evidence
    BY CurrentType DEF TypeOK
  <1>4. row'[active] \in Row
    BY <1>1, <1>2, <1>3, BoundsAssumption DEF Row, States
  <1>5. row'[active] # NoRow
    BY <1>4, NoRowAssumption
  <1>. QED BY <1>1, <1>4, <1>5 DEF Schedule, TypeOK, settings, Scheduled

(* Nothing runs backwards, and what lapses does so with a new revision.      *)
LEMMA Grows ==
  ASSUME TypeOK, TypeOK', OneHead, [Next]_vars, NEW t \in Terms
  PROVE  /\ clock' >= clock
         /\ prep'[t].version >= prep[t].version
         /\ staged'.revision >= staged.revision
         /\ \A u \in Users : user'[u].revision >= user[u].revision
         /\ lapsed'[t] /\ row[t] # NoRow =>
               \/ lapsed[t]
               \/ user'[row[t].by].revision > user[row[t].by].revision
               \/ prep'[t].version > prep[t].version
               \/ staged'.revision > staged.revision
  <1> DEFINE P == /\ clock' >= clock
                  /\ prep'[t].version >= prep[t].version
                  /\ staged'.revision >= staged.revision
                  /\ \A u \in Users : user'[u].revision >= user[u].revision
                  /\ lapsed'[t] /\ row[t] # NoRow =>
                       \/ lapsed[t]
                       \/ user'[row[t].by].revision > user[row[t].by].revision
                       \/ prep'[t].version > prep[t].version
                       \/ staged'.revision > staged.revision
  <1> SUFFICES P
    OBVIOUS
  <1>0. /\ clock \in Nat /\ prep[t].version \in Nat /\ staged.revision \in Nat
        /\ \A u \in Users : user[u].revision \in Nat
        /\ row[t] # NoRow => row[t].by \in Users
    BY DEF TypeOK, Times, Row
  <1>1. ASSUME NEW opens \in Times, Prepare(opens) PROVE P
    <2>1. prep'[active].version = prep[active].version + 1
      BY <1>1 DEF TypeOK, Prepare
    <2>. QED BY <1>0, <1>1, <2>1 DEF TypeOK, Prepare
  <1>2. CASE StageFeature
    BY <1>0, <1>2 DEF TypeOK, StageFeature
  <1>3. ASSUME NEW u \in Users, NEW v \in Users, TransferHead(u, v) PROVE P
    <2>1. u # v /\ user[u].head /\ ChangeAuthority({u, v})
      BY <1>3 DEF TransferHead
    <2>2. user[v].head = FALSE
      BY <2>1 DEF OneHead, TypeOK
    <2>3. /\ user'[u].revision = user[u].revision + 1
          /\ user'[v].revision = user[v].revision + 1
          /\ \A x \in Users \ {u, v} : user'[x] = user[x]
      BY <1>3, <2>1, <2>2 DEF TransferHead, Advance, TypeOK
    <2>. QED BY <1>0, <2>1, <2>3 DEF TypeOK, ChangeAuthority, settings
  <1>4. ASSUME NEW u \in Users, SetSuspension(u) PROVE P
    <2>1. user'[u].revision = user[u].revision + 1 /\ \A x \in Users \ {u} : user'[x] = user[x]
      BY <1>4 DEF SetSuspension, Advance, TypeOK
    <2>2. ChangeAuthority({u})
      BY <1>4 DEF SetSuspension
    <2>. QED BY <1>0, <2>1, <2>2 DEF TypeOK, ChangeAuthority, settings
  <1>5. ASSUME Activate PROVE staged'.revision >= staged.revision /\ prep' = prep
    BY <1>0, <1>5 DEF Activate
  <1>6. ASSUME NEW u \in Users, RefreshNow(u) PROVE P
    BY <1>0, <1>5, <1>6 DEF RefreshNow, ghosts
  <1>7. ASSUME NEW u \in Users, NEW at \in Times, Schedule(u, at) PROVE P
    <2>1. clock' = clock /\ prep' = prep /\ staged' = staged /\ user' = user
      BY <1>7 DEF Schedule, settings
    <2>2. lapsed'[t] => lapsed[t]
      BY <1>7 DEF Schedule, TypeOK
    <2>. QED BY <1>0, <2>1, <2>2
  <1>8. ASSUME NEW i \in Instances, Execute(i) \/ ExecuteUnheard(i) PROVE P
    <2>1. PICK x : Executes(x)
      BY <1>8 DEF Execute, ExecuteUnheard
    <2>2. staged'.revision >= staged.revision /\ prep' = prep
      BY <1>0, <1>5, <2>1 DEF Executes, settings
    <2>. QED BY <1>0, <1>8, <2>2 DEF Execute, ExecuteUnheard
  <1>9. CASE Tick
    BY <1>0, <1>9 DEF Tick, settings, ghosts
  <1>10. ASSUME /\ clock' = clock /\ lapsed' = lapsed /\ user' = user
                /\ prep' = prep /\ staged' = staged
         PROVE  P
    BY <1>0, <1>10
  <1> HIDE DEF P
  <1>11. ASSUME NEW z \in Zones, SetTimeZone(z) PROVE P
    BY <1>10, <1>11 DEF SetTimeZone, ghosts
  <1>12. ASSUME \/ Revert \/ UNCHANGED vars
                \/ \E u \in Users, x \in Terms : Cancel(u, x)
         PROVE  P
    <2>1. CASE Revert
      BY <1>10, <2>1 DEF Revert, ghosts, settings
    <2>2. CASE UNCHANGED vars
      BY <1>10, <2>2 DEF vars
    <2>3. ASSUME NEW u \in Users, NEW x \in Terms, Cancel(u, x) PROVE P
      BY <1>10, <2>3 DEF Cancel, ghosts, settings
    <2>. QED BY <1>12, <2>1, <2>2, <2>3
  <1>13. ASSUME NEW i \in Instances, Sweep(i) \/ ExecuteFails(i) \/ Record(i) \/ Abandon(i)
         PROVE  P
    BY <1>10, <1>13 DEF Sweep, ExecuteFails, Record, Abandon, ghosts, settings
  <1>14. ASSUME NEW i \in Instances, Work(i) \/ Abandon(i) PROVE P
    BY <1>8, <1>13, <1>14 DEF Work
  <1>15. CASE Next
    BY <1>1, <1>2, <1>3, <1>4, <1>6, <1>7, <1>9, <1>11, <1>12, <1>14, <1>15 DEF Next
  <1>. QED BY <1>12, <1>15

LEMMA FailuresGrow ==
  ASSUME TypeOK, [Next]_vars, NEW t \in Terms
  PROVE  \/ failures'[t] >= failures[t]
         \/ t = active /\ \E u \in Users, at \in Times : Schedule(u, at)
  <1>0. failures[t] \in Nat
    BY DEF TypeOK
  <1>1. ASSUME NEW u \in Users, NEW at \in Times, Schedule(u, at), t # active
        PROVE  failures'[t] >= failures[t]
    BY <1>0, <1>1 DEF Schedule, TypeOK
  <1>2. ASSUME NEW i \in Instances, ExecuteFails(i) PROVE failures'[t] >= failures[t]
    BY <1>0, <1>2 DEF TypeOK, ExecuteFails
  <1>3. failures' = failures => failures'[t] >= failures[t]
    BY <1>0
  <1>. QED BY <1>1, <1>2, <1>3
           DEF Next, Work, vars, Prepare, StageFeature, SetTimeZone, TransferHead,
               SetSuspension, ChangeAuthority, RefreshNow, Cancel, Revert, Sweep, Execute,
               ExecuteUnheard, Record, Abandon, Tick, ghosts

(* The list of an instance: swept, worked off, or dropped.                   *)
LEMMA QueueSteps ==
  ASSUME TypeOK, [Next]_vars, NEW i \in Instances
  PROVE  \/ worker'[i] = worker[i]
         \/ worker'[i] = Idle
         \/ Sweep(i)
         \/ worker[i].pc # "idle" /\ worker'[i] = Finished(worker[i])
         \/ (ExecuteUnheard(i) \/ ExecuteFails(i)) /\ worker'[i] = Failing(worker[i])
  <1> DEFINE P == \/ worker'[i] = worker[i]
                  \/ worker'[i] = Idle
                  \/ Sweep(i)
                  \/ worker[i].pc # "idle" /\ worker'[i] = Finished(worker[i])
                  \/ (ExecuteUnheard(i) \/ ExecuteFails(i)) /\ worker'[i] = Failing(worker[i])
  <1>1. ASSUME NEW j \in Instances, Sweep(j) PROVE P
    BY <1>1 DEF Sweep, TypeOK
  <1>2. ASSUME NEW j \in Instances, Execute(j) PROVE P
    BY <1>2 DEF Execute, TypeOK
  <1>3. ASSUME NEW j \in Instances, ExecuteUnheard(j) PROVE P
    <2>1. worker'[i] = IF i = j THEN Failing(worker[i]) ELSE worker[i]
      BY <1>3 DEF ExecuteUnheard, TypeOK
    <2>. QED BY <1>3, <2>1
  <1>4. ASSUME NEW j \in Instances, ExecuteFails(j) PROVE P
    <2>1. worker'[i] = IF i = j THEN Failing(worker[i]) ELSE worker[i]
      BY <1>4 DEF ExecuteFails, TypeOK
    <2>. QED BY <1>4, <2>1
  <1>5. ASSUME NEW j \in Instances, Record(j) PROVE P
    BY <1>5 DEF Record, TypeOK
  <1>6. ASSUME NEW j \in Instances, Abandon(j) PROVE P
    BY <1>6 DEF Abandon, TypeOK
  <1> HIDE DEF P
  <1>7. worker' = worker => P
    BY DEF P
  <1>8. P
    BY <1>1, <1>2, <1>3, <1>4, <1>5, <1>6, <1>7
       DEF Next, Work, vars, Prepare, StageFeature, SetTimeZone, TransferHead,
           SetSuspension, ChangeAuthority, RefreshNow, Schedule, Cancel, Revert, Tick
  <1>. QED BY <1>8 DEF P

-----------------------------------------------------------------------------
(* The parts of the invariant.                                               *)

LEMMA SourcesStep ==
  ASSUME TypeOK, TypeOK', AttemptLeft, Sources, [Next]_vars
  PROVE  Sources'
  <1>1. ASSUME NEW u \in Users, NEW at \in Times, Schedule(u, at) PROVE Sources'
    <2>0. Scheduled(u, at)
      BY <1>1, ScheduleRow
    <2>1. /\ active < Last /\ row'[active].seen = Current
          /\ \A s \in Terms \ {active} : row'[s] = row[s]
      BY <2>0 DEF Scheduled
    <2>2. row'[active].seen.source = active
      BY <2>1 DEF Current
    <2>. QED BY <2>1, <2>2 DEF Sources
  <1>2. ASSUME NEW t \in Terms, Continues(t) PROVE Sources'
    BY <1>2 DEF Sources, Continues
  <1>. QED BY <1>1, <1>2, RowSteps DEF Sources

LEMMA AttemptLeftStep ==
  ASSUME TypeOK, TypeOK', AttemptLeft, [Next]_vars
  PROVE  AttemptLeft'
  <1>1. ASSUME NEW u \in Users, NEW at \in Times, Schedule(u, at) PROVE AttemptLeft'
    <2>0. Scheduled(u, at)
      BY <1>1, ScheduleRow
    <2>1. row'[active].attempts = 0 /\ \A s \in Terms \ {active} : row'[s] = row[s]
      BY <2>0 DEF Scheduled
    <2>. QED BY <2>1, BoundsAssumption DEF AttemptLeft
  <1>2. ASSUME NEW t \in Terms, Continues(t) PROVE AttemptLeft'
    BY <1>2 DEF AttemptLeft, Continues, Terminal
  <1>. QED BY <1>1, <1>2, RowSteps DEF AttemptLeft

LEMMA NoticedStep ==
  ASSUME TypeOK, TypeOK', AttemptLeft, NoticedOnce, [Next]_vars
  PROVE  NoticedOnce'
  <1>1. ASSUME NEW u \in Users, NEW at \in Times, Schedule(u, at) PROVE NoticedOnce'
    <2>0. Scheduled(u, at)
      BY <1>1, ScheduleRow
    <2>1. /\ row'[active].state = "SCHEDULED" /\ notices'[active] = 0
          /\ \A s \in Terms \ {active} : row'[s] = row[s] /\ notices'[s] = notices[s]
      BY <2>0 DEF Scheduled
    <2>. QED BY <2>1 DEF NoticedOnce, Terminal
  <1>2. ASSUME NEW t \in Terms, Continues(t) PROVE NoticedOnce'
    BY <1>2 DEF NoticedOnce, Continues, Terminal
  <1>. QED BY <1>1, <1>2, RowSteps DEF NoticedOnce

LEMMA OneHeadStep ==
  ASSUME TypeOK, OneHead, [Next]_vars
  PROVE  OneHead'
  <1>1. ASSUME NEW u \in Users, NEW v \in Users, TransferHead(u, v) PROVE OneHead'
    <2>1. u # v /\ user[u].head
      BY <1>1 DEF TransferHead
    <2>2. user'[u].head = FALSE /\ \A x \in Users \ {u, v} : user'[x] = user[x]
      BY <1>1 DEF TransferHead, Advance, TypeOK
    <2>3. \A x \in Users \ {u} : user[x].head = FALSE
      BY <2>1 DEF OneHead, TypeOK
    <2>. QED BY <2>2, <2>3 DEF OneHead
  <1>2. ASSUME NEW u \in Users, SetSuspension(u) PROVE OneHead'
    <2>1. \A x \in Users : user'[x].head = user[x].head
      BY <1>2 DEF SetSuspension, Advance, TypeOK
    <2>. QED BY <2>1 DEF OneHead
  <1>3. user' = user => OneHead'
    BY DEF OneHead
  <1>. QED BY <1>1, <1>2, <1>3
           DEF Next, Work, vars, Prepare, StageFeature, SetTimeZone, Schedule, Cancel,
               RefreshNow, Revert, Sweep, Execute, ExecuteUnheard, ExecuteFails, Record,
               Abandon, Tick

LEMMA BehindStep ==
  ASSUME TypeOK, TypeOK', AttemptLeft, OneHead, Behind, [Next]_vars
  PROVE  Behind'
  <1> DEFINE Far(q, t) ==
        /\ q.authority <= user'[q.by].revision
        /\ q.seen.prep <= prep'[t].version
        /\ q.seen.staged <= staged'.revision
        /\ lapsed'[t] => \/ q.authority < user'[q.by].revision
                         \/ q.seen.prep < prep'[t].version
                         \/ q.seen.staged < staged'.revision
  <1>1. SUFFICES ASSUME NEW t \in Terms, row'[t] # NoRow PROVE Far(row'[t], t)
    BY DEF Behind
  <1>2. ASSUME row[t] # NoRow PROVE Far(row[t], t)
    <2>1. /\ row[t].by \in Users /\ row[t].authority \in Nat
          /\ row[t].seen.prep \in Nat /\ row[t].seen.staged \in Nat
      BY <1>2 DEF TypeOK, Row, Evidence
    <2>2. /\ prep[t].version \in Nat /\ prep'[t].version \in Nat
          /\ staged.revision \in Nat /\ staged'.revision \in Nat
          /\ user[row[t].by].revision \in Nat /\ user'[row[t].by].revision \in Nat
      BY <2>1 DEF TypeOK
    <2>3. /\ prep'[t].version >= prep[t].version
          /\ staged'.revision >= staged.revision
          /\ user'[row[t].by].revision >= user[row[t].by].revision
          /\ lapsed'[t] => \/ lapsed[t]
                           \/ user'[row[t].by].revision > user[row[t].by].revision
                           \/ prep'[t].version > prep[t].version
                           \/ staged'.revision > staged.revision
      BY <1>2, <2>1, Grows
    <2>4. /\ row[t].authority <= user[row[t].by].revision
          /\ row[t].seen.prep <= prep[t].version
          /\ row[t].seen.staged <= staged.revision
          /\ lapsed[t] => \/ row[t].authority < user[row[t].by].revision
                          \/ row[t].seen.prep < prep[t].version
                          \/ row[t].seen.staged < staged.revision
      BY <1>2 DEF Behind
    <2>. QED BY <2>1, <2>2, <2>3, <2>4
  <1>3. ASSUME NEW u \in Users, NEW at \in Times, Schedule(u, at) PROVE Far(row'[t], t)
    <2>0. Scheduled(u, at)
      BY <1>3, ScheduleRow
    <2>1. /\ row'[active].by = u /\ row'[active].authority = user[u].revision
          /\ row'[active].seen = Current /\ lapsed'[active] = FALSE
          /\ \A s \in Terms \ {active} : row'[s] = row[s]
          /\ prep' = prep /\ staged' = staged /\ user' = user
      BY <2>0 DEF Scheduled
    <2>2. /\ user[u].revision \in Nat /\ prep[active].version \in Nat /\ staged.revision \in Nat
          /\ Current.prep = prep[active].version /\ Current.staged = staged.revision
      BY DEF TypeOK, Current
    <2>3. Far(row'[active], active)
      BY <2>1, <2>2
    <2>4. t # active => row'[t] = row[t]
      BY <2>1
    <2> HIDE DEF Far
    <2>. QED BY <1>1, <1>2, <2>3, <2>4
  <1>4. ASSUME NEW s \in Terms, Continues(s) PROVE Far(row'[t], t)
    <2>1. /\ row'[t].by = row[t].by /\ row'[t].authority = row[t].authority
          /\ row'[t].seen = row[t].seen /\ row[t] # NoRow
      BY <1>1, <1>4 DEF Continues
    <2>. QED BY <1>2, <2>1
  <1> HIDE DEF Far
  <1>. QED BY <1>1, <1>2, <1>3, <1>4, RowSteps

(* An item stays selected as long as it waits.                              *)
LEMMA ItemKept ==
  ASSUME TypeOK, TypeOK', AttemptLeft, OneHead, [Next]_vars,
         NEW t \in Terms, NEW version \in Nat, SelectedItem(t, version)
  PROVE  SelectedItem(t, version)'
  <1>1. row[t] \in Row /\ row[t] # NoRow
    BY DEF SelectedItem, TypeOK
  <1>2. row'[t] \in Row /\ (row'[t] = row[t] \/ row'[t].version > row[t].version)
    BY <1>1, RowMoves
  <1>3. clock' >= clock /\ clock \in Nat /\ clock' \in Nat
    BY Grows DEF TypeOK, Times
  <1>4. row'[t].version \in Nat /\ row[t].version \in Nat /\ row[t].at \in Nat /\ row'[t] # NoRow
    BY <1>1, <1>2, NoRowAssumption DEF Row, Times
  <1>. QED BY <1>2, <1>3, <1>4 DEF SelectedItem

LEMMA SelectedStep ==
  ASSUME TypeOK, TypeOK', AttemptLeft, OneHead, Selected, [Next]_vars
  PROVE  Selected'
  <1>1. SUFFICES ASSUME NEW i \in Instances, NEW k \in DOMAIN worker'[i].queue,
                        NEW t \in Terms, NEW n \in Nat, worker'[i].queue[k] = <<t, n>>
                 PROVE  SelectedItem(t, n)'
    BY DEF Selected
  <1>2. ASSUME NEW j \in DOMAIN worker[i].queue, worker'[i].queue[k] = worker[i].queue[j]
        PROVE  SelectedItem(t, n)'
    <2>1. SelectedItem(t, n)
      BY <1>1, <1>2 DEF Selected
    <2>. QED BY <2>1, ItemKept
  <1>3. CASE worker'[i] = worker[i]
    BY <1>1, <1>2, <1>3
  <1>4. CASE worker'[i] = Idle
    BY <1>1, <1>4 DEF Idle
  <1>5. CASE Sweep(i)
    <2>1. PICK q \in [1 .. Cardinality(Selectable) -> Selectable] :
            worker' = [worker EXCEPT ![i] =
              [pc |-> "execute", queue |-> [x \in DOMAIN q |-> <<q[x], row[q[x]].version>>]]]
      BY <1>5 DEF Sweep
    <2>2. worker'[i].queue = [x \in DOMAIN q |-> <<q[x], row[q[x]].version>>]
      BY <2>1 DEF TypeOK
    <2>3. k \in DOMAIN q /\ q[k] \in Selectable
      BY <1>1, <2>2
    <2>4. t = q[k] /\ n = row[t].version
      BY <1>1, <2>2, <2>3
    <2>5. row[t] # NoRow /\ row[t].at <= clock
      BY <2>3, <2>4 DEF Selectable, Due
    <2>6. SelectedItem(t, n)
      BY <2>4, <2>5 DEF SelectedItem
    <2>. QED BY <2>6, ItemKept
  <1>6. CASE worker[i].pc # "idle" /\ worker'[i] = Finished(worker[i])
    <2>1. worker[i] \in Worker /\ worker[i].queue \in Seq(Item) \ {<< >>}
      BY <1>6, FinishedType DEF TypeOK
    <2>2. worker'[i].queue = Tail(worker[i].queue)
      BY <1>1, <1>6 DEF Finished, Idle
    <2>3. k + 1 \in DOMAIN worker[i].queue /\ worker'[i].queue[k] = worker[i].queue[k + 1]
      BY <1>1, <2>1, <2>2, QueueParts
    <2>. QED BY <1>2, <2>3
  <1>7. CASE worker'[i] = Failing(worker[i])
    <2>1. worker'[i].queue = worker[i].queue
      BY <1>7 DEF Failing, TypeOK, Worker, Idle
    <2>. QED BY <1>1, <1>2, <2>1
  <1>. QED BY <1>3, <1>4, <1>5, <1>6, <1>7, QueueSteps

LEMMA OwedStep ==
  ASSUME TypeOK, TypeOK', AttemptLeft, OneHead, Selected, Owed, ChargedForOwnFailures,
         [Next]_vars
  PROVE  Owed'
  <1>1. SUFFICES ASSUME NEW i \in Instances, NEW t \in Terms, NEW n \in Nat,
                        worker'[i].pc = "record", Head(worker'[i].queue) = <<t, n>>
                 PROVE  OwedItem(t, n)'
    BY DEF Owed
  <1>2. /\ worker[i].pc # "idle" /\ worker[i] \in Worker
        /\ worker'[i].queue = worker[i].queue
        /\ \/ worker'[i] = worker[i]
           \/ ExecuteUnheard(i) \/ ExecuteFails(i)
    <2>1. CASE worker'[i] = worker[i]
      BY <1>1, <2>1 DEF TypeOK
    <2>2. CASE (ExecuteUnheard(i) \/ ExecuteFails(i)) /\ worker'[i] = Failing(worker[i])
      BY <2>2, FinishedType DEF TypeOK, ExecuteUnheard, ExecuteFails
    <2>3. ASSUME Sweep(i) PROVE FALSE
      <3>1. PICK q \in [1 .. Cardinality(Selectable) -> Selectable] :
              worker' = [worker EXCEPT ![i] =
                [pc |-> "execute", queue |-> [x \in DOMAIN q |-> <<q[x], row[q[x]].version>>]]]
        BY <2>3 DEF Sweep
      <3>2. worker'[i].pc = "execute"
        BY <3>1 DEF TypeOK
      <3>. QED BY <1>1, <3>2
    <2>4. worker'[i] # Idle /\ worker'[i] # Finished(worker[i])
      BY <1>1 DEF Idle, Finished
    <2>. QED BY <2>1, <2>2, <2>3, <2>4, QueueSteps
  <1>3. Head(worker[i].queue) = <<t, n>>
    BY <1>1, <1>2
  <1>4. SelectedItem(t, n)
    <2>1. 1 \in DOMAIN worker[i].queue /\ worker[i].queue[1] = <<t, n>>
      BY <1>2, <1>3, FinishedType, QueueParts
    <2>. QED BY <2>1 DEF Selected
  <1>5. row[t] \in Row /\ row[t].version \in Nat /\ row[t].attempts \in Nat /\ failures[t] \in Nat
        /\ failures'[t] \in Nat
    BY <1>4, BoundsAssumption DEF SelectedItem, TypeOK, Row
  <1>6. row'[t] \in Row /\ (row'[t] = row[t] \/ row'[t].version > row[t].version)
    BY <1>4, RowMoves DEF SelectedItem
  <1>7. SUFFICES ASSUME row'[t].state = "SCHEDULED", row'[t].version = n
                 PROVE  row'[t].attempts < failures'[t]
    BY DEF OwedItem
  <1>8. row'[t] = row[t]
    BY <1>4, <1>5, <1>6, <1>7 DEF SelectedItem, Row
  <1>9. failures'[t] >= failures[t]
    <2>1. ASSUME t = active, NEW u \in Users, NEW at \in Times, Schedule(u, at) PROVE FALSE
      <3>1. Scheduled(u, at)
        BY <2>1, ScheduleRow
      <3>2. row'[t].version = row[t].version + 1
        BY <1>4, <2>1, <3>1 DEF Scheduled, Version, SelectedItem
      <3>. QED BY <1>5, <1>8, <3>2
    <2>. QED BY <2>1, FailuresGrow
  <1>10. CASE worker'[i] = worker[i]
    <2>1. row[t].attempts < failures[t]
      BY <1>1, <1>3, <1>7, <1>8, <1>10 DEF Owed, OwedItem
    <2>. QED BY <1>5, <1>8, <1>9, <2>1
  <1>11. CASE ExecuteFails(i)
    <2>1. failures'[t] = failures[t] + 1
      BY <1>3, <1>11 DEF ExecuteFails, TypeOK
    <2>2. row[t].attempts <= failures[t]
      BY <1>4 DEF ChargedForOwnFailures, SelectedItem
    <2>. QED BY <1>5, <1>8, <2>1, <2>2
  <1>12. CASE ExecuteUnheard(i)
    <2>1. Executes(t)
      BY <1>3, <1>12 DEF ExecuteUnheard
    <2>2. Due(t)
      BY <1>4, <1>7, <1>8 DEF Due, SelectedItem
    <2>3. \E state \in {"COMPLETED", "BLOCKED"} : Ends(t, state)
      BY <2>1, <2>2 DEF Executes
    <2>4. Continues(t)
      BY <2>2, <2>3, EndsContinues DEF Due
    <2>. QED BY <1>5, <1>8, <2>4 DEF Continues
  <1>. QED BY <1>2, <1>10, <1>11, <1>12

LEMMA ChargedStep ==
  ASSUME TypeOK, TypeOK', AttemptLeft, OneHead, Selected, Owed, ChargedForOwnFailures,
         [Next]_vars
  PROVE  ChargedForOwnFailures'
  <1>1. SUFFICES ASSUME NEW t \in Terms, row'[t] # NoRow
                 PROVE  row'[t].attempts <= failures'[t]
    BY DEF ChargedForOwnFailures
  <1>2. ASSUME row[t] # NoRow
        PROVE  /\ row[t].attempts \in Nat /\ failures[t] \in Nat /\ failures'[t] \in Nat
               /\ row[t].attempts <= failures[t]
    BY <1>2, BoundsAssumption DEF TypeOK, Row, ChargedForOwnFailures
  <1>3. ASSUME NEW u \in Users, NEW at \in Times, Schedule(u, at)
        PROVE  row'[t].attempts <= failures'[t]
    <2>0. Scheduled(u, at)
      BY <1>3, ScheduleRow
    <2>1. CASE t = active
      BY <2>0, <2>1 DEF Scheduled
    <2>2. CASE t # active
      BY <1>1, <1>2, <2>0, <2>2 DEF Scheduled
    <2>. QED BY <2>1, <2>2
  <1>4. ASSUME ~\E u \in Users, at \in Times : Schedule(u, at)
        PROVE  failures'[t] >= failures[t]
    BY <1>4, FailuresGrow
  <1>5. CASE row' = row /\ ~\E u \in Users, at \in Times : Schedule(u, at)
    BY <1>1, <1>2, <1>4, <1>5
  <1>6. ASSUME NEW s \in Terms, Continues(s), ~\E u \in Users, at \in Times : Schedule(u, at)
        PROVE  row'[t].attempts <= failures'[t]
    <2>1. CASE row'[t] = row[t] \/ row'[t].attempts = row[t].attempts
      BY <1>1, <1>2, <1>4, <1>6, <2>1 DEF Continues
    <2>2. CASE row'[t].attempts # row[t].attempts
      <3>1. /\ s = t /\ row[t] # NoRow /\ row[t].state = "SCHEDULED"
            /\ row'[t].attempts = row[t].attempts + 1
        BY <1>6, <2>2 DEF Continues
      <3>2. PICK i \in Instances : ChargedBy(i, t)
        BY <1>6, <2>2, <3>1 DEF Continues
      <3>3. row[t].attempts < failures[t]
        <4>1. worker[i].pc = "record" /\ Head(worker[i].queue) \in Item
          BY <3>2, FinishedType DEF ChargedBy, TypeOK
        <4>2. Head(worker[i].queue) = <<t, row[t].version>> /\ row[t].version \in Nat
          BY <3>2, <4>1 DEF ChargedBy, Item
        <4>. QED BY <3>1, <4>1, <4>2 DEF Owed, OwedItem
      <3>. QED BY <1>2, <1>4, <1>6, <3>1, <3>3
    <2>. QED BY <2>1, <2>2
  <1>. QED BY <1>3, <1>5, <1>6, RowSteps

-----------------------------------------------------------------------------
(* The theorems.                                                             *)

LEMMA InvInit == Init => IInv
  <1> SUFFICES ASSUME Init PROVE IInv
    OBVIOUS
  <1>1. TypeOK
    BY TypeInit
  <1>2. \A i \in Instances : worker[i].pc = "idle" /\ worker[i].queue = << >>
    BY DEF Init, Idle
  <1>3. Selected /\ Owed
    BY <1>2 DEF Selected, Owed
  <1>4. OneHead
    BY DEF Init, OneHead
  <1>. QED BY <1>1, <1>3, <1>4
           DEF Init, IInv, Sources, AttemptLeft, Behind, NoticedOnce, ChargedForOwnFailures

LEMMA InvStep == IInv /\ [Next]_vars => IInv'
  <1> SUFFICES ASSUME IInv, [Next]_vars PROVE IInv'
    OBVIOUS
  <1> USE DEF IInv
  <1>1. TypeOK'
    BY TypeStep
  <1>2. Sources' /\ AttemptLeft' /\ NoticedOnce'
    BY <1>1, SourcesStep, AttemptLeftStep, NoticedStep
  <1>3. OneHead' /\ Behind'
    BY <1>1, OneHeadStep, BehindStep
  <1>4. Selected' /\ Owed' /\ ChargedForOwnFailures'
    BY <1>1, SelectedStep, OwedStep, ChargedStep
  <1>. QED BY <1>1, <1>2, <1>3, <1>4

(* The schedules, the reviews they rest on and the lists the instances work  *)
(* through stay consistent in every reachable state.                         *)
THEOREM Invariance == Spec => []IInv
  <1>. QED BY InvInit, InvStep, PTL DEF Spec

(* Rows, lists and revisions keep their types, for any number of instances.  *)
THEOREM TypeCorrect == Spec => []TypeOK
  <1>1. IInv => TypeOK
    BY DEF IInv
  <1>. QED BY <1>1, Invariance, PTL

(* The end of an authorization is reported once, however many instances      *)
(* execute it or record its failure (terminalNotice).                        *)
THEOREM ReportedOnce == Spec => []NoticedOnce
  <1>1. IInv => NoticedOnce
    BY DEF IInv
  <1>. QED BY <1>1, Invariance, PTL

(* recordScheduledRefreshFailure charges an authorization only with failures *)
(* of its own executions.                                                    *)
THEOREM ChargedFairly == Spec => []ChargedForOwnFailures
  <1>1. IInv => ChargedForOwnFailures
    BY DEF IInv
  <1>. QED BY <1>1, Invariance, PTL

-----------------------------------------------------------------------------
(* The schedule implements the grant.                                        *)

GrantOf(q, gone) ==
    IF q = NoRow THEN "none"
    ELSE CASE q.state = "COMPLETED" -> "spent"
           [] q.state = "SCHEDULED" /\ ~gone -> "live"
           [] OTHER -> "void"

LEMMA GrantIs == \A t \in Terms : grant[t] = GrantOf(row[t], lapsed[t])
  BY DEF grant, GrantOf

LEMMA RefinesInit == Init => Granted!Init
  BY DEF Init, Granted!Init, grant

(* What a step does to the period and to the authorizations at once.         *)
Steady == row' = row /\ active' = active /\ \A t \in Terms : lapsed[t] => lapsed'[t]
InHand == row' = row /\ lapsed' = lapsed /\ active' \in Terms
Falls(t) == /\ Continues(t) /\ lapsed' = lapsed /\ active' = active
            /\ row[t].state # "COMPLETED" /\ row'[t].state # "COMPLETED"
Fulfils(t) == /\ Continues(t) /\ lapsed' = lapsed /\ active' = active + 1
              /\ row[t].state = "SCHEDULED" /\ row'[t].state = "COMPLETED"
              /\ StillReviewed(t) /\ StillAuthorized(t)

LEMMA PeriodSteps ==
  ASSUME TypeOK, TypeOK', AttemptLeft, [Next]_vars
  PROVE  \/ Steady \/ InHand
         \/ \E u \in Users, at \in Times : Schedule(u, at)
         \/ \E t \in Terms : Falls(t) \/ Fulfils(t)
  <1>1. ASSUME NEW u \in Users, NEW t \in Terms, Cancel(u, t) PROVE Falls(t)
    <2>1. Continues(t) /\ row'[t].state = "CANCELLED"
      BY <1>1, CancelContinues
    <2>. QED BY <1>1, <2>1 DEF Cancel, ghosts, Falls
  <1>2. ASSUME NEW i \in Instances, Record(i)
        PROVE  Steady \/ \E t \in Terms : Falls(t)
    <2>1. \/ row' = row
          \/ \E t \in Terms : Continues(t) /\ row[t].state = "SCHEDULED" /\ row'[t].state # "COMPLETED"
      BY <1>2, RecordContinues
    <2>. QED BY <1>2, <2>1 DEF Record, Steady, Falls
  <1>3. ASSUME NEW i \in Instances, Execute(i) \/ ExecuteUnheard(i)
        PROVE  Steady \/ \E t \in Terms : Falls(t) \/ Fulfils(t)
    <2>1. worker[i].pc # "idle" /\ lapsed' = lapsed
      BY <1>3 DEF Execute, ExecuteUnheard
    <2>2. PICK t \in Terms : Executes(t)
      BY <1>3, <2>1, FinishedType DEF TypeOK, Item, Execute, ExecuteUnheard
    <2>3. CASE Due(t) /\ StillReviewed(t) /\ StillAuthorized(t)
      <3>1. Ends(t, "COMPLETED") /\ active' = active + 1
        BY <2>2, <2>3 DEF Executes, Activate
      <3>2. Continues(t) /\ row'[t].state = "COMPLETED"
        BY <2>3, <3>1, EndsContinues DEF Due
      <3>. QED BY <2>1, <2>3, <3>1, <3>2 DEF Fulfils, Due
    <2>4. CASE Due(t) /\ ~(StillReviewed(t) /\ StillAuthorized(t))
      <3>1. Ends(t, "BLOCKED") /\ active' = active
        BY <2>2, <2>4 DEF Executes
      <3>2. Continues(t) /\ row'[t].state = "BLOCKED"
        BY <2>4, <3>1, EndsContinues DEF Due
      <3>. QED BY <2>1, <2>4, <3>1, <3>2 DEF Falls, Due
    <2>5. CASE ~Due(t)
      BY <2>1, <2>2, <2>5 DEF Executes, Steady
    <2>. QED BY <2>3, <2>4, <2>5
  <1>4. ASSUME NEW u \in Users, RefreshNow(u) PROVE InHand
    BY <1>4 DEF RefreshNow, ghosts, InHand, TypeOK
  <1>5. CASE Revert
    BY <1>5 DEF Revert, ghosts, InHand, TypeOK
  <1>6. ASSUME NEW opens \in Times, Prepare(opens) PROVE Steady
    BY <1>6 DEF Prepare, Steady, TypeOK
  <1>7. CASE StageFeature
    BY <1>7 DEF StageFeature, Steady
  <1>8. ASSUME NEW changed, ChangeAuthority(changed) PROVE Steady
    BY <1>8 DEF ChangeAuthority, Steady
  <1>9. ASSUME row' = row, active' = active, lapsed' = lapsed PROVE Steady
    BY <1>9 DEF Steady
  <1>. QED BY <1>1, <1>2, <1>3, <1>4, <1>5, <1>6, <1>7, <1>8, <1>9
           DEF Next, Work, vars, SetTimeZone, TransferHead, SetSuspension, Sweep,
               ExecuteFails, Abandon, Tick, ghosts

LEMMA RefinesStep ==
  ASSUME IInv, IInv', [Next]_vars
  PROVE  [Granted!Next]_<<grant, active>>
  <1> USE DEF IInv
  <1>0. /\ grant = [t \in Terms |-> GrantOf(row[t], lapsed[t])]
        /\ grant' = [t \in Terms |-> GrantOf(row'[t], lapsed'[t])]
    BY DEF grant, GrantOf
  <1>1. \A t \in Terms : row[t] \in Row \cup {NoRow} /\ lapsed[t] \in BOOLEAN
    BY DEF TypeOK
  <1>2. CASE Steady
    <2> DEFINE S == {t \in Terms : grant[t] = "live" /\ grant'[t] # grant[t]}
    <2>1. \A t \in Terms : grant'[t] = grant[t] \/ (grant[t] = "live" /\ grant'[t] = "void")
      BY <1>0, <1>2 DEF Steady, GrantOf
    <2>2. grant' = [t \in Terms |-> IF t \in S THEN "void" ELSE grant[t]]
      BY <1>0, <2>1
    <2>3. Granted!Void(S) /\ S \in SUBSET Terms
      BY <1>2, <2>2 DEF Steady, Granted!Void
    <2>. QED BY <2>3 DEF Granted!Next
  <1>3. CASE InHand
    <2>1. grant' = grant
      BY <1>0, <1>3 DEF InHand
    <2>. QED BY <1>3, <2>1 DEF InHand, Granted!InPerson, Granted!Next
  <1>4. ASSUME NEW u \in Users, NEW at \in Times, Schedule(u, at)
        PROVE  Granted!Grant(active)
    <2>0. Scheduled(u, at)
      BY <1>4, ScheduleRow
    <2>1. GrantOf(row'[active], lapsed'[active]) = "live"
      BY <2>0 DEF Scheduled, GrantOf
    <2>2. grant[active] \in {"none", "live", "void"}
      BY <1>0, <2>0 DEF Scheduled, GrantOf, TypeOK
    <2>3. \A s \in Terms \ {active} : row'[s] = row[s] /\ lapsed'[s] = lapsed[s]
      BY <2>0 DEF Scheduled
    <2>4. grant' = [grant EXCEPT ![active] = "live"]
      BY <1>0, <2>1, <2>3
    <2>. QED BY <2>0, <2>2, <2>4 DEF Scheduled, Granted!Grant
  <1>5. ASSUME NEW t \in Terms, Falls(t)
        PROVE  grant' = grant \/ (Granted!Void({t}) /\ {t} \in SUBSET Terms)
    <2>1. \A s \in Terms \ {t} : row'[s] = row[s]
      BY <1>5 DEF Falls, Continues
    <2>2. \/ GrantOf(row'[t], lapsed'[t]) = grant[t]
          \/ grant[t] = "live" /\ GrantOf(row'[t], lapsed'[t]) = "void"
      <3>1. /\ row[t] # NoRow /\ row'[t] # NoRow /\ lapsed'[t] = lapsed[t]
            /\ row[t].state # "COMPLETED" /\ row'[t].state # "COMPLETED"
            /\ row'[t].state = "SCHEDULED" => row[t].state = "SCHEDULED"
        BY <1>5, NoRowAssumption DEF Falls, Continues, Terminal
      <3>. QED BY <1>0, <3>1 DEF GrantOf
    <2>3. \A s \in Terms \ {t} : grant'[s] = grant[s]
      BY <1>0, <1>5, <2>1 DEF Falls
    <2>4. CASE GrantOf(row'[t], lapsed'[t]) = grant[t]
      BY <1>0, <2>3, <2>4
    <2>5. CASE grant[t] = "live" /\ GrantOf(row'[t], lapsed'[t]) = "void"
      <3>1. grant' = [s \in Terms |-> IF s \in {t} THEN "void" ELSE grant[s]]
        BY <1>0, <2>3, <2>5
      <3>. QED BY <1>5, <2>5, <3>1 DEF Falls, Granted!Void
    <2>. QED BY <2>2, <2>4, <2>5
  <1>6. ASSUME NEW t \in Terms, Fulfils(t) PROVE Granted!Spend(t)
    <2>1. row[t] # NoRow /\ row'[t] # NoRow /\ row[t] \in Row
      BY <1>1, <1>6, NoRowAssumption DEF Fulfils, Continues
    <2>2. active = t
      BY <1>6, <2>1 DEF Fulfils, StillReviewed, Current, Sources
    <2>3. lapsed[t] = FALSE
      <3>1. /\ row[t].authority = user[row[t].by].revision
            /\ row[t].seen.prep = prep[t].version
            /\ row[t].seen.staged = staged.revision
        BY <1>6, <2>2 DEF Fulfils, StillAuthorized, StillReviewed, Current
      <3>2. /\ row[t].authority \in Nat /\ row[t].seen.prep \in Nat
            /\ row[t].seen.staged \in Nat
        BY <2>1 DEF Row, Evidence
      <3>3. ~lapsed[t]
        BY <2>1, <3>1, <3>2 DEF Behind
      <3>. QED BY <1>1, <3>3
    <2>4. grant[t] = "live" /\ GrantOf(row'[t], lapsed'[t]) = "spent"
      BY <1>0, <1>6, <2>1, <2>3 DEF Fulfils, GrantOf
    <2>5. \A s \in Terms \ {t} : row'[s] = row[s] /\ lapsed'[s] = lapsed[s]
      BY <1>6 DEF Fulfils, Continues
    <2>6. grant' = [grant EXCEPT ![t] = "spent"]
      BY <1>0, <2>4, <2>5
    <2>. QED BY <1>6, <2>2, <2>4, <2>6 DEF Fulfils, Granted!Spend
  <1>7. active \in Terms
    BY DEF TypeOK
  <1>8. ASSUME NEW t \in Terms, Falls(t) \/ Fulfils(t) PROVE [Granted!Next]_<<grant, active>>
    BY <1>5, <1>6, <1>8 DEF Granted!Next, Falls
  <1>9. ASSUME NEW u \in Users, NEW at \in Times, Schedule(u, at)
        PROVE  [Granted!Next]_<<grant, active>>
    BY <1>4, <1>7, <1>9 DEF Granted!Next
  <1>. QED BY <1>2, <1>3, <1>8, <1>9, PeriodSteps

(* Every activation by a server spends, in that step, a grant of the active  *)
(* term that was never withdrawn, overtaken or left by its Head.             *)
THEOREM GrantKept == Spec => OneShot
  <1>1. IInv /\ IInv' /\ [Next]_vars => [Granted!Next]_<<grant, active>>
    BY RefinesStep
  <1>. QED BY <1>1, RefinesInit, Invariance, PTL DEF Spec, OneShot, Granted!Spec

===============================================================================
