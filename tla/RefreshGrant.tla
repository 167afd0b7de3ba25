----------------------------- MODULE RefreshGrant -----------------------------
(***************************************************************************)
(* What a scheduled refresh promises (docs/guides/program-configuration.md *)
(* 375-396): a Head grants one activation of the period that follows a     *)
(* term.  The grant is spent in the step that activates that period, and a *)
(* grant that was withdrawn or whose Head lost the authority, even for a   *)
(* moment, is void until a Head grants again.  A spent grant stays spent.  *)
(***************************************************************************)
EXTENDS Naturals

CONSTANTS Terms      \* 1 .. n, in the order of the calendar

VARIABLES grant,     \* of each term: "none", "live", "void" or "spent"
          active     \* the term in force

Init == /\ grant = [t \in Terms |-> "none"]
        /\ active = 1

(* A Head reviews the change out of term t and authorizes it.              *)
Grant(t) == /\ grant[t] \in {"none", "live", "void"}
            /\ grant' = [grant EXCEPT ![t] = "live"]
            /\ UNCHANGED active

(* Cancelled, refused, given up, or overtaken by a change of its Head or of *)
(* what was reviewed.                                                       *)
Void(S) == /\ \A t \in S : grant[t] = "live"
           /\ grant' = [t \in Terms |-> IF t \in S THEN "void" ELSE grant[t]]
           /\ UNCHANGED active

Spend(t) == /\ grant[t] = "live" /\ active = t
            /\ grant' = [grant EXCEPT ![t] = "spent"]
            /\ active' = t + 1

(* A Head activates or reverts a period in person.                         *)
InPerson == active' \in Terms /\ UNCHANGED grant

Next == \/ \E t \in Terms : Grant(t) \/ Spend(t)
        \/ \E S \in SUBSET Terms : Void(S)
        \/ InPerson

Spec == Init /\ [][Next]_<<grant, active>>
===============================================================================
