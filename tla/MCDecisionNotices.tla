-------------------------- MODULE MCDecisionNotices --------------------------
(* DecisionNotices for TLC: one request, two dispatchers and two couriers.    *)
(* Requests share nothing but these, so the other request is gone.            *)
EXTENDS DecisionNotices

GoneAre(sources) == \A s \in sources : src[s] = Gone
(* Until it is decided, a review and who owns the request do not touch mail. *)
Undecided == /\ slips = MaxSlips
             /\ \A k \in Keys : review[k] = "none"
             /\ \A s \in Sources : ~src[s].owned

(* The receipt of a flag, while no letter moves.                             *)
OneFlag == Undecided /\ GoneAre(Generic) /\ \A s \in Surveys : src[s].version <= 1

(* The receipt of a flag on a signup of the old form, whose address staff     *)
(* edit back and forth.                                                       *)
OneForm == /\ Undecided /\ GoneAre(Surveys) /\ \A s \in Generic : src[s].version <= 1
           /\ retries = MaxRetries

(* The letter about a flag that is older than capabilities, while its        *)
(* receipt stays as the decision found it.                                   *)
OneDecision == /\ GoneAre(Generic)
               /\ \A s \in Surveys : src[s].owned
               /\ \A k \in Keys : /\ row[k].lease = NoWorker /\ row[k].attempts <= 1
                                  /\ row[k].status \in {"PENDING", "SENT"}
                                  /\ cap[k] = NoCapability
               /\ up /\ faults = MaxFaults /\ retries = MaxRetries

MCScenario == OneFlag \/ OneForm \/ OneDecision
=============================================================================
