--------------------------- MODULE MCRequestNotices ---------------------------
(* RequestNotices for TLC: one request, one or two dispatchers.  Requests    *)
(* share nothing but the dispatchers, so where two are given one is gone.    *)
EXTENDS RequestNotices, TLC

CONSTANTS w1, w2

MCSymmetry == Permutations({w1, w2})

(* A survey is followed up to its third version by one dispatcher that is    *)
(* never turned away, a generic request to its second, with a staff retry or  *)
(* a fault.                                                                  *)
OneSurvey == /\ \A s \in Generic : src[s] = Gone
             /\ \A k \in Keys : row[k].attempts = 0 \/ row[k].status # "PENDING"
             /\ faults = MaxFaults
             /\ Cardinality({w \in Workers : wk[w] # Idle}) <= 1
OneGeneric == /\ \A s \in Surveys : src[s] = Gone
              /\ \A s \in Generic : src[s].version <= 2
              /\ retries + faults > 0
MCScenario == OneSurvey \/ OneGeneric

=============================================================================
