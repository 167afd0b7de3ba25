----------------------------- MODULE MCApprovals -----------------------------
(* Approvals for TLC: one record, two people, two requests, two of each      *)
(* kind of transaction at the same time.                                     *)
EXTENDS Approvals, FiniteSets, TLC

CONSTANTS u1, u2, u3, d1, d2, p1, p2, r1, r2

MCSymmetry == Permutations({u1, u2, u3}) \cup Permutations({d1, d2})
                \cup Permutations({p1, p2}) \cup Permutations({r1, r2})

Concerned(ops) == (\E p \in Submissions : sub[p].pc # "idle" /\ sub[p].op \in ops)
                    \/ \E r \in Requests : req[r].op \in ops

(* Two scenarios in one search.  Ranks change while operations that fence    *)
(* their actors are submitted and decided, and nothing else writes; or       *)
(* ranks are fixed, requests are submitted one at a time, and the records    *)
(* or the settings are edited, once.                                         *)
Edits == target + context - Cardinality({r \in Requests : applied[r] > 0})
RanksChange == ~Concerned(Ordinary) /\ Edits = 0
RecordsChange == /\ ~Concerned(Official) /\ moves = 0 /\ Edits <= 1
                 /\ Cardinality({p \in Submissions : sub[p].pc # "idle"}) <= 1
MCScenario == RanksChange \/ RecordsChange

=============================================================================
