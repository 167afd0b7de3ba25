------------------------- MODULE MCStudentRequests -------------------------
(* StudentRequests for TLC: two requests of two mailboxes.                  *)
EXTENDS StudentRequests, TLC

CONSTANTS q1, q2, m1, m2, w1, w2

MCSymmetry ==
    Permutations(Requests) \cup Permutations(Mailboxes) \cup Permutations(Senders)

Filed == {r \in Requests : survey[r].state # "NONE"}
Busy == {w \in Senders : sender[w].pc # "idle"}
Once == Cardinality(Busy) <= 1 /\ \A r \in Requests : minted[r] = 1
Quiet == \A r \in Requests : ~survey[r].flagged
OnTime == \A r \in Requests : survey[r].due # "past"
Asking == {r \in Requests : survey[r].leave}
Reported == {<<r, p>> \in Requests \X Pairings : p \in survey[r].conflicts}

(* Resends of one request's link compete, before and after an assignment;   *)
(* or the two are confirmed while an account gains the other mailbox.       *)
Resends == Cardinality(Filed) <= 1 /\ made <= 1 /\ tools = 0 /\ transfers = 0
Mailing == made = 0 /\ Once

(* Or they are assigned, and end: with flags and deadlines, with the roster *)
(* tools of staff, or with a transfer.  One decision waits at a time.       *)
Working ==
    /\ Once /\ (made > 0 => Busy = {}) /\ Cardinality(Asking) + Cardinality(Reported) <= 1
    /\ \A m \in Mailboxes : home[m] = m
Flags == transfers = 0 /\ tools = 0 /\ made <= 2
Tools == transfers = 0 /\ Quiet /\ OnTime /\ made <= 2
Moves ==
    /\ tools = 0 /\ Quiet /\ OnTime /\ (transfers = 0 => made <= 1)
    /\ made > 0 => \A r \in Filed : survey[r].confirmed
    /\ made > 2 => Reported = {} /\ \A r \in Requests : profile[r].status # "PENDING"

MCScenario == Resends \/ Mailing \/ (Working /\ (Flags \/ Tools \/ Moves))
=============================================================================
