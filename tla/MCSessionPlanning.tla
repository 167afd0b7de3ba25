-------------------------- MODULE MCSessionPlanning --------------------------
(* SessionPlanning for TLC: the group lesson of lea, and another lesson     *)
(* whose tutor, ben, learns in the group.                                   *)
EXTENDS SessionPlanning, TLC

CONSTANTS pair1, pair2, lea, ann, ben, cat, room

MCTutorOf == (pair1 :> lea) @@ (pair2 :> ben)
MCRosterOf == (pair1 :> {ann, ben}) @@ (pair2 :> {cat})
MCJoinersOf == (pair1 :> {cat}) @@ (pair2 :> {})
MCSlotOf == (pair1 :> 2) @@ (pair2 :> 3)
MCRoomOf == (pair1 :> room) @@ (pair2 :> Online)
MCWishes == {<<2, Online>>, <<3, room>>}

Made == {r \in Requests : request[r].status # "NONE"}
Answered == UNION {{request[r].answer[x] : x \in DOMAIN request[r].answer} : r \in Made}
Quiet == post = {} /\ sweep.todo = {} /\ \A w \in Answered : w.sent = Never
Alone == /\ weekly[pair2] = "DRAFT" /\ hint = {} /\ edits = 0
         /\ clock = 0 \/ weekly[pair1] = "PUBLISHED"
         /\ \A r \in Made \ {1} : request[r].parent = 1
NobodyJoins == \A pl \in Plans : seat[pl][cat] = None

(* The group alone negotiates without mail, down to a split and its          *)
(* children; or it is silent about one or two offers while mail and sweeps   *)
(* are late or lost; or two requests, the other pairing, a joining learner   *)
(* and staff compete for windows.                                            *)
Talks == Alone /\ Quiet /\ NobodyJoins
Silence == /\ Alone /\ Cardinality(post) <= 1 /\ NobodyJoins
           /\ \A r \in Made : /\ request[r].parent = None /\ request[r].n <= 2
                              /\ request[r].kind = "RESCHEDULE"
Rivals == /\ \A r \in Made : request[r].n <= 1 /\ request[r].parent = None
          /\ Quiet /\ clock = 0 /\ Made \subseteq {1, 2}
          /\ hint = {} \/ edits = 0
MCScenario == Talks \/ Silence \/ Rivals
==============================================================================
