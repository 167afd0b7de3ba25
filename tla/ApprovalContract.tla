--------------------------- MODULE ApprovalContract ---------------------------
(***************************************************************************)
(* What the approval queue promises about one record and the proposals to  *)
(* change it, whatever the reviewers, requesters and direct editors do at  *)
(* the same time: a proposal is decided at most once, and it is applied    *)
(* only to the very state of the record its reviewers were shown.          *)
(***************************************************************************)
EXTENDS Naturals

CONSTANT Requests

VARIABLES record,     \* stamp of the last change of the record
          proposal    \* state of a proposal and the stamp it was filed on

cvars == <<record, proposal>>

Open(at) == [state |-> "PENDING", at |-> at]

CInit == /\ record = 0
         /\ proposal = [r \in Requests |-> [state |-> "none", at |-> 0]]

Change == record' = record + 1 /\ UNCHANGED proposal

File(r) == /\ proposal[r].state = "none"
           /\ \E at \in 0 .. record : proposal' = [proposal EXCEPT ![r] = Open(at)]
           /\ UNCHANGED record

Drop(r) == /\ proposal[r].state = "PENDING"
           /\ \E state \in {"REJECTED", "CANCELLED"} :
                 proposal' = [proposal EXCEPT ![r].state = state]
           /\ UNCHANGED record

Apply(r) == /\ proposal[r].state = "PENDING" /\ proposal[r].at = record
            /\ proposal' = [proposal EXCEPT ![r].state = "APPROVED"]
            /\ record' = record + 1

CNext == Change \/ \E r \in Requests : File(r) \/ Drop(r) \/ Apply(r)

CSpec == CInit /\ [][CNext]_cvars

=============================================================================
