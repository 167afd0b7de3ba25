----------------------------- MODULE MailPromise -----------------------------
(***************************************************************************)
(* What the outbox promises about one optional message, whatever            *)
(* dispatchers, administrators and account owners do meanwhile: the         *)
(* decision to transport it is recorded before it is handed to SMTP, it is  *)
(* handed over at most once, that decision is never taken back, and         *)
(* "delivered" is only ever said of a message the provider took.            *)
(*                                                                         *)
(* Until the decision a message may be withdrawn and requeued any number of *)
(* times; the promise does not tell those states apart.                     *)
(***************************************************************************)
EXTENDS Naturals

CONSTANT Messages

VARIABLES
    fate,    \* what the durable record says of a message
    sends,   \* how often it was handed to SMTP
    taken    \* messages the provider took

promise == <<fate, sends, taken>>

Init ==
    /\ fate = [m \in Messages |-> "open"]
    /\ sends = [m \in Messages |-> 0]
    /\ taken = {}

(* One attempt is recorded.                                                 *)
Commit(m) ==
    /\ fate[m] = "open"
    /\ fate' = [fate EXCEPT ![m] = "attempted"]
    /\ UNCHANGED <<sends, taken>>

(* The attempt is made; the provider takes the message or does not.         *)
Send(m) ==
    /\ fate[m] = "attempted" /\ sends[m] = 0
    /\ sends' = [sends EXCEPT ![m] = 1]
    /\ taken' \in {taken, taken \cup {m}}
    /\ UNCHANGED fate

Confirm(m) ==
    /\ fate[m] = "attempted" /\ m \in taken
    /\ fate' = [fate EXCEPT ![m] = "delivered"]
    /\ UNCHANGED <<sends, taken>>

Next == \E m \in Messages : Commit(m) \/ Send(m) \/ Confirm(m)

Spec == Init /\ [][Next]_promise

=============================================================================
