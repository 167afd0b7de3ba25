---------------------------- MODULE MCEmailOutbox ----------------------------
(* EmailOutbox for TLC: one or two rows, two dispatchers.                   *)
EXTENDS EmailOutbox, TLC

CONSTANTS w1, w2

MCSymmetry == Permutations({w1, w2})

=============================================================================
