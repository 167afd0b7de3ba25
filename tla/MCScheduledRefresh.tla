-------------------------- MODULE MCScheduledRefresh --------------------------
(* ScheduledRefresh for TLC: two accounts, two instances.                    *)
EXTENDS ScheduledRefresh, TLC

CONSTANTS u1, u2, i1, i2

MCSymmetry == Permutations({u1, u2}) \cup Permutations({i1, i2})
===============================================================================
