---------------------------- MODULE MCTimeEvents ----------------------------
(* Three threads, which are alike. *)
EXTENDS TimeEvents, TLC

CONSTANTS t1, t2, t3

Symmetry == Permutations({t1, t2, t3})
=============================================================================
