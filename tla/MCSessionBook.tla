---------------------------- MODULE MCSessionBook ----------------------------
(* Small instances of SessionBook. *)
EXTENDS SessionBook, TLC

CONSTANTS k1, k2, k3, r1, r2, r3
Symmetry == Permutations({r1, r2, r3} \cap Requests) \cup Permutations({k2, k3} \cap Keys)
=============================================================================
