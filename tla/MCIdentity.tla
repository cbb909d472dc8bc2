----------------------------- MODULE MCIdentity -----------------------------
(* Small instances of Identity. *)
EXTENDS Identity, TLC

CONSTANTS s1, s2

Symmetry == Permutations(Servers)
=============================================================================
