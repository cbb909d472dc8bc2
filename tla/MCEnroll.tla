------------------------------ MODULE MCEnroll ------------------------------
(* Small instances of Enroll. *)
EXTENDS Enroll, TLC

CONSTANTS t1, t2, i1, i2, h1, h2

Symmetry == Permutations(Tokens) \cup Permutations(Ids) \cup Permutations(Handlers)
=============================================================================
