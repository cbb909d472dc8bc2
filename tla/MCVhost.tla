------------------------------ MODULE MCVhost ------------------------------
(* A small instance of Vhost for TLC: a domain with two levels below it. *)
EXTENDS Vhost, TLC

CONSTANTS a, b, r1

MCHosts == {<<1>>, <<1, 2>>, <<1, 2, 3>>}
Symmetry == Permutations(Clients)
=============================================================================
