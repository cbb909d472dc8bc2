--------------------------- MODULE MCUdpSessions ---------------------------
(* Small instances of UdpSessions for TLC. *)
EXTENDS UdpSessions

CONSTANTS p1, p2, p3, i1, i2, i3, i4

Symmetry == Permutations(Peers) \cup Permutations(Ids)
=============================================================================
