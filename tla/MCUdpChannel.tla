---------------------------- MODULE MCUdpChannel ----------------------------
(* Small instances of UdpChannel for TLC. *)
EXTENDS UdpChannel, TLC

CONSTANTS t1, t2, i1, i2, i3, i4

=============================================================================
