---------------------------- MODULE MCClientConn ----------------------------
(* Small instances of ClientConn. *)
EXTENDS ClientConn

CONSTANTS n1, n2, cmd

MCOne == <<n1>>
=============================================================================
