----------------------------- MODULE MCDataPath -----------------------------
(* Small instances of DataPath for TLC.  Client a registers tunnels and may   *)
(* reconnect; b is another enrolled client, whose data connections claim what *)
(* they like.                                                                 *)
EXTENDS DataPath, TLC

CONSTANTS a, b, x1, x2, x3, d1, d2, d3

MCMaxSeq == [c \in Clients |-> IF c = a THEN 2 ELSE 0]
MCMaxSessions == [c \in Clients |-> IF c = a THEN 2 ELSE 0]
MCOnce == [c \in Clients |-> IF c = a THEN 1 ELSE 0]

Symmetry == Permutations(Pubs) \cup Permutations(Datas)
=============================================================================
