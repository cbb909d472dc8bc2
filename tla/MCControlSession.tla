-------------------------- MODULE MCControlSession --------------------------
\* Instances of ControlSession for TLC.  Handlers, clients and ports are
\* interchangeable, so each set is a symmetry set for the safety runs.
EXTENDS ControlSession, TLC

CONSTANTS a, b, h1, h2, h3, p1, p2

Symmetry == Permutations(Conns) \cup Permutations(Clients) \cup Permutations(Ports)
=============================================================================
