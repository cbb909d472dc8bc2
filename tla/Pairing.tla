------------------------------ MODULE Pairing ------------------------------
(***************************************************************************)
(* What the data path of the server promises a public connection: it       *)
(* arrives for a tunnel of one client, it may be paired, once, with one    *)
(* data connection of that client and of no other, and it is closed for    *)
(* good (docs/plan/04-protocol-v1.md, section 3).                          *)
(***************************************************************************)
CONSTANTS
    Pubs,       \* public connections
    Datas,      \* data connections
    Clients,
    NoClient

VARIABLES
    phase,      \* of a public connection
    owner,      \* the client whose tunnel it arrived on
    mates,      \* the data connections it was paired with
    who         \* the client a data connection has authenticated as

pairingVars == <<phase, owner, mates, who>>

PairingInit ==
    /\ phase = [x \in Pubs |-> "new"]
    /\ owner = [x \in Pubs |-> NoClient]
    /\ mates = [x \in Pubs |-> {}]
    /\ who = [d \in Datas |-> NoClient]

Arrive(x, c) ==
    /\ phase[x] = "new"
    /\ phase' = [phase EXCEPT ![x] = "waiting"]
    /\ owner' = [owner EXCEPT ![x] = c]
    /\ UNCHANGED <<mates, who>>

Dial(d, c) ==
    /\ who[d] = NoClient
    /\ who' = [who EXCEPT ![d] = c]
    /\ UNCHANGED <<phase, owner, mates>>

Pair(x, d) ==
    /\ phase[x] = "waiting"
    /\ who[d] = owner[x]
    /\ \A y \in Pubs : d \notin mates[y]
    /\ phase' = [phase EXCEPT ![x] = "paired"]
    /\ mates' = [mates EXCEPT ![x] = {d}]
    /\ UNCHANGED <<owner, who>>

\* Dropping a tunnel closes every connection that waits for it.
Close(X) ==
    /\ \A x \in X : phase[x] \in {"waiting", "paired"}
    /\ phase' = [x \in Pubs |-> IF x \in X THEN "closed" ELSE phase[x]]
    /\ UNCHANGED <<owner, mates, who>>

PairingNext ==
    \/ \E x \in Pubs, c \in Clients : Arrive(x, c)
    \/ \E d \in Datas, c \in Clients : Dial(d, c)
    \/ \E x \in Pubs, d \in Datas : Pair(x, d)
    \/ \E X \in SUBSET Pubs : Close(X)

PairingSpec == PairingInit /\ [][PairingNext]_pairingVars
=============================================================================
