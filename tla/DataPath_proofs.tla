-------------------------- MODULE DataPath_proofs --------------------------
(***************************************************************************)
(* The data path, for any number of clients, public connections, data      *)
(* connections, tunnels and sessions: PathInv is inductive, it implies     *)
(* that no open connection is forgotten and that the semaphore and the     *)
(* gate count what they should, and under it every step of the data path   *)
(* is one of Pairing or changes nothing Pairing sees.                      *)
(***************************************************************************)
EXTENDS DataPath, FiniteSetTheorems, TLAPS

-----------------------------------------------------------------------------
\* Counting: what one connection more or less does to the gate.

LEMMA GateKept ==
    ASSUME PathInv, gate' = gate,
           \A x \in Pubs : at'[x] \in InGate <=> at[x] \in InGate
    PROVE  GateExact'
<1>1. {x \in Pubs : at'[x] \in InGate} = {x \in Pubs : at[x] \in InGate}
  OBVIOUS
<1> QED
  BY <1>1 DEF PathInv, GateExact

LEMMA GateEntered ==
    ASSUME PathInv, NEW x \in Pubs, NEW l \in InGate,
           at[x] \notin InGate, Move(x, l), gate' = gate + 1
    PROVE  GateExact'
<1> DEFINE S == {y \in Pubs : at[y] \in InGate}
<1>1. {y \in Pubs : at'[y] \in InGate} = S \cup {x}
  BY DEF PathInv, TypeOK, Move
<1>2. IsFiniteSet(S) /\ x \notin S
  BY FS_Subset, DataPathAssumption
<1>3. Cardinality(S \cup {x}) = Cardinality(S) + 1
  BY <1>2, FS_AddElement
<1> QED
  BY <1>1, <1>3 DEF PathInv, GateExact

LEMMA GateLeft ==
    ASSUME PathInv, NEW x \in Pubs, NEW l, l \notin InGate,
           at[x] \in InGate, Move(x, l), gate' = gate - 1
    PROVE  GateExact'
<1> DEFINE S == {y \in Pubs : at[y] \in InGate}
<1>1. {y \in Pubs : at'[y] \in InGate} = S \ {x}
  BY DEF PathInv, TypeOK, Move
<1>2. IsFiniteSet(S) /\ x \in S
  BY FS_Subset, DataPathAssumption
<1>3. Cardinality(S \ {x}) = Cardinality(S) - 1
  BY <1>2, FS_RemoveElement
<1> QED
  BY <1>1, <1>3 DEF PathInv, GateExact

\* The gate is a count, hence a natural number: no Release comes too often.
LEMMA CountIsNat == ASSUME NEW S \in SUBSET Pubs PROVE Cardinality(S) \in Nat
  BY FS_Subset, FS_CardinalityType, DataPathAssumption

-----------------------------------------------------------------------------
\* The same for the semaphore of a client.

SlotsOf(c) == {x \in slot : tun[x][1] = c}

LEMMA SlotsFinite ==
    ASSUME TypeOK, NEW c
    PROVE  IsFiniteSet(SlotsOf(c)) /\ Cardinality(SlotsOf(c)) \in Nat
<1>1. SlotsOf(c) \subseteq Pubs
  BY DEF SlotsOf, TypeOK
<1>2. IsFiniteSet(SlotsOf(c))
  BY <1>1, FS_Subset, DataPathAssumption
<1> QED
  BY <1>2, FS_CardinalityType

LEMMA SemKept ==
    ASSUME PathInv, sem' = sem, slot' = slot, chan' = chan, \A x \in slot : tun'[x] = tun[x]
    PROVE  SemCovered'
<1>1. \A c \in Clients : {x \in slot' : tun'[x][1] = c} = {x \in slot : tun[x][1] = c}
  OBVIOUS
<1> QED
  BY <1>1 DEF PathInv, SemCovered

LEMMA SemTaken ==
    ASSUME PathInv, NEW x \in Pubs, NEW l, tun' = tun, chan' = chan, x \notin slot,
           tun[x] \in Tunnel, TakeSlot(x, l)
    PROVE  SemCovered'
<1> SUFFICES ASSUME NEW c \in Clients
             PROVE  sem'[c] <= Cardinality(SlotsOf(c)') + chan'[c]
  BY DEF SemCovered, SlotsOf
<1> DEFINE o == tun[x][1]
<1>0. TypeOK /\ sem[c] <= Cardinality(SlotsOf(c)) + chan[c] /\ chan[c] \in Nat
  BY DEF PathInv, SemCovered, SlotsOf, TypeOK
<1>1. IsFiniteSet(SlotsOf(c)) /\ Cardinality(SlotsOf(c)) \in Nat /\ sem[c] \in Nat
  BY <1>0, SlotsFinite DEF TypeOK
<1>2. CASE c = o
  <2>1. SlotsOf(c)' = SlotsOf(c) \cup {x} /\ x \notin SlotsOf(c)
    BY <1>2 DEF SlotsOf, TakeSlot
  <2>2. Cardinality(SlotsOf(c)') = Cardinality(SlotsOf(c)) + 1
    BY <1>1, <2>1, FS_AddElement
  <2>3. sem'[c] <= sem[c] + 1
    BY <1>0, <1>1, <1>2, DataPathAssumption DEF TakeSlot, Acquired, TypeOK
  <2>4. sem'[c] \in Nat
    BY <1>0, <1>1, <1>2, DataPathAssumption DEF TakeSlot, Acquired, TypeOK
  <2> QED
    BY <1>0, <1>1, <2>2, <2>3, <2>4
<1>3. CASE c # o
  <2>1. SlotsOf(c)' = SlotsOf(c)
    BY <1>3 DEF SlotsOf, TakeSlot
  <2>2. sem'[c] = sem[c]
    BY <1>0, <1>3 DEF TakeSlot, TypeOK
  <2> QED
    BY <1>0, <2>1, <2>2
<1> QED
  BY <1>2, <1>3

LEMMA SemGivenBack ==
    ASSUME PathInv, NEW x \in Pubs, NEW o \in Clients, tun[x][1] = o, tun' = tun,
           chan' = chan, slot' = slot \ {x}, sem' = [sem EXCEPT ![o] = Released(@)]
    PROVE  SemCovered'
<1> SUFFICES ASSUME NEW c \in Clients
             PROVE  sem'[c] <= Cardinality(SlotsOf(c)') + chan'[c]
  BY DEF SemCovered, SlotsOf
<1>0. TypeOK /\ sem[c] <= Cardinality(SlotsOf(c)) + chan[c] /\ chan[c] \in Nat
  BY DEF PathInv, SemCovered, SlotsOf, TypeOK
<1>1. IsFiniteSet(SlotsOf(c)) /\ Cardinality(SlotsOf(c)) \in Nat /\ sem[c] \in Nat
  BY <1>0, SlotsFinite DEF TypeOK
<1>2. CASE c = o
  <2>1. SlotsOf(c)' = SlotsOf(c) \ {x}
    BY <1>2 DEF SlotsOf
  <2>2. sem'[c] = IF sem[c] > 0 THEN sem[c] - 1 ELSE 0
    BY <1>0, <1>2 DEF Released, TypeOK
  <2>3. CASE x \in SlotsOf(c)
    <3>1. Cardinality(SlotsOf(c)') = Cardinality(SlotsOf(c)) - 1
      BY <1>1, <2>1, <2>3, FS_RemoveElement
    <3>2. IsFiniteSet(SlotsOf(c) \ {x})
      BY <1>1, FS_RemoveElement
    <3>3. Cardinality(SlotsOf(c)') \in Nat
      BY <2>1, <3>2, FS_CardinalityType
    <3> QED
      BY <1>0, <1>1, <2>2, <3>1, <3>3
  <2>4. CASE x \notin SlotsOf(c)
    <3>1. SlotsOf(c)' = SlotsOf(c)
      BY <2>1, <2>4
    <3> QED
      BY <1>0, <1>1, <2>2, <3>1
  <2> QED
    BY <2>3, <2>4
<1>3. CASE c # o
  <2>1. SlotsOf(c)' = SlotsOf(c)
    BY <1>3 DEF SlotsOf
  <2>2. sem'[c] = sem[c]
    BY <1>0, <1>3 DEF TypeOK
  <2> QED
    BY <1>0, <2>1, <2>2
<1> QED
  BY <1>2, <1>3

LEMMA SemDropped ==
    ASSUME PathInv, NEW o \in Clients, tun' = tun, slot' = slot, chan' = chan,
           sem' = [sem EXCEPT ![o] = 0]
    PROVE  SemCovered'
<1> SUFFICES ASSUME NEW c \in Clients
             PROVE  sem'[c] <= Cardinality(SlotsOf(c)') + chan'[c]
  BY DEF SemCovered, SlotsOf
<1>0. TypeOK /\ sem[c] <= Cardinality(SlotsOf(c)) + chan[c] /\ chan[c] \in Nat
  BY DEF PathInv, SemCovered, SlotsOf, TypeOK
<1>1. Cardinality(SlotsOf(c)) \in Nat
  BY <1>0, SlotsFinite
<1>2. SlotsOf(c)' = SlotsOf(c)
  BY DEF SlotsOf
<1>3. sem'[c] = IF c = o THEN 0 ELSE sem[c]
  BY <1>0 DEF TypeOK
<1> QED
  BY <1>0, <1>1, <1>2, <1>3

-----------------------------------------------------------------------------
LEMMA PathInit == Init => PathInv
<1> SUFFICES ASSUME Init PROVE PathInv
  OBVIOUS
<1> USE DataPathAssumption
<1>1. TypeOK
  BY DEF Init, TypeOK, At, DataConn, DataAt, Control
<1>2. PubsOK /\ OpenIsTracked
  BY DEF Init, PubsOK, OpenIsTracked, Entering
<1>3. DatasOK
  BY DEF Init, DatasOK, HasClaimed, Claimed
<1>4. SemCovered
  <2>1. \A c \in Clients : {x \in slot : tun[x][1] = c} = {}
    BY DEF Init
  <2> QED
    BY <2>1, FS_EmptySet DEF Init, SemCovered
<1>5. GateExact
  <2>1. {x \in Pubs : at[x] \in InGate} = {}
    BY DEF Init, InGate
  <2> QED
    BY <2>1, FS_EmptySet DEF Init, GateExact
<1> QED
  BY <1>1, <1>2, <1>3, <1>4, <1>5 DEF PathInv

\* A connection that moves through onOpen or handleVhostConn.
LEMMA PathConns ==
    ASSUME PathInv, NEW x \in Pubs,
           \/ Gate(x) \/ Quota(x) \/ OpenConnection(x) \/ OpenConnectionFails(x)
           \/ Tell(x) \/ Expire(x) \/ VhostQuota(x) \/ VhostTell(x)
    PROVE  PathInv'
<1> USE DataPathAssumption DEF PathInv, Move
<1> USE DEF countVars, dataVars, controlVars, connVars
<1>0. gate \in Nat /\ TypeOK /\ (at[x] # "free" => tun[x] \in Tunnel)
  BY DEF TypeOK, PubsOK
<1>1. CASE Gate(x)
  <2>0. at[x] = "gate" /\ UNCHANGED <<tun, pending, late, sem, slot, active, dataVars, controlVars>>
    BY <1>1 DEF Gate
  <2>1. CASE gate' = gate + 1 /\ Move(x, "quota") /\ UNCHANGED up
    <3>1. GateExact'
      BY <2>0, <2>1, GateEntered DEF InGate
    <3>2. TypeOK'
      BY <1>0, <2>0, <2>1 DEF TypeOK, At, InGate
    <3>3. PubsOK' /\ DatasOK' /\ OpenIsTracked'
      BY <1>0, <2>0, <2>1 DEF TypeOK, PubsOK, DatasOK, OpenIsTracked, Entering, HasClaimed, Holds
    <3>4. SemCovered'
      BY <2>0, SemKept
    <3> QED
      BY <3>1, <3>2, <3>3, <3>4
  <2>2. CASE up' = up \ {x} /\ Move(x, "out") /\ UNCHANGED gate
    <3>1. GateExact'
      BY <1>0, <2>0, <2>2, GateKept DEF TypeOK, InGate
    <3>2. TypeOK'
      BY <1>0, <2>0, <2>2 DEF TypeOK, At
    <3>3. PubsOK' /\ DatasOK'
      BY <1>0, <2>0, <2>2 DEF TypeOK, PubsOK, DatasOK, Entering, HasClaimed, Claimed
    <3>4. OpenIsTracked'
      BY <1>0, <2>0, <2>2 DEF TypeOK, OpenIsTracked, Entering, Holds
    <3>5. SemCovered'
      BY <2>0, SemKept
    <3> QED
      BY <3>1, <3>2, <3>3, <3>4, <3>5
  <2> QED
    BY <1>1, <2>1, <2>2 DEF Gate
\* acquireDataQuota, granted, for either way in
<1>2. ASSUME NEW l \in {"open", "vopen"}, TakeSlot(x, l),
             \/ at[x] = "quota" /\ l = "open"
             \/ at[x] = "vquota" /\ l = "vopen",
             active' \in [Clients -> Int],
             UNCHANGED <<tun, pending, late, dataVars, controlVars>>
      PROVE  PathInv'
  <2>0. x \notin slot /\ tun[x] \in Tunnel /\ UNCHANGED <<up, gate>> /\ slot' = slot \cup {x}
    BY <1>0, <1>2 DEF PubsOK, TakeSlot
  <2>1. GateExact'
    BY <1>0, <1>2, <2>0, GateKept DEF TakeSlot, TypeOK, InGate
  <2>2. TypeOK'
    BY <1>0, <1>2, <2>0 DEF TakeSlot, Acquired, TypeOK, Tunnel, At, InGate, InVhost
  <2>3. PubsOK' /\ DatasOK'
    BY <1>0, <1>2, <2>0 DEF TakeSlot, TypeOK, PubsOK, DatasOK, Entering, HasClaimed
  <2>4. OpenIsTracked'
    BY <1>0, <1>2, <2>0 DEF TakeSlot, TypeOK, OpenIsTracked, Entering, Holds
  <2>5. SemCovered'
    BY <1>2, <2>0, SemTaken
  <2> QED
    BY <2>1, <2>2, <2>3, <2>4, <2>5
\* ... and refused
<1>3. ASSUME NoSlot(x),
             \/ at[x] = "quota" /\ gate' = gate - 1
             \/ at[x] = "vquota" /\ UNCHANGED gate,
             UNCHANGED <<tun, pending, late, dataVars, controlVars>>
      PROVE  PathInv'
  <2>0. up' = up \ {x} /\ Move(x, "out") /\ UNCHANGED <<sem, slot, active>>
    BY <1>3 DEF NoSlot
  <2>1. GateExact'
    <3>1. CASE at[x] = "quota"
      BY <1>3, <2>0, <3>1, GateLeft DEF InGate
    <3>2. CASE at[x] = "vquota"
      BY <1>0, <1>3, <2>0, <3>2, GateKept DEF TypeOK, InGate
    <3> QED
      BY <1>3, <3>1, <3>2
  <2>2. gate' \in Nat
    BY <2>1, CountIsNat DEF GateExact
  <2>3. TypeOK'
    BY <1>0, <1>3, <2>0, <2>2 DEF TypeOK, At
  <2>4. PubsOK' /\ DatasOK'
    BY <1>0, <1>3, <2>0 DEF TypeOK, PubsOK, DatasOK, Entering, HasClaimed, Claimed
  <2>5. OpenIsTracked'
    BY <1>0, <1>3, <2>0 DEF TypeOK, OpenIsTracked, Entering, Holds
  <2>6. SemCovered'
    BY <1>3, <2>0, SemKept
  <2> QED
    BY <2>1, <2>3, <2>4, <2>5, <2>6
<1>4. CASE Quota(x)
  <2>1. CASE TakeSlot(x, "open") /\ active' = [active EXCEPT ![tun[x][1]] = @ + 1]
    <3>1. active' \in [Clients -> Int]
      BY <1>0, <1>4, <2>1 DEF Quota, TypeOK, Tunnel
    <3> QED
      BY <1>2, <1>4, <2>1, <3>1 DEF Quota
  <2> QED
    BY <1>3, <1>4, <2>1 DEF Quota
<1>5. CASE VhostQuota(x)
  <2>1. active \in [Clients -> Int]
    BY <1>0 DEF TypeOK
  <2> QED
    BY <1>2, <1>3, <1>5, <2>1 DEF VhostQuota
<1>6. CASE OpenConnection(x)
  <2>0. UNCHANGED <<tun, up, late, countVars, dataVars, controlVars>> /\ pending' = pending \cup {x}
    BY <1>6 DEF OpenConnection
  <2>1. GateExact'
    BY <1>0, <1>6, <2>0, GateKept DEF OpenConnection, TypeOK, InGate
  <2>2. TypeOK'
    BY <1>0, <1>6, <2>0 DEF OpenConnection, TypeOK, At, InGate, InVhost
  <2>3. PubsOK' /\ DatasOK'
    BY <1>0, <1>6, <2>0 DEF OpenConnection, TypeOK, PubsOK, DatasOK, Entering, HasClaimed
  <2>4. OpenIsTracked'
    BY <1>0, <1>6, <2>0 DEF OpenConnection, TypeOK, OpenIsTracked, Entering, Holds
  <2>5. SemCovered'
    BY <2>0, SemKept
  <2> QED
    BY <2>1, <2>2, <2>3, <2>4, <2>5
<1>7. CASE OpenConnectionFails(x)
  <2>0. /\ at[x] \in {"open", "vopen"} /\ up' = up \ {x} /\ Move(x, "out")
        /\ slot' = slot \ {x}
        /\ UNCHANGED <<tun, pending, late, active, dataVars, controlVars>>
    BY <1>7 DEF OpenConnectionFails
  <2>1. GateExact'
    <3>1. CASE at[x] = "open"
      BY <1>7, <2>0, <3>1, GateLeft DEF OpenConnectionFails, InGate
    <3>2. CASE at[x] = "vopen"
      BY <1>0, <1>7, <2>0, <3>2, GateKept DEF OpenConnectionFails, TypeOK, InGate
    <3> QED
      BY <2>0, <3>1, <3>2
  <2>2. gate' \in Nat
    BY <2>1, CountIsNat DEF GateExact
  <2>3. tun[x][1] \in Clients
    BY <1>0, <2>0 DEF Tunnel
  <2>4. sem' \in [Clients -> Nat]
    BY <1>0, <1>7, <2>3 DEF OpenConnectionFails, TypeOK, Released
  <2>5. TypeOK'
    BY <1>0, <2>0, <2>2, <2>4 DEF TypeOK, At
  <2>6. PubsOK' /\ DatasOK'
    BY <1>0, <2>0 DEF TypeOK, PubsOK, DatasOK, Entering, HasClaimed, Claimed
  <2>7. OpenIsTracked'
    BY <1>0, <2>0 DEF TypeOK, OpenIsTracked, Entering, Holds
  <2>8. SemCovered'
    BY <1>7, <2>0, <2>3, SemGivenBack DEF OpenConnectionFails
  <2> QED
    BY <2>1, <2>5, <2>6, <2>7, <2>8
<1>8. CASE Tell(x)
  <2>0. at[x] = "tell" /\ UNCHANGED <<tun, up, pending, late, sem, slot, active, dataVars, controlVars>>
    BY <1>8 DEF Tell
  <2>1. GateExact'
    BY <1>8, GateLeft DEF Tell, InGate
  <2>2. gate' \in Nat
    BY <2>1, CountIsNat DEF GateExact
  <2>3. TypeOK'
    BY <1>0, <1>8, <2>0, <2>2 DEF Tell, TypeOK, At
  <2>4. PubsOK' /\ DatasOK'
    BY <1>0, <1>8, <2>0 DEF Tell, TypeOK, PubsOK, DatasOK, Entering, HasClaimed
  <2>5. OpenIsTracked'
    BY <1>0, <1>8, <2>0 DEF Tell, TypeOK, OpenIsTracked, Entering, Holds
  <2>6. SemCovered'
    BY <2>0, SemKept
  <2> QED
    BY <2>1, <2>3, <2>4, <2>5, <2>6
<1>9. CASE Expire(x)
  <2>1. GateExact' /\ SemCovered'
    BY <1>9, GateKept, SemKept DEF Expire
  <2>2. TypeOK' /\ PubsOK' /\ DatasOK' /\ OpenIsTracked'
    BY <1>0, <1>9 DEF Expire, TypeOK, PubsOK, DatasOK, OpenIsTracked, HasClaimed, Holds
  <2> QED
    BY <2>1, <2>2
<1>10. CASE VhostTell(x)
  <2>0. /\ at[x] = "vtell" /\ UNCHANGED <<tun, pending, late, countVars, dataVars, controlVars>>
        /\ \/ Move(x, "told") /\ UNCHANGED up
           \/ Move(x, "out") /\ up' = up \ {x}
    BY <1>10 DEF VhostTell
  <2>1. GateExact'
    BY <1>0, <2>0, GateKept DEF TypeOK, InGate
  <2>2. TypeOK'
    BY <1>0, <2>0 DEF TypeOK, At
  <2>3. PubsOK' /\ DatasOK'
    BY <1>0, <2>0 DEF TypeOK, PubsOK, DatasOK, Entering, HasClaimed, Claimed
  <2>4. OpenIsTracked'
    BY <1>0, <2>0 DEF TypeOK, OpenIsTracked, Entering, Holds
  <2>5. SemCovered'
    BY <2>0, SemKept
  <2> QED
    BY <2>1, <2>2, <2>3, <2>4, <2>5
<1> QED
  BY <1>1, <1>4, <1>5, <1>6, <1>7, <1>8, <1>9, <1>10

\* A connection that arrives at a port of its own or is routed by name.
LEMMA PathArrives ==
    ASSUME PathInv, NEW x \in Pubs, NEW t \in tunnels,
           AcceptPublic(x, t) \/ RouteVhost(x, t)
    PROVE  PathInv'
<1> USE DataPathAssumption DEF PathInv, Move, countVars, dataVars, controlVars
<1> DEFINE l == IF at'[x] = "gate" THEN "gate" ELSE "vquota"
<1>0. /\ TypeOK /\ at[x] = "free" /\ t \in Tunnel
      /\ tun' = [tun EXCEPT ![x] = t] /\ up' = up \cup {x} /\ Move(x, l)
      /\ UNCHANGED <<pending, late, countVars, dataVars, controlVars>>
  BY DEF TypeOK, AcceptPublic, RouteVhost
<1>1. TypeOK'
  BY <1>0 DEF TypeOK, At, InVhost
<1>2. PubsOK'
  BY <1>0 DEF TypeOK, PubsOK, Entering, Tunnel
<1>3. DatasOK'
  BY <1>0 DEF TypeOK, DatasOK, PubsOK, HasClaimed
<1>4. OpenIsTracked'
  BY <1>0 DEF TypeOK, OpenIsTracked, Entering, Holds
<1>5. SemCovered'
  <2>1. \A y \in slot : tun'[y] = tun[y]
    BY <1>0 DEF TypeOK, PubsOK
  <2> QED
    BY <1>0, <2>1, SemKept
<1>6. GateExact'
  BY <1>0, GateKept DEF TypeOK, InGate
<1> QED
  BY <1>1, <1>2, <1>3, <1>4, <1>5, <1>6

-----------------------------------------------------------------------------
\* A data connection: from its open_data frame to its end.
LEMMA PathDatas ==
    ASSUME PathInv, NEW d \in Datas,
           \/ \E c \in Clients, x \in Pubs : OpenData(d, c, x)
           \/ ClaimData(d) \/ Track(d) \/ SpliceEnds(d) \/ ReleaseQuota(d) \/ Untrack(d)
    PROVE  PathInv'
<1> USE DataPathAssumption DEF PathInv, Step, HasClaimed, Claimed
<1> USE DEF connVars, countVars, dataVars, controlVars
<1> DEFINE p == data[d].pub
<1>0. /\ TypeOK /\ data[d] \in DataConn
      /\ data[d].st # "free" => p \in Pubs /\ data[d].peer \in Clients
  BY DEF TypeOK, DatasOK
<1>1. ASSUME NEW c \in Clients, NEW x \in Pubs, OpenData(d, c, x) PROVE PathInv'
  <2>1. TypeOK'
    BY <1>0, <1>1 DEF OpenData, TypeOK, DataConn, DataAt
  <2>2. PubsOK'
    BY <1>1 DEF OpenData, PubsOK
  <2>3. DatasOK'
    BY <1>0, <1>1 DEF OpenData, TypeOK, DatasOK
  <2>4. OpenIsTracked'
    BY <1>0, <1>1 DEF OpenData, TypeOK, OpenIsTracked, Holds
  <2>5. SemCovered' /\ GateExact'
    BY <1>1, SemKept, GateKept DEF OpenData
  <2> QED
    BY <2>1, <2>2, <2>3, <2>4, <2>5
<1>2. CASE ClaimData(d)
  <2> DEFINE mine == p \in pending /\ tun[p][1] = data[d].peer
             good == mine /\ p \notin late /\ tun[p] \in tunnels
  <2>0. /\ data[d].st = "claim" /\ p \in Pubs /\ at[p] = "told"
        /\ pending' = IF mine THEN pending \ {p} ELSE pending
        /\ up' = IF mine /\ ~good THEN up \ {p} ELSE up
        /\ data' = [data EXCEPT ![d].st = IF good THEN "track" ELSE "refused"]
        /\ UNCHANGED <<at, tun, late, countVars, inflight, chan, controlVars>>
    BY <1>0, <1>2 DEF ClaimData, DatasOK
  <2>1. TypeOK'
    BY <1>0, <2>0 DEF TypeOK, DataConn, DataAt
  <2>2. PubsOK'
    BY <1>0, <2>0 DEF TypeOK, PubsOK, Entering
  \* nobody else has claimed what is still in pending
  <2>3. good => \A e \in Datas : HasClaimed(e) => data[e].pub # p
    BY DEF DatasOK
  <2>4. DatasOK'
    <3>1. CASE good
      <4>1. /\ pending' = pending \ {p} /\ up' = up /\ p \in up
            /\ data' = [data EXCEPT ![d].st = "track"] /\ tun[p][1] = data[d].peer
        BY <2>0, <3>1 DEF PubsOK
      <4> HIDE DEF good
      <4> QED
        BY <1>0, <2>0, <2>3, <3>1, <4>1 DEF TypeOK, DatasOK
    <3>2. CASE ~good
      <4>1. /\ data' = [data EXCEPT ![d].st = "refused"] /\ pending' \subseteq pending
            /\ up \ {p} \subseteq up' /\ (up' # up => p \in pending)
        BY <2>0, <3>2
      <4> HIDE DEF good, mine
      <4>2. \A e \in Datas : /\ data'[e].pub = data[e].pub /\ data'[e].peer = data[e].peer
                             /\ data'[e].st = IF e = d THEN "refused" ELSE data[e].st
        BY <1>0, <4>1 DEF TypeOK, DataConn
      <4>3. \A e \in Datas : data[e].st \in Claimed => data[e].pub \in up'
        BY <4>1 DEF DatasOK
      <4> QED
        BY <2>0, <4>1, <4>2, <4>3 DEF DatasOK
    <3> QED
      BY <3>1, <3>2
  <2>5. OpenIsTracked'
    <3>1. \A e \in Datas : e # d => data'[e] = data[e]
      BY <1>0, <2>0 DEF TypeOK
    <3>2. data'[d].pub = p /\ (good => data'[d].st = "track")
      BY <1>0, <2>0 DEF TypeOK, DataConn
    <3> QED
      BY <1>0, <2>0, <3>1, <3>2 DEF OpenIsTracked, Holds
  <2>6. SemCovered' /\ GateExact'
    BY <2>0, SemKept, GateKept
  <2> QED
    BY <2>1, <2>2, <2>4, <2>5, <2>6
<1>3. CASE Track(d)
  <2>1. TypeOK'
    BY <1>0, <1>3 DEF Track, TypeOK, DataConn, DataAt
  <2>2. PubsOK' /\ DatasOK'
    BY <1>0, <1>3 DEF Track, TypeOK, PubsOK, DatasOK
  <2>3. OpenIsTracked'
    BY <1>0, <1>3 DEF Track, TypeOK, DataConn, OpenIsTracked, Holds
  <2>4. SemCovered' /\ GateExact'
    BY <1>3, SemKept, GateKept DEF Track
  <2> QED
    BY <2>1, <2>2, <2>3, <2>4
<1>4. CASE SpliceEnds(d)
  <2>0. p \in Pubs /\ at[p] = "told" /\ p \notin pending
    BY <1>0, <1>4 DEF SpliceEnds, DatasOK
  <2>1. TypeOK'
    BY <1>0, <1>4 DEF SpliceEnds, TypeOK, DataConn, DataAt
  <2>2. PubsOK'
    BY <1>4, <2>0 DEF SpliceEnds, PubsOK, Entering
  <2>3. DatasOK'
    BY <1>0, <1>4 DEF SpliceEnds, TypeOK, DatasOK
  <2>4. OpenIsTracked'
    BY <1>0, <1>4 DEF SpliceEnds, TypeOK, DataConn, OpenIsTracked, Holds
  <2>5. SemCovered' /\ GateExact'
    BY <1>4, SemKept, GateKept DEF SpliceEnds
  <2> QED
    BY <2>1, <2>2, <2>3, <2>4, <2>5
<1>5. CASE ReleaseQuota(d)
  <2>0. /\ data[d].st = "release" /\ p \in Pubs /\ at[p] = "told"
        /\ data[d].peer \in Clients /\ tun[p][1] = data[d].peer
        /\ data' = [data EXCEPT ![d].st = "untrack"] /\ slot' = slot \ {p}
        /\ UNCHANGED <<connVars, gate, inflight, chan, controlVars>>
    BY <1>0, <1>5 DEF ReleaseQuota, Finish, DatasOK
  <2>1. active' \in [Clients -> Int] /\ sem' \in [Clients -> Nat]
    BY <1>0, <1>5, <2>0 DEF ReleaseQuota, Finish, TypeOK, Released
  <2>2. TypeOK'
    BY <1>0, <2>0, <2>1 DEF TypeOK, DataConn, DataAt
  <2>3. PubsOK' /\ DatasOK'
    BY <1>0, <2>0 DEF TypeOK, PubsOK, DatasOK
  <2>4. OpenIsTracked'
    BY <1>0, <2>0 DEF TypeOK, DataConn, OpenIsTracked, Holds
  <2>5. SemCovered'
    BY <1>5, <2>0, SemGivenBack DEF ReleaseQuota
  <2>6. GateExact'
    BY <2>0, GateKept
  <2> QED
    BY <2>2, <2>3, <2>4, <2>5, <2>6
<1>6. CASE Untrack(d)
  <2>1. TypeOK'
    BY <1>0, <1>6 DEF Untrack, TypeOK, DataConn, DataAt
  <2>2. PubsOK' /\ DatasOK'
    BY <1>0, <1>6 DEF Untrack, TypeOK, PubsOK, DatasOK
  <2>3. OpenIsTracked'
    BY <1>0, <1>6 DEF Untrack, TypeOK, DataConn, OpenIsTracked, Holds
  <2>4. SemCovered' /\ GateExact'
    BY <1>6, SemKept, GateKept DEF Untrack
  <2> QED
    BY <2>1, <2>2, <2>3, <2>4
<1> QED
  BY <1>1, <1>2, <1>3, <1>4, <1>5, <1>6

-----------------------------------------------------------------------------
\* The control session of a client.
LEMMA PathControl ==
    ASSUME PathInv, NEW c \in Clients,
           \/ RegisterTunnel(c) \/ Shutdown(c) \/ StartDrain(c) \/ Drained(c)
           \/ DrainTimeout(c) \/ Disconnect(c) \/ CleanupSecurity(c)
           \/ HandlerEnds(c) \/ Reconnect(c)
    PROVE  PathInv'
<1> USE DataPathAssumption DEF PathInv
<1> USE DEF connVars, countVars, dataVars, controlVars
<1>1. UNCHANGED <<connVars, slot, active, gate, dataVars>>
  BY DEF RegisterTunnel, Shutdown, StartDrain, Drained, DrainTimeout, Disconnect,
         CleanupSecurity, HandlerEnds, Reconnect, ControlStep
<1>2. sem' = sem \/ sem' = [sem EXCEPT ![c] = 0]
  BY DEF RegisterTunnel, Shutdown, StartDrain, Drained, DrainTimeout, Disconnect,
         CleanupSecurity, HandlerEnds, Reconnect
<1>3. TypeOK'
  <2>1. CASE RegisterTunnel(c)
    BY <2>1 DEF RegisterTunnel, TypeOK, Tunnel
  <2>2. CASE Reconnect(c)
    BY <2>2 DEF Reconnect, ControlStep, TypeOK, Control
  <2>3. CASE ~RegisterTunnel(c) /\ ~Reconnect(c)
    <3>1. UNCHANGED <<tunnels, seq, sessions>> /\ control' \in [Clients -> Control]
      BY <2>3 DEF TypeOK, Shutdown, StartDrain, Drained, DrainTimeout, Disconnect,
                  CleanupSecurity, HandlerEnds, ControlStep, Control
    <3> QED
      BY <1>1, <1>2, <3>1 DEF TypeOK
  <2> QED
    BY <2>1, <2>2, <2>3
<1>4. PubsOK' /\ DatasOK' /\ OpenIsTracked'
  BY <1>1 DEF PubsOK, DatasOK, OpenIsTracked, HasClaimed, Holds
<1>5. SemCovered'
  BY <1>1, <1>2, SemKept, SemDropped
<1>6. GateExact'
  BY <1>1, GateKept
<1> QED
  BY <1>3, <1>4, <1>5, <1>6

\* UDP channels take and give back slots of the client semaphore.
LEMMA PathUdp ==
    ASSUME PathInv, NEW c \in Clients, UdpChannel(c) \/ UdpChannelClosed(c)
    PROVE  PathInv'
<1> USE DataPathAssumption DEF PathInv
<1> USE DEF connVars, controlVars
<1>0. UNCHANGED <<connVars, slot, gate, data, inflight, controlVars>> /\ TypeOK
  BY DEF UdpChannel, UdpChannelClosed
<1>1. TypeOK'
  <2>1. CASE UdpChannel(c)
    BY <2>1 DEF UdpChannel, Acquired, TypeOK
  <2>2. CASE UdpChannelClosed(c)
    BY <2>2 DEF UdpChannelClosed, Released, TypeOK
  <2> QED
    BY <2>1, <2>2
<1>2. PubsOK' /\ DatasOK' /\ OpenIsTracked'
  BY <1>0 DEF PubsOK, DatasOK, OpenIsTracked, HasClaimed, Holds
<1>3. SemCovered'
  <2> SUFFICES ASSUME NEW o \in Clients
               PROVE  sem'[o] <= Cardinality(SlotsOf(o)') + chan'[o]
    BY DEF SemCovered, SlotsOf
  <2>1. /\ sem[o] <= Cardinality(SlotsOf(o)) + chan[o]
        /\ SlotsOf(o)' = SlotsOf(o)
        /\ sem[o] \in Nat /\ chan[o] \in Nat /\ chan \in [Clients -> Nat] /\ sem \in [Clients -> Nat]
    BY <1>0 DEF SemCovered, SlotsOf, TypeOK
  <2>2. Cardinality(SlotsOf(o)) \in Nat
    BY <1>0, SlotsFinite
  <2>3. CASE UdpChannel(c)
    BY <2>1, <2>2, <2>3 DEF UdpChannel, Acquired
  <2>4. CASE UdpChannelClosed(c)
    BY <2>1, <2>2, <2>4 DEF UdpChannelClosed, Released
  <2> QED
    BY <2>3, <2>4
<1>4. GateExact'
  BY <1>0, GateKept
<1> QED
  BY <1>1, <1>2, <1>3, <1>4

LEMMA PathUnregister ==
    ASSUME PathInv, NEW t \in tunnels, Unregister(t)
    PROVE  PathInv'
<1> USE DataPathAssumption DEF PathInv
<1> USE DEF countVars, dataVars
<1> DEFINE mine == {x \in pending : tun[x] = t}
<1>0. /\ TypeOK /\ tunnels' = tunnels \ {t} /\ pending' = pending \ mine /\ up' = up \ mine
      /\ UNCHANGED <<at, tun, late, countVars, dataVars, seq, control, sessions>>
  BY DEF TypeOK, Unregister
<1>1. TypeOK'
  BY <1>0 DEF TypeOK
<1>2. PubsOK'
  BY <1>0 DEF PubsOK, Entering
<1>3. DatasOK' /\ OpenIsTracked'
  BY <1>0 DEF DatasOK, OpenIsTracked, HasClaimed, Holds, Claimed
<1>4. SemCovered' /\ GateExact'
  BY <1>0, SemKept, GateKept
<1> QED
  BY <1>1, <1>2, <1>3, <1>4

-----------------------------------------------------------------------------
LEMMA PathNext == PathInv /\ [Next]_vars => PathInv'
<1> SUFFICES ASSUME PathInv, [Next]_vars PROVE PathInv'
  OBVIOUS
<1>1. CASE UNCHANGED vars
  <2> USE <1>1 DEF vars, connVars, countVars, dataVars, controlVars
  <2>1. SemCovered' /\ GateExact'
    BY SemKept, GateKept
  <2>2. TypeOK' /\ PubsOK' /\ DatasOK' /\ OpenIsTracked'
    BY DEF PathInv, TypeOK, PubsOK, DatasOK, OpenIsTracked, HasClaimed, Holds
  <2> QED
    BY <2>1, <2>2 DEF PathInv
<1>2. CASE ServerStep
  BY <1>2, PathConns, PathDatas, PathControl, PathUnregister DEF ServerStep
<1>3. CASE Outside
  BY <1>3, PathConns, PathArrives, PathDatas, PathControl, PathUdp,
     PathUnregister DEF Outside
<1> QED
  BY <1>1, <1>2, <1>3 DEF Next

\* PathInv always holds: over refusals, claims by the wrong client, late and
\* repeated claims, unregistrations, drains, disconnects and reconnects.
THEOREM PathInvariant == Spec => []PathInv
<1>1. Init => PathInv
  BY PathInit
<1>2. PathInv /\ [Next]_vars => PathInv'
  BY PathNext
<1> QED
  BY <1>1, <1>2, PTL DEF Spec

\* A public connection that is open is in onOpen, in Manager.pending or with a
\* data connection that claimed it.
THEOREM PathOpenIsTracked == Spec => []OpenIsTracked
<1>1. PathInv => OpenIsTracked
  BY DEF PathInv
<1> QED
  BY <1>1, PathInvariant, PTL

\* security.Semaphore of a client never counts more than the connections that
\* hold a slot of it.
THEOREM PathSemCovered == Spec => []SemCovered
<1>1. PathInv => SemCovered
  BY DEF PathInv
<1> QED
  BY <1>1, PathInvariant, PTL

\* Each IPGate.Allow is undone by exactly one Release.
THEOREM PathGateExact == Spec => []GateExact
<1>1. PathInv => GateExact
  BY DEF PathInv
<1> QED
  BY <1>1, PathInvariant, PTL

-----------------------------------------------------------------------------
\* The refinement.  What Pairing sees of a step that leaves the tunnels of the
\* connections and the claims alone is which connections it closes.

LEMMA PhaseCases ==
    ASSUME NEW x \in Pubs
    PROVE  /\ at[x] = "free" => PhaseOf(x) = "new"
           /\ at[x] # "free" /\ x \notin up => PhaseOf(x) = "closed"
           /\ at[x] # "free" /\ x \in up =>
                 PhaseOf(x) = IF MatesOf(x) = {} THEN "waiting" ELSE "paired"
  BY DEF PhaseOf

LEMMA PhaseCasesNext ==
    ASSUME NEW x \in Pubs
    PROVE  /\ at'[x] = "free" => PhaseOf(x)' = "new"
           /\ at'[x] # "free" /\ x \notin up' => PhaseOf(x)' = "closed"
           /\ at'[x] # "free" /\ x \in up' =>
                 PhaseOf(x)' = IF MatesOf(x)' = {} THEN "waiting" ELSE "paired"
  BY DEF PhaseOf

LEMMA ClaimsKept ==
    ASSUME \A d \in Datas : /\ data'[d].pub = data[d].pub \/ ~(HasClaimed(d) \/ HasClaimed(d)')
                            /\ HasClaimed(d)' <=> HasClaimed(d)
    PROVE  matesBar' = matesBar /\ \A x \in Pubs : MatesOf(x)' = MatesOf(x)
<1>1. \A x \in Pubs : MatesOf(x)' = MatesOf(x)
  BY DEF MatesOf
<1> QED
  BY <1>1 DEF matesBar

LEMMA ClosesOnly ==
    ASSUME PathInv, tun' = tun, up' \subseteq up,
           \A x \in Pubs : at'[x] = "free" <=> at[x] = "free",
           \A d \in Datas : /\ data'[d].pub = data[d].pub /\ data'[d].peer = data[d].peer
                            /\ HasClaimed(d)' <=> HasClaimed(d)
    PROVE  P!Close(up \ up') /\ up \ up' \in SUBSET Pubs
<1>0. up \ up' \in SUBSET Pubs
  BY DEF PathInv, TypeOK
<1>1. matesBar' = matesBar /\ \A x \in Pubs : MatesOf(x)' = MatesOf(x)
  BY ClaimsKept
<1>2. ownerBar' = ownerBar /\ whoBar' = whoBar
  BY DEF ownerBar, whoBar
<1>3. \A x \in up \ up' : at[x] # "free" /\ phaseBar[x] \in {"waiting", "paired"}
  BY <1>0, PhaseCases DEF PathInv, PubsOK, phaseBar
<1>4. \A x \in Pubs : PhaseOf(x)' = IF x \in up \ up' THEN "closed" ELSE PhaseOf(x)
  BY <1>1, <1>3, PhaseCases, PhaseCasesNext
<1>5. phaseBar' = [x \in Pubs |-> IF x \in up \ up' THEN "closed" ELSE phaseBar[x]]
  BY <1>4 DEF phaseBar
<1> QED
  BY <1>0, <1>1, <1>2, <1>3, <1>5 DEF P!Close

LEMMA ClosingIsPairing ==
    ASSUME NEW X \in SUBSET Pubs, P!Close(X)
    PROVE  P!PairingNext
  BY DEF P!PairingNext

LEMMA PairingStart == Init => P!PairingInit
<1> SUFFICES ASSUME Init PROVE P!PairingInit
  OBVIOUS
<1>1. \A x \in Pubs : PhaseOf(x) = "new" /\ MatesOf(x) = {}
  BY PhaseCases DEF Init, MatesOf, HasClaimed
<1> QED
  BY <1>1 DEF Init, P!PairingInit, phaseBar, ownerBar, matesBar, whoBar

LEMMA PairingStep == PathInv /\ [Next]_vars => [P!PairingNext]_(P!pairingVars)
<1> SUFFICES ASSUME PathInv, [Next]_vars PROVE P!PairingNext \/ UNCHANGED P!pairingVars
  BY DEF P!pairingVars
<1> USE DEF connVars, countVars, dataVars, controlVars
<1>0. TypeOK
  BY DEF PathInv
\* a step that claims nothing and at most closes connections
<1>1. ASSUME tun' = tun, up' \subseteq up,
             \A x \in Pubs : at'[x] = "free" <=> at[x] = "free", data' = data
      PROVE  P!PairingNext
  <2>1. \A d \in Datas : HasClaimed(d)' <=> HasClaimed(d)
    BY <1>1 DEF HasClaimed
  <2>2. P!Close(up \ up') /\ up \ up' \in SUBSET Pubs
    BY <1>1, <2>1, ClosesOnly
  <2> QED
    BY <2>2, ClosingIsPairing
<1>2. ASSUME NEW x \in Pubs, NEW l \in At \ {"free"}, at[x] # "free", Move(x, l),
             tun' = tun, data' = data, up' = up \/ up' = up \ {x}
      PROVE  P!PairingNext
  <2>1. \A y \in Pubs : at'[y] = "free" <=> at[y] = "free"
    BY <1>0, <1>2 DEF TypeOK, Move
  <2>2. up' \subseteq up
    BY <1>2
  <2> QED
    BY <1>1, <1>2, <2>1, <2>2
<1>3. ASSUME NEW x \in Pubs, Gate(x) \/ Quota(x) \/ OpenConnection(x)
             \/ OpenConnectionFails(x) \/ Tell(x) \/ VhostQuota(x) \/ VhostTell(x)
      PROVE  P!PairingNext
  <2>1. tun' = tun /\ data' = data /\ at[x] # "free" /\ (up' = up \/ up' = up \ {x})
    BY <1>3 DEF Gate, Quota, TakeSlot, NoSlot, OpenConnection, OpenConnectionFails,
                Tell, VhostQuota, VhostTell
  <2>2. \E l \in At \ {"free"} : Move(x, l)
    BY <1>3 DEF Gate, Quota, TakeSlot, NoSlot, OpenConnection, OpenConnectionFails,
                Tell, VhostQuota, VhostTell, At, InGate, InVhost
  <2> QED
    BY <1>2, <2>1, <2>2
<1>4. ASSUME NEW x \in Pubs, Expire(x) PROVE P!PairingNext
  BY <1>1, <1>4 DEF Expire
<1>5. ASSUME NEW x \in Pubs, NEW t \in tunnels, AcceptPublic(x, t) \/ RouteVhost(x, t)
      PROVE  P!PairingNext
  <2>1. /\ at[x] = "free" /\ t \in Tunnel /\ t # NoTunnel /\ data' = data
        /\ tun' = [tun EXCEPT ![x] = t] /\ up' = up \cup {x}
        /\ \E l \in At \ {"free"} : Move(x, l)
    BY <1>0, <1>5, DataPathAssumption
       DEF AcceptPublic, RouteVhost, TypeOK, Tunnel, At, InVhost
  <2>2. at' \in [Pubs -> At] /\ at'[x] # "free" /\ \A y \in Pubs \ {x} : at'[y] = at[y]
    BY <1>0, <2>1 DEF TypeOK, Move
  <2>3. MatesOf(x) = {}
    BY <2>1 DEF MatesOf, HasClaimed, PathInv, DatasOK
  <2>4. matesBar' = matesBar /\ \A y \in Pubs : MatesOf(y)' = MatesOf(y)
    BY <2>1, ClaimsKept DEF HasClaimed
  <2>5. \A y \in Pubs : PhaseOf(y)' = IF y = x THEN "waiting" ELSE PhaseOf(y)
    BY <2>1, <2>2, <2>3, <2>4, PhaseCases, PhaseCasesNext
  <2>6. phaseBar[x] = "new" /\ phaseBar' = [phaseBar EXCEPT ![x] = "waiting"]
    BY <2>1, <2>5, PhaseCases DEF phaseBar
  <2>7. ownerBar' = [ownerBar EXCEPT ![x] = t[1]]
    BY <1>0, <2>1 DEF ownerBar, TypeOK
  <2>8. whoBar' = whoBar /\ t[1] \in Clients
    BY <2>1 DEF whoBar, Tunnel
  <2>9. P!Arrive(x, t[1])
    BY <2>4, <2>6, <2>7, <2>8 DEF P!Arrive
  <2> QED
    BY <2>8, <2>9 DEF P!PairingNext
<1>6. ASSUME NEW d \in Datas, NEW c \in Clients, NEW x \in Pubs, OpenData(d, c, x)
      PROVE  P!PairingNext
  <2>1. /\ data[d].st = "free" /\ UNCHANGED <<at, tun, up>>
        /\ data' = [data EXCEPT ![d] = [st |-> "claim", peer |-> c, pub |-> x]]
    BY <1>6 DEF OpenData
  <2>2. matesBar' = matesBar /\ \A y \in Pubs : MatesOf(y)' = MatesOf(y)
    BY <1>0, <2>1, ClaimsKept DEF HasClaimed, TypeOK
  <2>3. phaseBar' = phaseBar
    <3>1. \A y \in Pubs : PhaseOf(y)' = PhaseOf(y)
      BY <2>1, <2>2, PhaseCases, PhaseCasesNext
    <3> QED
      BY <3>1 DEF phaseBar
  <2>4. ownerBar' = ownerBar
    BY <2>1 DEF ownerBar
  <2>5. whoBar[d] = NoClient /\ whoBar' = [whoBar EXCEPT ![d] = c]
    BY <1>0, <2>1 DEF whoBar, PathInv, DatasOK, TypeOK
  <2>6. P!Dial(d, c)
    BY <2>2, <2>3, <2>4, <2>5 DEF P!Dial
  <2> QED
    BY <2>6 DEF P!PairingNext
<1>7. ASSUME NEW d \in Datas, ClaimData(d) PROVE P!PairingNext
  <2> DEFINE p == data[d].pub
             mine == p \in pending /\ tun[p][1] = data[d].peer
             good == mine /\ p \notin late /\ tun[p] \in tunnels
  <2>0. /\ data[d].st = "claim" /\ p \in Pubs /\ at[p] = "told"
        /\ up' = IF mine /\ ~good THEN up \ {p} ELSE up
        /\ data' = [data EXCEPT ![d].st = IF good THEN "track" ELSE "refused"]
        /\ at' = at /\ tun' = tun
    BY <1>7 DEF ClaimData, Step, PathInv, DatasOK
  <2>1. \A e \in Datas : /\ data'[e].pub = data[e].pub /\ data'[e].peer = data[e].peer
                         /\ e # d => data'[e].st = data[e].st
    BY <1>0, <2>0 DEF TypeOK, DataConn
  <2>2. CASE good
    <3>0. up' = up /\ data'[d].st = "track" /\ p \in up /\ tun[p] # NoTunnel
          /\ tun[p][1] = data[d].peer
      BY <1>0, <2>0, <2>2 DEF PathInv, PubsOK, TypeOK
    <3>1. \A e \in Datas : HasClaimed(e) => data[e].pub # p
      BY <2>2 DEF PathInv, DatasOK
    <3>2. \A y \in Pubs : MatesOf(y)' = IF y = p THEN {d} ELSE MatesOf(y)
      BY <2>0, <2>1, <3>0, <3>1 DEF MatesOf, HasClaimed
    <3>3. \A y \in Pubs : d \notin matesBar[y]
      BY <2>0 DEF matesBar, MatesOf, HasClaimed
    <3>4. matesBar' = [matesBar EXCEPT ![p] = {d}]
      BY <2>0, <3>2 DEF matesBar
    <3>5. MatesOf(p) = {}
      BY <3>1 DEF MatesOf
    <3>6. \A y \in Pubs : PhaseOf(y)' = IF y = p THEN "paired" ELSE PhaseOf(y)
      BY <2>0, <3>0, <3>2, PhaseCases, PhaseCasesNext
    <3>7. phaseBar[p] = "waiting" /\ phaseBar' = [phaseBar EXCEPT ![p] = "paired"]
      BY <2>0, <3>0, <3>5, <3>6, PhaseCases DEF phaseBar
    <3>8. ownerBar' = ownerBar /\ whoBar' = whoBar /\ whoBar[d] = ownerBar[p]
      BY <2>0, <2>1, <3>0 DEF ownerBar, whoBar
    <3>9. P!Pair(p, d)
      BY <3>3, <3>4, <3>7, <3>8 DEF P!Pair
    <3> QED
      BY <2>0, <3>9 DEF P!PairingNext
  <2>3. CASE ~good
    <3>1. \A e \in Datas : HasClaimed(e)' <=> HasClaimed(e)
      <4>1. data'[d].st = "refused"
        BY <1>0, <2>0, <2>3 DEF TypeOK, DataConn
      <4> QED
        BY <2>0, <2>1, <4>1 DEF HasClaimed
    <3>2. up' \subseteq up
      BY <2>0
    <3>3. P!Close(up \ up') /\ up \ up' \in SUBSET Pubs
      BY <2>0, <2>1, <3>1, <3>2, ClosesOnly
    <3> QED
      BY <3>3, ClosingIsPairing
  <2> QED
    BY <2>2, <2>3
<1>8. ASSUME NEW d \in Datas, Track(d) \/ SpliceEnds(d) \/ ReleaseQuota(d) \/ Untrack(d)
      PROVE  P!PairingNext
  <2>1. /\ at' = at /\ tun' = tun /\ up' \subseteq up
        /\ data[d].st \in {"track", "splice", "release", "untrack"}
        /\ \E l \in {"splice", "release", "untrack", "end"} : Step(d, l)
    BY <1>8 DEF Track, SpliceEnds, ReleaseQuota, Finish, Untrack
  <2>2. \A e \in Datas : /\ data'[e].pub = data[e].pub /\ data'[e].peer = data[e].peer
                         /\ HasClaimed(e)' <=> HasClaimed(e)
    BY <1>0, <2>1 DEF TypeOK, DataConn, Step, HasClaimed
  <2>3. P!Close(up \ up') /\ up \ up' \in SUBSET Pubs
    BY <2>1, <2>2, ClosesOnly
  <2> QED
    BY <2>3, ClosingIsPairing
<1>9. ASSUME NEW c \in Clients,
             \/ RegisterTunnel(c) \/ Shutdown(c) \/ StartDrain(c) \/ Drained(c)
             \/ DrainTimeout(c) \/ Disconnect(c) \/ CleanupSecurity(c)
             \/ HandlerEnds(c) \/ Reconnect(c) \/ UdpChannel(c) \/ UdpChannelClosed(c)
      PROVE  P!PairingNext
  <2>1. at' = at /\ tun' = tun /\ up' = up /\ data' = data
    BY <1>9 DEF RegisterTunnel, Shutdown, StartDrain, Drained, DrainTimeout, Disconnect,
                CleanupSecurity, HandlerEnds, Reconnect, ControlStep, UdpChannel,
                UdpChannelClosed
  <2> QED
    BY <1>1, <2>1
<1>10. ASSUME NEW t \in tunnels, Unregister(t) PROVE P!PairingNext
  <2>1. {x \in pending : tun[x] = t} \in SUBSET Pubs
    BY <1>0 DEF TypeOK
  <2> QED
    BY <1>1, <1>10, <2>1 DEF Unregister
<1>11. CASE UNCHANGED vars
  <2>1. at' = at /\ tun' = tun /\ up' = up /\ data' = data
    BY <1>11 DEF vars
  <2> QED
    BY <1>1, <2>1
<1>12. CASE ServerStep
  BY <1>3, <1>7, <1>8, <1>9, <1>10, <1>12 DEF ServerStep
<1>13. CASE Outside
  BY <1>3, <1>4, <1>5, <1>6, <1>8, <1>9, <1>10, <1>13 DEF Outside
<1> QED
  BY <1>11, <1>12, <1>13 DEF Next

\* The data path of the server implements Pairing: ClaimData gives a public
\* connection to at most one data connection, of the client that owns its
\* tunnel, and nothing reopens one that was closed.
THEOREM PathImplementsPairing == Spec => ImplementsPairing
<1>1. Init => P!PairingInit
  BY PairingStart
<1>2. PathInv /\ [Next]_vars => [P!PairingNext]_(P!pairingVars)
  BY PairingStep
<1> QED
  BY <1>1, <1>2, PathInvariant, PTL DEF Spec, ImplementsPairing, P!PairingSpec
=============================================================================
