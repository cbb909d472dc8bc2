------------------------ MODULE ControlSession_proofs ------------------------
(***************************************************************************)
(* Proofs about ControlSession for any clients, connections and ports.     *)
(* IInv is inductive; the properties the runs check follow from it.        *)
(***************************************************************************)
EXTENDS ControlSession, FiniteSetTheorems, TLAPS

\* The handlers that run, which halfOpen counts.
Running == {h \in Conns : pc[h] # "idle"}

LEMMA RunningFinite == IsFiniteSet(Running) /\ IsFiniteSet(Running')
<1>1. Running \subseteq Conns /\ Running' \subseteq Conns
  BY DEF Running
<1> QED
  BY <1>1, FS_Subset, ControlSessionAssumption

-----------------------------------------------------------------------------
\* The labels of PC, one by one.
LEMMA Labels ==
    /\ "idle" \in PC /\ "hello" \in PC /\ "get" \in PC /\ "evict" \in PC
    /\ "replace" \in PC /\ "reregister" \in PC /\ "greet" \in PC
    /\ "serving" \in PC /\ "check" \in PC /\ "lookup" \in PC /\ "reserve" \in PC
    /\ "listen" \in PC /\ "insert" \in PC
    /\ "drain" \in PC /\ "cleanup" \in PC /\ "unregAll" \in PC /\ "leave" \in PC
    /\ "remove" \in PC /\ "closeLn" \in PC /\ "release" \in PC
BY DEF PC, Handshake, Holding, Removing

\* Every step keeps the types, and a slot has a client exactly while it runs.
LEMMA TypeStep ==
    TypeOK /\ SlotOK /\ JobOK /\ HalfOpenExact /\ [Next]_vars => TypeOK' /\ SlotOK'
<1> SUFFICES ASSUME TypeOK, SlotOK, JobOK, HalfOpenExact, [Next]_vars
             PROVE  TypeOK' /\ SlotOK'
  OBVIOUS
<1> USE Labels DEF TypeOK, SlotOK, Goto
<1>0. /\ NoClient \notin Clients
      /\ NoJob \in Job
      /\ \A h \in Conns : pc[h] # "idle" => client[h] \in Clients
  BY ControlSessionAssumption DEF NoJob, Job
<1>1. ASSUME NEW h \in Conns, NEW c \in Clients, Accept(h, c)
      PROVE  TypeOK' /\ SlotOK'
  BY <1>0, <1>1 DEF Accept
<1>2. ASSUME NEW h \in Conns,
             RejectHello(h) \/ ReadLoopEnds(h) \/ ServerHello(h) \/ DrainEnds(h)
      PROVE  TypeOK' /\ SlotOK'
  BY <1>2 DEF RejectHello, ReadLoopEnds, ServerHello, DrainEnds
<1>3. ASSUME NEW h \in Conns, RegisterSession(h) \/ Reregister(h)
      PROVE  TypeOK' /\ SlotOK'
  <2>1. client[h] \in Clients
    BY <1>0, <1>3 DEF RegisterSession, Reregister
  <2>2. /\ registry' \in [Clients -> Conns \cup {NoConn}]
        /\ pc' \in [Conns -> PC]
        /\ pc' = [pc EXCEPT ![h] = pc'[h]]
        /\ pc'[h] # "idle"
    BY <1>3, <2>1 DEF RegisterSession, Reregister
  <2> QED
    BY <1>3, <2>2 DEF RegisterSession, Reregister
<1>4. ASSUME NEW h \in Conns, UnregisterOld(h) \/ UnregisterSession(h)
      PROVE  TypeOK' /\ SlotOK'
  BY <1>4 DEF UnregisterOld, UnregisterSession
<1>5. ASSUME NEW h \in Conns, GetOld(h) \/ EvictOld(h)
      PROVE  TypeOK' /\ SlotOK'
  <2>1. CASE GetOld(h)
    <3>1. registry[client[h]] \in Conns \cup {NoConn}
      BY <1>0, <2>1 DEF GetOld
    <3>2. old' \in [Conns -> Conns \cup {NoConn}]
      BY <2>1, <3>1 DEF GetOld
    <3> QED
      BY <2>1, <3>2 DEF GetOld
  <2>2. CASE EvictOld(h)
    BY <2>2 DEF EvictOld
  <2> QED
    BY <1>5, <2>1, <2>2
<1>6. ASSUME NEW h \in Conns, NEW p \in Ports, RegisterTunnel(h, p)
      PROVE  TypeOK' /\ SlotOK'
  <2>1. [port |-> p, id |-> 0] \in Job
    BY DEF Job
  <2> QED
    BY <1>6, <2>1 DEF RegisterTunnel
<1>7. ASSUME NEW h \in Conns, CheckRegister(h) \/ LookUpPort(h)
      PROVE  TypeOK' /\ SlotOK'
  BY <1>0, <1>7 DEF CheckRegister, LookUpPort
<1>8. ASSUME NEW h \in Conns, Listen(h)
      PROVE  TypeOK' /\ SlotOK'
  <2>1. /\ client[h] \in Clients
        /\ seq[client[h]] + 1 \in Nat
        /\ job[h].port \in Ports
    BY <1>0, <1>8 DEF Listen, JobOK
  <2>2. <<client[h], seq[client[h]] + 1>> \in Holder
    BY <2>1 DEF Holder
  <2>3. [port |-> job[h].port, id |-> seq[client[h]] + 1] \in Job
    BY <2>1 DEF Job
  <2> QED
    BY <1>0, <1>8, <2>1, <2>2, <2>3 DEF Listen
<1>9. ASSUME NEW h \in Conns, Insert(h)
      PROVE  TypeOK' /\ SlotOK'
  <2>1. client[h] \in Clients /\ job[h].port \in Ports /\ job[h].id \in Nat
    BY <1>0, <1>9 DEF Insert, JobOK, Working, Job
  <2>2. [id |-> job[h].id, port |-> job[h].port, by |-> h] \in Tunnel
    BY <2>1 DEF Tunnel
  <2> QED
    BY <1>0, <1>9, <2>1, <2>2 DEF Insert
<1>10. ASSUME NEW h \in Conns, pc[h] # "idle",
              NEW id \in 1..seq[client[h]], UnregisterTunnel(h, id)
       PROVE  TypeOK' /\ SlotOK'
  <2>1. seq[client[h]] \in Nat
    BY <1>0, <1>10
  <2>2. {id} \in SUBSET Nat /\ "serving" \in Returns
    BY <2>1 DEF Returns
  <2> QED
    BY <1>10, <2>2 DEF UnregisterTunnel
<1>11. ASSUME NEW h \in Conns, Shutdown(h) \/ UnregisterAll(h)
       PROVE  TypeOK' /\ SlotOK'
  <2>1. client[h] \in Clients
    BY <1>0, <1>11 DEF Shutdown, UnregisterAll
  <2>2. /\ Ids(client[h]) \in SUBSET Nat
        /\ "drain" \in Returns /\ "leave" \in Returns
    BY <2>1 DEF Ids, Tunnel, Returns
  <2> QED
    BY <1>11, <2>2 DEF Shutdown, UnregisterAll
<1>12. ASSUME NEW h \in Conns, NEW id \in todo[h], Remove(h, id)
       PROVE  TypeOK' /\ SlotOK'
  <2>0. client[h] \in Clients /\ id \in Nat /\ todo[h] \ {id} \in SUBSET Nat
    BY <1>0, <1>12 DEF Remove
  <2>1. CASE UNCHANGED <<pc, tunnels, job>>
    BY <1>12, <2>0, <2>1 DEF Remove
  <2>2. ASSUME NEW t \in tunnels[client[h]],
               tunnels' = [tunnels EXCEPT ![client[h]] = @ \ {t}],
               job' = [job EXCEPT ![h] = [port |-> t.port, id |-> id]],
               Goto(h, "closeLn")
        PROVE  TypeOK' /\ SlotOK'
    <3>1. [port |-> t.port, id |-> id] \in Job
      BY <2>0, <2>2 DEF Tunnel, Job
    <3> QED
      BY <1>12, <2>0, <2>2, <3>1 DEF Remove
  <2> QED
    BY <1>12, <2>1, <2>2 DEF Remove
<1>13. ASSUME NEW h \in Conns, CloseListener(h)
       PROVE  TypeOK' /\ SlotOK'
  <2>1. Free \in Holder
    BY DEF Holder
  <2> QED
    BY <1>0, <1>13, <2>1 DEF CloseListener
<1>14. ASSUME NEW h \in Conns, RemoveEnds(h)
       PROVE  TypeOK' /\ SlotOK'
  <2>1. ret[h] \in PC /\ ret[h] # "idle" /\ "serving" \in Returns
    BY DEF Returns
  <2> QED
    BY <1>14, <2>1 DEF RemoveEnds
<1>15. ASSUME NEW h \in Conns,
              CollectPorts(h) \/ ReserveEnds(h) \/ \E p \in due[h] : Reserve(h, p)
       PROVE  TypeOK' /\ SlotOK'
  <2>1. client[h] \in Clients
    BY <1>0, <1>15 DEF CollectPorts, ReserveEnds, Reserve
  <2>2. PortsOf(client[h]) \in SUBSET Ports
    BY <2>1 DEF PortsOf, Tunnel
  <2>3. CASE CollectPorts(h)
    BY <2>2, <2>3 DEF CollectPorts
  <2>4. CASE ReserveEnds(h)
    BY <2>4 DEF ReserveEnds
  <2>5. ASSUME NEW p \in due[h], Reserve(h, p)
        PROVE  TypeOK' /\ SlotOK'
    <3>1. p \in Ports /\ due[h] \ {p} \in SUBSET Ports
      BY <2>5
    <3> QED
      BY <2>1, <2>5, <3>1 DEF Reserve
  <2> QED
    BY <1>15, <2>3, <2>4, <2>5
<1>16. ASSUME NEW h \in Conns, Release(h)
       PROVE  TypeOK' /\ SlotOK'
  <2>1. h \in Running
    BY <1>16 DEF Release, Running
  <2>2. halfOpen = Cardinality(Running)
    BY DEF HalfOpenExact, Running
  <2>3. halfOpen # 0
    BY <2>1, <2>2, RunningFinite, FS_EmptySet
  <2> QED
    BY <1>16, <2>3 DEF Release
<1>17. ASSUME NEW h \in Conns, ConnLost(h)
       PROVE  TypeOK' /\ SlotOK'
  BY <1>17 DEF ConnLost
<1>18. ASSUME NEW p \in Ports, ReservationExpires(p)
       PROVE  TypeOK' /\ SlotOK'
  BY <1>18 DEF ReservationExpires
<1>19. CASE UNCHANGED vars
  BY <1>19 DEF vars
<1> QED
  BY <1>1, <1>2, <1>3, <1>4, <1>5, <1>6, <1>7, <1>8, <1>9, <1>10, <1>11, <1>12,
     <1>13, <1>14, <1>15, <1>16, <1>17, <1>18, <1>19
  DEF Next, HandlerStep, MessageStep

-----------------------------------------------------------------------------
\* What all steps of a handler between its first and its last have in common.
Advances(h) ==
    /\ pc[h] # "idle" /\ pc'[h] # "idle"
    /\ \A g \in Conns : g # h => pc'[g] = pc[g]
    /\ UNCHANGED <<client, halfOpen>>
    /\ pc[h] \in Holding => pc'[h] \in Holding \/ UnregisterSession(h)

LEMMA StepAdvances ==
    ASSUME TypeOK, NEW h \in Conns, HandlerStep(h) \/ MessageStep(h), ~Release(h)
    PROVE  Advances(h)
<1> USE DEF TypeOK, Goto
<1>1. CASE \/ RejectHello(h) \/ RegisterSession(h) \/ GetOld(h) \/ EvictOld(h)
           \/ UnregisterOld(h) \/ Reregister(h)
  BY <1>1 DEF Advances, Holding, Removing, RejectHello, RegisterSession, GetOld,
              EvictOld, UnregisterOld, Reregister
<1>2. CASE ServerHello(h) \/ ReadLoopEnds(h) \/ DrainEnds(h) \/ CollectPorts(h)
           \/ ReserveEnds(h) \/ (\E p \in due[h] : Reserve(h, p))
           \/ UnregisterAll(h) \/ Shutdown(h)
  BY <1>2 DEF Advances, Holding, Removing, ServerHello, ReadLoopEnds, DrainEnds,
              CollectPorts, Reserve, ReserveEnds, UnregisterAll, Shutdown
<1>3. CASE CheckRegister(h) \/ LookUpPort(h) \/ Listen(h) \/ Insert(h) \/ CloseListener(h)
  BY <1>3 DEF Advances, Holding, Removing, CheckRegister, LookUpPort, Listen, Insert,
              CloseListener
<1>4. CASE \E id \in todo[h] : Remove(h, id)
  BY <1>4 DEF Advances, Holding, Removing, Remove
<1>5. CASE RemoveEnds(h)
  BY <1>5 DEF Advances, Holding, Removing, Returns, RemoveEnds
<1>6. CASE UnregisterSession(h)
  BY <1>6 DEF Advances, UnregisterSession
<1>7. CASE \E p \in Ports : RegisterTunnel(h, p)
  BY <1>7 DEF Advances, Holding, Removing, RegisterTunnel
<1>8. CASE \E id \in 1..seq[client[h]] : UnregisterTunnel(h, id)
  BY <1>8 DEF Advances, Holding, Removing, UnregisterTunnel
<1> QED
  BY <1>1, <1>2, <1>3, <1>4, <1>5, <1>6, <1>7, <1>8 DEF HandlerStep, MessageStep

\* The half-open counter follows the set of running handlers.
LEMMA HalfOpenStep ==
    TypeOK /\ HalfOpenExact /\ [Next]_vars => HalfOpenExact'
<1> SUFFICES ASSUME TypeOK, HalfOpenExact, [Next]_vars
             PROVE  HalfOpenExact'
  OBVIOUS
<1>0. /\ halfOpen = Cardinality(Running)
      /\ HalfOpenExact' <=> halfOpen' = Cardinality(Running')
  BY DEF HalfOpenExact, Running
<1>1. ASSUME NEW h \in Conns, NEW c \in Clients, Accept(h, c)
      PROVE  HalfOpenExact'
  <2>1. Running' = Running \cup {h} /\ h \notin Running
    BY <1>1 DEF Accept, Goto, Running, TypeOK
  <2>2. Cardinality(Running') = Cardinality(Running) + 1
    BY <2>1, RunningFinite, FS_AddElement
  <2> QED
    BY <1>0, <1>1, <2>2 DEF Accept
<1>2. ASSUME NEW h \in Conns, Release(h)
      PROVE  HalfOpenExact'
  <2>1. Running' = Running \ {h} /\ h \in Running
    BY <1>2 DEF Release, Goto, Running, TypeOK
  <2>2. Cardinality(Running') = Cardinality(Running) - 1
    BY <2>1, RunningFinite, FS_RemoveElement
  <2> QED
    BY <1>0, <1>2, <2>2 DEF Release
<1>3. ASSUME NEW h \in Conns, HandlerStep(h) \/ MessageStep(h), ~Release(h)
      PROVE  HalfOpenExact'
  <2>1. Running' = Running /\ halfOpen' = halfOpen
    BY <1>3, StepAdvances DEF Advances, Running
  <2> QED
    BY <1>0, <2>1
<1>4. ASSUME UNCHANGED <<pc, halfOpen>>
      PROVE  HalfOpenExact'
  BY <1>4 DEF HalfOpenExact
<1> QED
  BY <1>1, <1>2, <1>3, <1>4 DEF Next, vars, ConnLost, ReservationExpires

\* No step leaves a session in the registry whose handler is past its own
\* Sessions.Unregister.
LEMMA RegisteredStep ==
    TypeOK /\ SlotOK /\ RegisteredIsLive /\ [Next]_vars => RegisteredIsLive'
<1> SUFFICES ASSUME TypeOK, SlotOK, RegisteredIsLive, [Next]_vars
             PROVE  RegisteredIsLive'
  OBVIOUS
<1>0. /\ NoClient \notin Clients /\ NoConn \notin Conns
      /\ \A h \in Conns : pc[h] # "idle" => client[h] \in Clients
      /\ "idle" \notin Holding /\ "release" \notin Holding
  BY ControlSessionAssumption DEF TypeOK, SlotOK, Holding, Removing
<1>1. ASSUME NEW h \in Conns, NEW c \in Clients, Accept(h, c)
      PROVE  RegisteredIsLive'
  BY <1>0, <1>1 DEF Accept, Goto, TypeOK, RegisteredIsLive
<1>2. ASSUME NEW h \in Conns, Release(h)
      PROVE  RegisteredIsLive'
  BY <1>0, <1>2 DEF Release, Goto, TypeOK, RegisteredIsLive
<1>3. ASSUME NEW h \in Conns, HandlerStep(h) \/ MessageStep(h), ~Release(h)
      PROVE  RegisteredIsLive'
  <2>0. Advances(h) /\ client[h] \in Clients
    BY <1>0, <1>3, StepAdvances DEF Advances
  <2>1. CASE UnregisterSession(h) \/ UnregisterOld(h)
    <3>1. registry' = [registry EXCEPT ![client[h]] = NoConn]
      BY <2>1 DEF UnregisterSession, UnregisterOld
    <3>2. ASSUME NEW c \in Clients, registry'[c] # NoConn
          PROVE  /\ registry'[c] \in Conns /\ registry'[c] # h
                 /\ registry'[c] = registry[c]
      BY <2>0, <3>1, <3>2 DEF TypeOK, RegisteredIsLive
    <3> QED
      BY <2>0, <3>2 DEF Advances, RegisteredIsLive
  <2>2. CASE UNCHANGED registry /\ ~UnregisterSession(h)
    BY <2>0, <2>2 DEF Advances, RegisteredIsLive, TypeOK
  <2>3. CASE registry' = [registry EXCEPT ![client[h]] = h] /\ pc'[h] = "greet"
    <3>1. "greet" \in Holding
      BY DEF Holding
    <3>2. ~UnregisterSession(h)
      BY <2>3 DEF UnregisterSession, Goto, TypeOK
    <3> QED
      BY <2>0, <2>3, <3>1, <3>2 DEF Advances, RegisteredIsLive, TypeOK
  <2>4. CASE RegisterSession(h) \/ Reregister(h)
    BY <2>2, <2>3, <2>4 DEF RegisterSession, Reregister, UnregisterSession, Goto, TypeOK
  <2> QED
    BY <1>3, <2>1, <2>2, <2>4
    DEF HandlerStep, MessageStep, RejectHello, GetOld, EvictOld, ServerHello,
        ReadLoopEnds, DrainEnds, CollectPorts, Reserve, ReserveEnds,
        UnregisterAll, Shutdown, CheckRegister, LookUpPort, Listen, Insert, CloseListener, Remove, RemoveEnds, RegisterTunnel,
        UnregisterTunnel
<1>4. ASSUME UNCHANGED <<pc, client, registry>>
      PROVE  RegisteredIsLive'
  BY <1>4 DEF RegisteredIsLive
<1> QED
  BY <1>1, <1>2, <1>3, <1>4 DEF Next, vars, ConnLost, ReservationExpires

-----------------------------------------------------------------------------
\* Who holds a public port.
PortInv ==
    /\ TunnelHoldsPort /\ JobOK /\ JobsApart
    /\ ListenerOwned /\ ListenerFresh /\ IdsUnique

\* Holders of a bound port are pairs, never Free.
LEMMA HolderIsPair ==
    ASSUME TypeOK, TunnelHoldsPort, JobOK, SlotOK
    PROVE  /\ \A c \in Clients, n \in Nat : <<c, n>> # Free
           /\ \A c \in Clients : \A t \in tunnels[c] :
                 t.port \in Ports /\ t.id \in Nat /\ listener[t.port] # Free
           /\ \A g \in Conns : pc[g] \in Working =>
                 /\ client[g] \in Clients
                 /\ job[g].port \in Ports /\ job[g].id \in Nat
                 /\ listener[job[g].port] # Free
           /\ \A p \in Ports : listener[p] # Free =>
                 /\ listener[p][1] \in Clients /\ listener[p][2] \in Nat
                 /\ listener[p] = <<listener[p][1], listener[p][2]>>
<1>1. \A c \in Clients, n \in Nat : <<c, n>> # Free
  BY ControlSessionAssumption
<1>2. \A c \in Clients : \A t \in tunnels[c] : t.port \in Ports /\ t.id \in Nat
  BY DEF TypeOK, Tunnel
<1>3. \A g \in Conns : pc[g] \in Working =>
          client[g] \in Clients /\ job[g].port \in Ports /\ job[g].id \in Nat
  BY DEF TypeOK, SlotOK, JobOK, Job, Working
<1>4. \A p \in Ports : listener[p] # Free =>
          /\ listener[p][1] \in Clients /\ listener[p][2] \in Nat
          /\ listener[p] = <<listener[p][1], listener[p][2]>>
  BY DEF TypeOK, Holder
<1>5. \A c \in Clients : \A t \in tunnels[c] : listener[t.port] # Free
  BY <1>1, <1>2 DEF TunnelHoldsPort
<1>6. ASSUME NEW g \in Conns, pc[g] \in Working
      PROVE  listener[job[g].port] # Free
  <2>1. listener[job[g].port] = <<client[g], job[g].id>>
    BY <1>6 DEF JobOK
  <2> QED
    BY <1>1, <1>3, <1>6, <2>1
<1> QED
  BY <1>1, <1>2, <1>3, <1>4, <1>5, <1>6

\* Steps that neither enter nor leave the handling of a bound port.
Aside ==
    /\ UNCHANGED <<tunnels, listener>>
    /\ \A c \in Clients : seq[c] <= seq'[c]
    /\ \A g \in Conns :
          \/ pc'[g] = pc[g] /\ client'[g] = client[g] /\ job'[g] = job[g]
          \/ /\ pc[g] \notin Working /\ pc'[g] \notin Working
             /\ pc'[g] \in {"check", "lookup", "listen"} => job'[g].port \in Ports

LEMMA AsideStep ==
    ASSUME TypeOK, TypeOK', SlotOK, PortInv, Aside
    PROVE  PortInv'
<1>1. TunnelHoldsPort' /\ IdsUnique'
  BY DEF PortInv, TunnelHoldsPort, IdsUnique, Aside
<1>2. JobOK'
  BY DEF PortInv, JobOK, Aside
<1>3. JobsApart'
  BY DEF PortInv, JobsApart, Aside
<1>4. ListenerOwned'
  BY DEF PortInv, ListenerOwned, Aside
<1>5. ListenerFresh'
  <2>1. \A p \in Ports : listener[p] # Free =>
           /\ listener[p][1] \in Clients /\ listener[p][2] \in Nat
           /\ seq[listener[p][1]] \in Nat /\ seq'[listener[p][1]] \in Nat
    BY HolderIsPair DEF PortInv, TypeOK
  <2> QED
    BY <2>1 DEF PortInv, ListenerFresh, Aside
<1> QED
  BY <1>1, <1>2, <1>3, <1>4, <1>5 DEF PortInv

\* net.Listen got a free port: its holder is new, and so is its id.
LEMMA ListenStep ==
    ASSUME TypeOK, SlotOK, PortInv, NEW h \in Conns, Listen(h),
           listener[job[h].port] = Free
    PROVE  PortInv'
<1> DEFINE c == client[h]
           p == job[h].port
           n == seq[c] + 1
<1>1. /\ c \in Clients /\ p \in Ports /\ seq[c] \in Nat /\ n \in Nat
      /\ <<c, n>> # Free
  BY ControlSessionAssumption DEF TypeOK, SlotOK, PortInv, JobOK, Listen
<1>2. /\ listener' = [listener EXCEPT ![p] = <<c, n>>]
      /\ seq' = [seq EXCEPT ![c] = n]
      /\ job' = [job EXCEPT ![h] = [port |-> p, id |-> n]]
      /\ pc' = [pc EXCEPT ![h] = "insert"]
      /\ UNCHANGED <<client, tunnels>>
      /\ listener[p] = Free /\ pc[h] \notin Working
  BY DEF Listen, Goto, Working
<1> HIDE DEF c, p, n
<1>3. /\ listener'[p] = <<c, n>>
      /\ \A q \in Ports : q # p => listener'[q] = listener[q]
      /\ job'[h].port = p /\ job'[h].id = n /\ pc'[h] = "insert"
      /\ \A g \in Conns : g # h => pc'[g] = pc[g] /\ job'[g] = job[g]
      /\ client'[h] = c
  BY <1>1, <1>2 DEF TypeOK, c
<1>4. \A q \in Ports : listener[q] # Free => listener[q][1] # c \/ listener[q][2] < n
  BY <1>1, HolderIsPair DEF PortInv, ListenerFresh, n
<1>5. TunnelHoldsPort' /\ IdsUnique'
  BY <1>2, <1>3, HolderIsPair DEF PortInv, TunnelHoldsPort, IdsUnique
<1>6. JobOK'
  <2>1. \A t \in tunnels[c] : t.id # n
    BY <1>1, <1>4, HolderIsPair DEF PortInv, TunnelHoldsPort
  <2>2. ASSUME NEW g \in Conns, g # h, pc[g] \in Working
        PROVE  job[g].port \in Ports /\ job[g].port # p
    BY <1>2, <2>2, HolderIsPair DEF PortInv
  <2>3. ASSUME NEW g \in Conns, g # h
        PROVE  /\ pc'[g] \in {"check", "lookup", "listen"} \cup Working => job'[g].port \in Ports
               /\ pc'[g] \in Working =>
                     /\ listener'[job'[g].port] = <<client'[g], job'[g].id>>
                     /\ \A t \in tunnels'[client'[g]] : t.id # job'[g].id
    <3>1. /\ pc'[g] = pc[g] /\ job'[g] = job[g] /\ client'[g] = client[g]
          /\ UNCHANGED tunnels
      BY <1>2, <1>3, <2>3
    <3>2. pc[g] \in {"check", "lookup", "listen"} \cup Working => job[g].port \in Ports
      BY DEF PortInv, JobOK
    <3>3. pc[g] \in Working =>
            /\ listener[job[g].port] = <<client[g], job[g].id>>
            /\ \A t \in tunnels[client[g]] : t.id # job[g].id
      BY DEF PortInv, JobOK
    <3>4. pc[g] \in Working => listener'[job[g].port] = listener[job[g].port]
      BY <1>3, <2>2, <2>3
    <3> QED
      BY <3>1, <3>2, <3>3, <3>4
  <2>4. /\ job'[h].port \in Ports
        /\ listener'[job'[h].port] = <<client'[h], job'[h].id>>
        /\ \A t \in tunnels'[client'[h]] : t.id # job'[h].id
    BY <1>1, <1>2, <1>3, <2>1
  <2> QED
    BY <2>3, <2>4 DEF JobOK
<1>7. JobsApart'
  BY <1>2, <1>3, HolderIsPair DEF PortInv, JobsApart
<1>8. ListenerOwned'
  <2>1. ASSUME NEW q \in Ports, q # p, listener[q] # Free
        PROVE  \/ \E t \in tunnels[listener[q][1]] : t.port = q
               \/ \E g \in Conns : pc'[g] \in Working /\ job'[g].port = q
    BY <1>2, <1>3, <2>1 DEF PortInv, ListenerOwned
  <2>2. pc'[h] \in Working
    BY <1>3 DEF Working
  <2> QED
    BY <1>2, <1>3, <2>1, <2>2 DEF ListenerOwned
<1>9. ListenerFresh'
  <2>1. /\ seq'[c] = n
        /\ \A d \in Clients : d # c => seq'[d] = seq[d]
    BY <1>1, <1>2 DEF TypeOK
  <2>2. \A q \in Ports : listener'[q] # Free => listener'[q][2] <= seq'[listener'[q][1]]
    BY <1>1, <1>3, <1>4, <2>1, HolderIsPair DEF PortInv, ListenerFresh
  <2>3. ASSUME NEW q \in Ports, q # p, listener[q] = <<c, n>>
        PROVE  FALSE
    <3>1. listener[q][1] = c /\ listener[q][2] = n
      BY <2>3
    <3> QED
      BY <1>1, <1>4, <2>3, <3>1
  <2>4. \A q, r \in Ports : listener'[q] # Free /\ listener'[q] = listener'[r] => q = r
    BY <1>3, <2>3 DEF PortInv, ListenerFresh
  <2> QED
    BY <2>2, <2>4 DEF ListenerFresh
<1> QED
  BY <1>5, <1>6, <1>7, <1>8, <1>9 DEF PortInv

\* The tunnel enters the maps with the port its handler has bound.
LEMMA InsertStep ==
    ASSUME TypeOK, SlotOK, PortInv, NEW h \in Conns, Insert(h)
    PROVE  PortInv'
<1> DEFINE c == client[h]
           u == [id |-> job[h].id, port |-> job[h].port, by |-> h]
<1>1. /\ pc[h] \in Working /\ c \in Clients
      /\ u.id = job[h].id /\ u.port = job[h].port
      /\ u.port \in Ports /\ u.id \in Nat
  BY HolderIsPair DEF PortInv, Insert, Working
<1>2. /\ tunnels' = [tunnels EXCEPT ![c] = @ \cup {u}]
      /\ job' = [job EXCEPT ![h] = NoJob]
      /\ pc' = [pc EXCEPT ![h] = "serving"]
      /\ UNCHANGED <<client, listener, seq>>
  BY DEF Insert, Goto
<1>3. /\ listener[u.port] = <<c, u.id>>
      /\ \A t \in tunnels[c] : t.id # u.id
  BY <1>1 DEF PortInv, JobOK
<1> HIDE DEF c, u
<1>4. /\ tunnels'[c] = tunnels[c] \cup {u}
      /\ \A d \in Clients : d # c => tunnels'[d] = tunnels[d]
      /\ pc'[h] \notin {"check", "lookup", "listen"} \cup Working
      /\ \A g \in Conns : g # h => pc'[g] = pc[g] /\ job'[g] = job[g]
  BY <1>1, <1>2 DEF TypeOK, Working
<1>5. TunnelHoldsPort'
  BY <1>2, <1>3, <1>4 DEF PortInv, TunnelHoldsPort
<1>6. IdsUnique'
  BY <1>3, <1>4 DEF PortInv, IdsUnique
<1>7. JobOK'
  <2>1. ASSUME NEW g \in Conns, g # h, pc[g] \in Working, client[g] = c
        PROVE  u.id # job[g].id
    <3>1. listener[job[g].port] = <<c, job[g].id>> /\ job[g].port # u.port
      BY <1>1, <2>1 DEF PortInv, JobOK, JobsApart, u
    <3> QED
      BY <1>1, <1>3, <2>1, <3>1, HolderIsPair DEF PortInv, ListenerFresh
  <2>2. ASSUME NEW g \in Conns, g # h, pc[g] \in Working
        PROVE  \A t \in tunnels'[client[g]] : t.id # job[g].id
    BY <1>4, <2>1, <2>2, HolderIsPair DEF PortInv, JobOK
  <2> QED
    BY <1>2, <1>4, <2>2 DEF PortInv, JobOK
<1>8. JobsApart' /\ ListenerFresh'
  BY <1>2, <1>4 DEF PortInv, JobsApart, ListenerFresh
<1>9. ListenerOwned'
  <2>1. ASSUME NEW p \in Ports, listener[p] # Free
        PROVE  \/ \E t \in tunnels'[listener[p][1]] : t.port = p
               \/ \E g \in Conns : pc'[g] \in Working /\ job'[g].port = p
    <3>1. CASE p = u.port
      BY <1>3, <1>4, <3>1
    <3>2. CASE \E t \in tunnels[listener[p][1]] : t.port = p
      BY <1>4, <2>1, <3>2, HolderIsPair DEF PortInv
    <3>3. CASE \E g \in Conns : pc[g] \in Working /\ job[g].port = p /\ g # h
      BY <1>4, <3>3
    <3> QED
      BY <1>1, <2>1, <3>1, <3>2, <3>3 DEF PortInv, ListenerOwned
  <2> QED
    BY <1>2, <2>1 DEF ListenerOwned
<1> QED
  BY <1>5, <1>6, <1>7, <1>8, <1>9 DEF PortInv

\* A tunnel leaves the maps; its handler is now the one that holds the port.
LEMMA RemoveStep ==
    ASSUME TypeOK, SlotOK, PortInv, NEW h \in Conns, pc[h] = "remove",
           NEW t \in tunnels[client[h]],
           tunnels' = [tunnels EXCEPT ![client[h]] = @ \ {t}],
           job' = [job EXCEPT ![h] = [port |-> t.port, id |-> t.id]],
           pc' = [pc EXCEPT ![h] = "closeLn"],
           UNCHANGED <<client, listener, seq>>
    PROVE  PortInv'
<1> DEFINE c == client[h]
<1>1. c \in Clients /\ t \in tunnels[c]
  BY DEF TypeOK, SlotOK
<1> HIDE DEF c
<1>2. /\ tunnels'[c] = tunnels[c] \ {t}
      /\ \A d \in Clients : d # c => tunnels'[d] = tunnels[d]
      /\ \A d \in Clients : tunnels'[d] \subseteq tunnels[d]
      /\ job'[h].port = t.port /\ job'[h].id = t.id
      /\ client'[h] = c /\ pc'[h] \in Working /\ pc[h] \notin Working
      /\ \A g \in Conns : g # h => pc'[g] = pc[g] /\ job'[g] = job[g]
  BY <1>1 DEF TypeOK, Working, c
<1>3. t.port \in Ports /\ t.id \in Nat /\ listener[t.port] = <<c, t.id>>
  BY <1>1, HolderIsPair DEF PortInv, TunnelHoldsPort
<1>4. TunnelHoldsPort' /\ IdsUnique'
  BY <1>2 DEF PortInv, TunnelHoldsPort, IdsUnique
<1>5. JobOK'
  <2>1. \A u \in tunnels'[c] : u.id # t.id
    BY <1>1, <1>2 DEF PortInv, IdsUnique
  <2>2. ASSUME NEW g \in Conns, g # h, pc[g] \in Working
        PROVE  \A u \in tunnels'[client[g]] : u.id # job[g].id
    BY <1>2, <2>2, HolderIsPair DEF PortInv, JobOK
  <2>3. /\ job'[h].port \in Ports
        /\ listener'[job'[h].port] = <<client'[h], job'[h].id>>
        /\ \A u \in tunnels'[client'[h]] : u.id # job'[h].id
    BY <1>2, <1>3, <2>1
  <2>4. ASSUME NEW g \in Conns, g # h
        PROVE  /\ pc'[g] \in {"check", "lookup", "listen"} \cup Working => job'[g].port \in Ports
               /\ pc'[g] \in Working =>
                     /\ listener'[job'[g].port] = <<client'[g], job'[g].id>>
                     /\ \A u \in tunnels'[client'[g]] : u.id # job'[g].id
    BY <1>2, <2>2, <2>4 DEF PortInv, JobOK
  <2> QED
    BY <2>3, <2>4 DEF JobOK
<1>6. JobsApart'
  <2>1. ASSUME NEW g \in Conns, g # h, pc[g] \in Working, job[g].port = t.port
        PROVE  FALSE
    <3>1. listener[t.port] = <<client[g], job[g].id>>
      BY <2>1 DEF PortInv, JobOK
    <3>2. client[g] = c /\ job[g].id = t.id
      BY <1>3, <3>1
    <3> QED
      BY <1>1, <2>1, <3>2 DEF PortInv, JobOK
  <2> QED
    BY <1>2, <2>1 DEF PortInv, JobsApart
<1>7. ListenerOwned'
  <2>1. ASSUME NEW p \in Ports, listener[p] # Free
        PROVE  \/ \E u \in tunnels'[listener[p][1]] : u.port = p
               \/ \E g \in Conns : pc'[g] \in Working /\ job'[g].port = p
    <3>1. CASE p = t.port
      BY <1>2, <3>1
    <3>2. CASE p # t.port /\ \E u \in tunnels[listener[p][1]] : u.port = p
      BY <1>2, <2>1, <3>2, HolderIsPair DEF PortInv
    <3>3. CASE \E g \in Conns : pc[g] \in Working /\ job[g].port = p
      BY <1>2, <3>3
    <3> QED
      BY <2>1, <3>1, <3>2, <3>3 DEF PortInv, ListenerOwned
  <2> QED
    BY <2>1 DEF ListenerOwned
<1>8. ListenerFresh'
  BY DEF PortInv, ListenerFresh
<1> QED
  BY <1>4, <1>5, <1>6, <1>7, <1>8 DEF PortInv

\* Closing a listener frees the port of no tunnel and of no other handler.
LEMMA CloseStep ==
    ASSUME TypeOK, SlotOK, PortInv, NEW h \in Conns, CloseListener(h)
    PROVE  PortInv'
<1> DEFINE c == client[h]
           p == job[h].port
<1>1. /\ pc[h] \in Working /\ c \in Clients /\ p \in Ports
      /\ listener[p] = <<c, job[h].id>>
      /\ \A t \in tunnels[c] : t.id # job[h].id
  BY HolderIsPair DEF PortInv, CloseListener, Working, JobOK
<1>2. /\ listener' = [listener EXCEPT ![p] = Free]
      /\ job' = [job EXCEPT ![h] = NoJob]
      /\ pc' = [pc EXCEPT ![h] = "remove"]
      /\ UNCHANGED <<client, tunnels, seq>>
  BY DEF CloseListener, Goto
<1>3. \A g \in Conns : g # h /\ pc[g] \in Working => job[g].port # p
  BY <1>1 DEF PortInv, JobsApart
<1> HIDE DEF c, p
<1>4. /\ listener'[p] = Free
      /\ \A q \in Ports : q # p => listener'[q] = listener[q]
      /\ pc'[h] \notin {"check", "lookup", "listen"} \cup Working
      /\ \A g \in Conns : g # h => pc'[g] = pc[g] /\ job'[g] = job[g]
  BY <1>1, <1>2 DEF TypeOK, Working
<1>5. ASSUME NEW d \in Clients, NEW t \in tunnels[d]
      PROVE  t.port # p
  <2>1. listener[t.port] = <<d, t.id>>
    BY DEF PortInv, TunnelHoldsPort
  <2> QED
    BY <1>1, <2>1
<1>6. TunnelHoldsPort' /\ IdsUnique'
  BY <1>2, <1>4, <1>5, HolderIsPair DEF PortInv, TunnelHoldsPort, IdsUnique
<1>7. JobOK'
  BY <1>2, <1>3, <1>4, HolderIsPair DEF PortInv, JobOK
<1>8. JobsApart'
  BY <1>4 DEF PortInv, JobsApart
<1>9. ListenerOwned'
  <2>1. ASSUME NEW q \in Ports, q # p, listener[q] # Free
        PROVE  \/ \E t \in tunnels[listener[q][1]] : t.port = q
               \/ \E g \in Conns : pc'[g] \in Working /\ job'[g].port = q
    BY <1>4, <2>1 DEF PortInv, ListenerOwned, p
  <2> QED
    BY <1>2, <1>4, <2>1 DEF ListenerOwned
<1>10. ListenerFresh'
  BY <1>2, <1>4 DEF PortInv, ListenerFresh
<1> QED
  BY <1>6, <1>7, <1>8, <1>9, <1>10 DEF PortInv

\* Every other step leaves bound ports aside.
LEMMA PortsStep ==
    TypeOK /\ TypeOK' /\ SlotOK /\ PortInv /\ [Next]_vars => PortInv'
<1> SUFFICES ASSUME TypeOK, TypeOK', SlotOK, PortInv, [Next]_vars
             PROVE  PortInv'
  OBVIOUS
<1> USE DEF Goto, Working
<1>0. \A c \in Clients : seq[c] \in Nat /\ seq[c] <= seq[c]
  BY DEF TypeOK
<1>1. ASSUME NEW h \in Conns, NEW c \in Clients, Accept(h, c)
      PROVE  Aside
  BY <1>0, <1>1 DEF Accept, Aside, TypeOK
<1>2. ASSUME NEW h \in Conns,
             \/ RejectHello(h) \/ RegisterSession(h) \/ GetOld(h) \/ EvictOld(h)
             \/ UnregisterOld(h) \/ Reregister(h) \/ ServerHello(h)
      PROVE  Aside
  BY <1>0, <1>2 DEF Aside, TypeOK, RejectHello, RegisterSession, GetOld, EvictOld,
                    UnregisterOld, Reregister, ServerHello
<1>3. ASSUME NEW h \in Conns,
             \/ ReadLoopEnds(h) \/ Shutdown(h) \/ DrainEnds(h) \/ CollectPorts(h)
           \/ ReserveEnds(h) \/ (\E p \in due[h] : Reserve(h, p))
             \/ UnregisterAll(h) \/ UnregisterSession(h) \/ Release(h)
             \/ \E id \in 1..seq[client[h]] : UnregisterTunnel(h, id)
      PROVE  Aside
  BY <1>0, <1>3 DEF Aside, TypeOK, ReadLoopEnds, Shutdown, DrainEnds,
                    CollectPorts, Reserve, ReserveEnds,
                    UnregisterAll, UnregisterSession, Release, UnregisterTunnel
<1>4. ASSUME NEW h \in Conns, RemoveEnds(h)
      PROVE  Aside
  <2>1. ret[h] \notin {"check", "lookup", "listen", "insert", "closeLn"}
    BY DEF TypeOK, Returns
  <2> QED
    BY <1>0, <1>4, <2>1 DEF Aside, TypeOK, RemoveEnds
<1>5. ASSUME NEW h \in Conns, NEW p \in Ports, RegisterTunnel(h, p)
      PROVE  Aside
  BY <1>0, <1>5 DEF Aside, TypeOK, RegisterTunnel
<1>6. ASSUME NEW h \in Conns, CheckRegister(h) \/ LookUpPort(h)
      PROVE  Aside
  <2>1. job[h].port \in Ports
    BY <1>6 DEF PortInv, JobOK, CheckRegister, LookUpPort
  <2> QED
    BY <1>0, <1>6, <2>1 DEF Aside, TypeOK, CheckRegister, LookUpPort
<1>7. ASSUME NEW h \in Conns, Listen(h), listener[job[h].port] # Free
      PROVE  Aside
  <2>1. \A c \in Clients : seq[c] <= seq'[c]
    BY <1>0, <1>7 DEF Listen, TypeOK
  <2> QED
    BY <1>7, <2>1 DEF Aside, TypeOK, Listen
<1>8. ASSUME NEW h \in Conns, NEW id \in todo[h], Remove(h, id)
      PROVE  PortInv'
  <2>1. CASE UNCHANGED <<pc, tunnels, job>>
    <3>1. Aside
      BY <1>0, <1>8, <2>1 DEF Aside, Remove
    <3> QED
      BY <3>1, AsideStep
  <2>2. CASE \E t \in tunnels[client[h]] :
               /\ t.id = id
               /\ tunnels' = [tunnels EXCEPT ![client[h]] = @ \ {t}]
               /\ job' = [job EXCEPT ![h] = [port |-> t.port, id |-> id]]
               /\ Goto(h, "closeLn")
    BY <1>8, <2>2, RemoveStep DEF Remove
  <2> QED
    BY <1>8, <2>1, <2>2 DEF Remove
<1>9. ASSUME UNCHANGED <<pc, client, job, tunnels, listener, seq>>
      PROVE  Aside
  BY <1>0, <1>9 DEF Aside
<1> QED
  BY <1>1, <1>2, <1>3, <1>4, <1>5, <1>6, <1>7, <1>8, <1>9,
     AsideStep, ListenStep, InsertStep, CloseStep
  DEF Next, vars, HandlerStep, MessageStep, ConnLost, ReservationExpires

-----------------------------------------------------------------------------
\* A handler that is not attending any tunnel, or stays where it attends all
\* of its own, disturbs no tunnel.
Attending(h) == pc[h] \in Holding \ ({"leave"} \cup Removing)

Keeps(h) ==
    /\ \A c \in Clients : tunnels'[c] \subseteq tunnels[c]
    /\ \A g \in Conns : g # h => /\ pc'[g] = pc[g] /\ client'[g] = client[g]
                                 /\ ret'[g] = ret[g] /\ todo'[g] = todo[g]
    /\ \/ pc[h] \notin Holding \ {"leave"}
       \/ client'[h] = client[h] /\ Attending(h)'

LEMMA KeepsStep ==
    ASSUME TypeOK, NoOrphanTunnel, NEW h \in Conns, Keeps(h)
    PROVE  NoOrphanTunnel'
<1>1. SUFFICES ASSUME NEW c \in Clients, NEW t \in tunnels'[c]
               PROVE  Attended(c, t)'
  BY DEF NoOrphanTunnel
<1>2. t \in tunnels[c] /\ t.by \in Conns /\ Attended(c, t)
  BY <1>1 DEF Keeps, TypeOK, Tunnel, NoOrphanTunnel
<1>3. CASE t.by # h
  BY <1>2, <1>3 DEF Keeps, Attended
<1>4. CASE t.by = h
  BY <1>2, <1>4 DEF Keeps, Attended, Attending
<1> QED
  BY <1>3, <1>4

\* The handler of every tunnel still has to unregister it.
LEMMA OrphanStep ==
    TypeOK /\ SlotOK /\ IdsUnique /\ NoOrphanTunnel /\ [Next]_vars => NoOrphanTunnel'
<1> SUFFICES ASSUME TypeOK, SlotOK, IdsUnique, NoOrphanTunnel, [Next]_vars
             PROVE  NoOrphanTunnel'
  OBVIOUS
<1> USE DEF Goto
<1>0. \A c \in Clients : tunnels[c] \subseteq tunnels[c]
  OBVIOUS
<1>1. ASSUME NEW h \in Conns, NEW c \in Clients, Accept(h, c)
      PROVE  Keeps(h)
  BY <1>0, <1>1 DEF Accept, Keeps, TypeOK, Holding, Removing
<1>2. ASSUME NEW h \in Conns,
             \/ RejectHello(h) \/ RegisterSession(h) \/ GetOld(h) \/ EvictOld(h)
             \/ UnregisterOld(h) \/ Reregister(h) \/ UnregisterSession(h) \/ Release(h)
      PROVE  Keeps(h)
  <2>1. pc[h] \notin Holding \ {"leave"}
    BY <1>2 DEF Holding, Removing, RejectHello, RegisterSession, GetOld, EvictOld,
                UnregisterOld, Reregister, UnregisterSession, Release
  <2> QED
    BY <1>0, <1>2, <2>1
    DEF Keeps, TypeOK, RejectHello, RegisterSession, GetOld, EvictOld,
        UnregisterOld, Reregister, UnregisterSession, Release
<1>3. ASSUME NEW h \in Conns,
             \/ ServerHello(h) \/ ReadLoopEnds(h) \/ DrainEnds(h) \/ CollectPorts(h)
           \/ ReserveEnds(h) \/ (\E p \in due[h] : Reserve(h, p))
             \/ CheckRegister(h) \/ LookUpPort(h) \/ Listen(h) \/ \E p \in Ports : RegisterTunnel(h, p)
      PROVE  Keeps(h)
  <2>1. Attending(h)'
    BY <1>3 DEF Attending, Holding, Removing, TypeOK, ServerHello, ReadLoopEnds,
                DrainEnds, CollectPorts, Reserve, ReserveEnds, CheckRegister,
                LookUpPort, Listen, RegisterTunnel
  <2> QED
    BY <1>0, <1>3, <2>1
    DEF Keeps, TypeOK, ServerHello, ReadLoopEnds, DrainEnds, CollectPorts,
        Reserve, ReserveEnds, CheckRegister, LookUpPort, Listen, RegisterTunnel
<1>4. ASSUME NEW h \in Conns, Insert(h)
      PROVE  NoOrphanTunnel'
  <2>1. client[h] \in Clients /\ Attending(h)'
    BY <1>4 DEF Insert, TypeOK, SlotOK, Attending, Holding, Removing
  <2>2. ASSUME NEW c \in Clients, NEW t \in tunnels'[c], t.by # h
        PROVE  t \in tunnels[c] /\ t.by \in Conns
    BY <1>4, <2>1, <2>2 DEF Insert, TypeOK, Tunnel
  <2>3. ASSUME NEW c \in Clients, NEW t \in tunnels'[c], t.by = h
        PROVE  client[h] = c
    BY <1>4, <2>1, <2>3 DEF Insert, TypeOK, NoOrphanTunnel, Attended
  <2>4. ASSUME NEW c \in Clients, NEW t \in tunnels'[c]
        PROVE  Attended(c, t)'
    <3>1. CASE t.by # h
      <4>1. Attended(c, t) /\ t.by \in Conns
        BY <2>2, <2>4, <3>1 DEF NoOrphanTunnel
      <4> QED
        BY <1>4, <3>1, <4>1 DEF Insert, TypeOK, Attended
    <3>2. CASE t.by = h
      BY <1>4, <2>1, <2>3, <2>4, <3>2 DEF Insert, Attended, Attending
    <3> QED
      BY <3>1, <3>2
  <2> QED
    BY <2>4 DEF NoOrphanTunnel
<1>5. ASSUME NEW h \in Conns,
             \/ Shutdown(h) \/ \E id \in 1..seq[client[h]] : UnregisterTunnel(h, id)
      PROVE  NoOrphanTunnel'
  <2>1. pc'[h] \in Removing /\ ret'[h] # "leave" /\ Removing \subseteq Holding \ {"leave"}
    BY <1>5 DEF Shutdown, UnregisterTunnel, TypeOK, Removing, Holding
  <2> QED
    BY <1>5, <2>1 DEF Shutdown, UnregisterTunnel, TypeOK, Tunnel, NoOrphanTunnel, Attended
<1>6. ASSUME NEW h \in Conns, UnregisterAll(h)
      PROVE  NoOrphanTunnel'
  <2>1. pc'[h] \in Removing /\ Removing \subseteq Holding \ {"leave"}
    BY <1>6 DEF UnregisterAll, TypeOK, Removing, Holding
  <2>2. \A t \in tunnels[client[h]] : t.id \in todo'[h]
    BY <1>6 DEF UnregisterAll, TypeOK, Ids
  <2> QED
    BY <1>6, <2>1, <2>2 DEF UnregisterAll, TypeOK, Tunnel, NoOrphanTunnel, Attended
<1>7. ASSUME NEW h \in Conns, NEW id \in todo[h], Remove(h, id)
      PROVE  NoOrphanTunnel'
  <2>0. /\ client[h] \in Clients
        /\ pc[h] \in Removing /\ pc'[h] \in Removing
        /\ Removing \subseteq Holding \ {"leave"}
        /\ UNCHANGED <<client, ret>>
    BY <1>7 DEF Remove, TypeOK, SlotOK, Removing, Holding
  <2>1. /\ \A c \in Clients : tunnels'[c] \subseteq tunnels[c]
        /\ \A t \in tunnels'[client[h]] : t.id # id
    <3>1. CASE id \notin Ids(client[h]) /\ UNCHANGED tunnels
      BY <3>1 DEF Ids
    <3>2. CASE \E t \in tunnels[client[h]] :
                 t.id = id /\ tunnels' = [tunnels EXCEPT ![client[h]] = @ \ {t}]
      BY <2>0, <3>2 DEF TypeOK, IdsUnique
    <3> QED
      BY <1>7, <3>1, <3>2 DEF Remove
  <2>2. /\ todo'[h] = todo[h] \ {id}
        /\ \A g \in Conns : g # h => pc'[g] = pc[g] /\ todo'[g] = todo[g]
    BY <1>7 DEF Remove, TypeOK
  <2>3. ASSUME NEW c \in Clients, NEW t \in tunnels'[c]
        PROVE  Attended(c, t)'
    <3>1. t \in tunnels[c] /\ t.by \in Conns /\ Attended(c, t)
      BY <2>1, <2>3 DEF TypeOK, Tunnel, NoOrphanTunnel
    <3>2. CASE t.by # h
      BY <2>0, <2>2, <3>1, <3>2 DEF Attended
    <3>3. CASE t.by = h
      BY <2>0, <2>1, <2>2, <2>3, <3>1, <3>3 DEF Attended
    <3> QED
      BY <3>2, <3>3
  <2> QED
    BY <2>3 DEF NoOrphanTunnel
<1>8. ASSUME NEW h \in Conns, CloseListener(h)
      PROVE  NoOrphanTunnel'
  <2>1. pc[h] \in Removing /\ pc'[h] \in Removing /\ Removing \subseteq Holding \ {"leave"}
    BY <1>8 DEF CloseListener, TypeOK, Removing, Holding
  <2> QED
    BY <1>8, <2>1 DEF CloseListener, TypeOK, Tunnel, NoOrphanTunnel, Attended
<1>9. ASSUME NEW h \in Conns, RemoveEnds(h)
      PROVE  NoOrphanTunnel'
  <2>1. CASE ret[h] = "leave"
    <3>1. \A c \in Clients : \A t \in tunnels[c] : t.by # h
      BY <1>9, <2>1 DEF RemoveEnds, NoOrphanTunnel, Attended, Removing
    <3> QED
      BY <1>9, <3>1 DEF RemoveEnds, TypeOK, Tunnel, NoOrphanTunnel, Attended
  <2>2. CASE ret[h] # "leave"
    <3>1. Attending(h)'
      BY <1>9, <2>2 DEF RemoveEnds, TypeOK, Returns, Attending, Holding, Removing
    <3>2. Keeps(h)
      BY <1>0, <1>9, <3>1 DEF RemoveEnds, TypeOK, Keeps
    <3> QED
      BY <3>2, KeepsStep
  <2> QED
    BY <2>1, <2>2
<1>10. ASSUME UNCHANGED <<pc, client, ret, todo, tunnels>>
       PROVE  NoOrphanTunnel'
  BY <1>10 DEF NoOrphanTunnel, Attended
<1> QED
  BY <1>1, <1>2, <1>3, <1>4, <1>5, <1>6, <1>7, <1>8, <1>9, <1>10, KeepsStep
  DEF Next, vars, HandlerStep, MessageStep, ConnLost, ReservationExpires

-----------------------------------------------------------------------------
\* IInv and HalfOpenExact hold initially ...
LEMMA Starts == Init => IInv /\ HalfOpenExact
<1> SUFFICES ASSUME Init PROVE IInv /\ HalfOpenExact
  OBVIOUS
<1>1. TypeOK
  <2>1. NoJob \in Job /\ "serving" \in Returns /\ Free \in Holder /\ "idle" \in PC
    BY Labels DEF NoJob, Job, Returns, Holder
  <2> QED
    BY <2>1 DEF Init, TypeOK
<1>2. SlotOK /\ RegisteredIsLive /\ NoOrphanTunnel /\ TunnelHoldsPort
  BY DEF Init, SlotOK, RegisteredIsLive, NoOrphanTunnel, TunnelHoldsPort
<1>3. JobOK /\ JobsApart /\ ListenerOwned /\ ListenerFresh /\ IdsUnique
  BY DEF Init, JobOK, JobsApart, ListenerOwned, ListenerFresh, IdsUnique, Working
<1>4. HalfOpenExact
  <2>1. Running = {}
    BY DEF Init, Running
  <2> QED
    BY <2>1, FS_EmptySet DEF Init, HalfOpenExact, Running
<1> QED
  BY <1>1, <1>2, <1>3, <1>4 DEF IInv

\* ... and every step preserves them.
LEMMA Inductive ==
    IInv /\ HalfOpenExact /\ [Next]_vars => IInv' /\ HalfOpenExact'
<1> SUFFICES ASSUME IInv, HalfOpenExact, [Next]_vars
             PROVE  IInv' /\ HalfOpenExact'
  OBVIOUS
<1>1. TypeOK' /\ SlotOK'
  BY TypeStep DEF IInv
<1>2. HalfOpenExact'
  BY HalfOpenStep DEF IInv
<1>3. RegisteredIsLive'
  BY RegisteredStep DEF IInv
<1>4. PortInv /\ PortInv'
  BY <1>1, PortsStep DEF IInv, PortInv
<1>5. NoOrphanTunnel'
  BY OrphanStep DEF IInv
<1> QED
  BY <1>1, <1>2, <1>3, <1>4, <1>5 DEF IInv, PortInv

\* Nothing of a client outlives its handlers.
LEMMA IInvReclaimed == IInv => Reclaimed
<1> SUFFICES ASSUME IInv, NEW c \in Clients, \A h \in Conns : client[h] # c
             PROVE  /\ registry[c] = NoConn
                    /\ tunnels[c] = {}
                    /\ \A p \in Ports : listener[p] # Free => listener[p][1] # c
  BY DEF Reclaimed
<1>1. registry[c] = NoConn
  BY DEF IInv, TypeOK, RegisteredIsLive
<1>2. tunnels[c] = {}
  BY DEF IInv, TypeOK, Tunnel, NoOrphanTunnel, Attended
<1>3. ASSUME NEW p \in Ports, listener[p] # Free, listener[p][1] = c
      PROVE  FALSE
  <2>1. PICK h \in Conns : pc[h] \in Working /\ job[h].port = p
    BY <1>2, <1>3 DEF IInv, ListenerOwned
  <2>2. listener[p] = <<client[h], job[h].id>>
    BY <2>1 DEF IInv, JobOK
  <2> QED
    BY <1>3, <2>1, <2>2
<1> QED
  BY <1>1, <1>2, <1>3

\* The inductive invariant holds in every reachable state, for any set of
\* clients, connection slots, ports and any limits.
THEOREM SessionInvariant == Spec => [](IInv /\ HalfOpenExact)
BY Starts, Inductive, PTL DEF Spec

\* Type correctness of the control plane.
THEOREM SessionTypes == Spec => []TypeOK
<1>1. IInv => TypeOK
  BY DEF IInv
<1> QED
  BY <1>1, SessionInvariant, PTL

\* A registered session always has a live handler behind it, whatever kicks,
\* re-registrations and deferred Sessions.Unregister calls overlap.
THEOREM SessionRegistered == Spec => []RegisteredIsLive
<1>1. IInv => RegisteredIsLive
  BY DEF IInv
<1> QED
  BY <1>1, SessionInvariant, PTL

\* The deferred UnregisterAll of some live handler covers every tunnel.
THEOREM SessionNoOrphan == Spec => []NoOrphanTunnel
<1>1. IInv => NoOrphanTunnel
  BY DEF IInv
<1> QED
  BY <1>1, SessionInvariant, PTL

\* When the last handler of a client is gone, the registry, the manager and
\* the bound ports hold nothing of it.
THEOREM SessionReclaimed == Spec => []Reclaimed
BY IInvReclaimed, SessionInvariant, PTL

\* Every registered tunnel holds the listener of its port.
THEOREM SessionPorts == Spec => []TunnelHoldsPort
<1>1. IInv => TunnelHoldsPort
  BY DEF IInv
<1> QED
  BY <1>1, SessionInvariant, PTL

\* The per-IP counter never drifts from the number of running handlers.
THEOREM SessionHalfOpen == Spec => []HalfOpenExact
BY SessionInvariant, PTL
==============================================================================
