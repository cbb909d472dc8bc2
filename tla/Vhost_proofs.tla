---------------------------- MODULE Vhost_proofs ----------------------------
(***************************************************************************)
(* Host routing, for any clients, any finite or infinite set of host names *)
(* and any number of requests in flight: the look-up finds the most        *)
(* specific rule in whatever order the table is gone through, the listener *)
(* is open exactly while it is counted, and no request reaches a tunnel of *)
(* another host.                                                           *)
(***************************************************************************)
EXTENDS Vhost, SequenceTheorems, FiniteSetTheorems, WellFoundedInduction, TLAPS

-----------------------------------------------------------------------------
\* Induction over the natural numbers, for sets of them.

Less == {p \in Nat \X Nat : p[1] < p[2]}

LEMMA Least ==
    ASSUME NEW S \in SUBSET Nat, S # {}
    PROVE  \E m \in S : \A k \in S : m <= k
<1>1. IsWellFoundedOn(Less, Nat)
  <2>1. OpToRel(<, Nat) = Less
    BY DEF OpToRel, Less
  <2> QED
    BY <2>1, NatLessThanWellFounded
<1>2. \A k, m \in Nat : <<k, m>> \in Less <=> k < m
  BY DEF Less
<1>3. PICK m \in S : \A k \in S : <<k, m>> \notin Less
  BY <1>1, WFMin
<1>4. \A k \in S : ~(k < m) /\ k \in Nat /\ m \in Nat
  BY <1>2, <1>3
<1>5. \A k \in S : m <= k
  BY <1>4
<1> QED
  BY <1>5

LEMMA SetInduction ==
    ASSUME NEW S \in SUBSET Nat, 0 \in S, \A n \in S : n + 1 \in S
    PROVE  S = Nat
<1> SUFFICES ASSUME Nat \ S # {} PROVE FALSE
  OBVIOUS
<1>1. PICK m \in Nat \ S : \A k \in Nat \ S : m <= k
  BY Least
<1>2. m # 0 /\ m - 1 \in Nat
  BY <1>1
<1>3. m - 1 \in S
  BY <1>1, <1>2
<1> QED
  BY <1>2, <1>3

-----------------------------------------------------------------------------
\* The look-up.

Better(o, host, g, i) ==
    g[i] = IF i = 0 THEN NoHost
           ELSE IF Len(o[i]) > Len(g[i - 1]) /\ Covers(o[i], host) THEN o[i] ELSE g[i - 1]

\* The loop over the table is a function of how far it has come.
LEMMA LoopIsDefined ==
    ASSUME NEW o, NEW host, NEW len \in Nat
    PROVE  \E g : g = [i \in 0..len |-> g[i]] /\ \A i \in 0..len : Better(o, host, g, i)
<1> DEFINE Dom == {n \in Nat : \E g : g = [i \in 0..n |-> g[i]]
                                      /\ \A i \in 0..n : Better(o, host, g, i)}
<1>1. 0 \in Dom
  <2> DEFINE g == [i \in 0..0 |-> NoHost]
  <2>1. g = [i \in 0..0 |-> g[i]] /\ \A i \in 0..0 : Better(o, host, g, i)
    BY DEF Better
  <2> QED
    BY <2>1
<1>2. ASSUME NEW n \in Dom PROVE n + 1 \in Dom
  <2>1. PICK g : g = [i \in 0..n |-> g[i]] /\ \A i \in 0..n : Better(o, host, g, i)
    BY <1>2
  <2> DEFINE x == IF Len(o[n + 1]) > Len(g[n]) /\ Covers(o[n + 1], host) THEN o[n + 1] ELSE g[n]
             h == [i \in 0..(n + 1) |-> IF i = n + 1 THEN x ELSE g[i]]
  <2>2. n \in Nat
    BY <1>2
  <2>3. ASSUME NEW i \in 0..(n + 1) PROVE Better(o, host, h, i)
    <3>1. CASE i = n + 1
      <4>1. h[i] = x /\ h[i - 1] = g[n] /\ i # 0
        BY <2>2, <3>1
      <4> QED
        BY <3>1, <4>1 DEF Better
    <3>2. CASE i # n + 1
      <4>1. i \in 0..n /\ h[i] = g[i] /\ (i # 0 => h[i - 1] = g[i - 1])
        BY <2>2, <3>2
      <4>2. Better(o, host, g, i)
        BY <2>1, <4>1
      <4> HIDE DEF h
      <4> QED
        BY <4>1, <4>2 DEF Better
    <3> QED
      BY <3>1, <3>2
  <2>4. h = [i \in 0..(n + 1) |-> h[i]]
    OBVIOUS
  <2> HIDE DEF h
  <2> QED
    BY <2>2, <2>3, <2>4
<1>3. Dom = Nat
  <2> HIDE DEF Dom
  <2>1. Dom \in SUBSET Nat
    BY DEF Dom
  <2> QED
    BY <1>1, <1>2, <2>1, SetInduction
<1> QED
  BY <1>3

LEMMA LookupIsLoop ==
    ASSUME NEW o, NEW host, Len(o) \in Nat
    PROVE  \E g : /\ \A i \in 0..Len(o) : Better(o, host, g, i)
                  /\ Lookup(o, host) = IF host \in Rules THEN host ELSE g[Len(o)]
<1> DEFINE step(h) == [i \in 0..Len(o) |->
              IF i = 0 THEN NoHost
              ELSE IF Len(o[i]) > Len(h[i - 1]) /\ Covers(o[i], host) THEN o[i] ELSE h[i - 1]]
           B == CHOOSE h : h = step(h)
<1>1. PICK g : g = [i \in 0..Len(o) |-> g[i]] /\ \A i \in 0..Len(o) : Better(o, host, g, i)
  BY LoopIsDefined
<1>2. g = step(g)
  BY <1>1 DEF Better
<1>3. B = step(B)
  BY <1>2, Zenon
<1>4. Lookup(o, host) = IF host \in Rules THEN host ELSE B[Len(o)]
  BY Zenon DEF Lookup
<1> HIDE DEF B
<1>5. \A i \in 0..Len(o) : Better(o, host, B, i)
  BY <1>3 DEF Better
<1> QED
  BY <1>4, <1>5

\* What the loop has found after i rules: nothing, or a rule that covers the
\* host, and none of them is longer.
Found(o, host, b, i) ==
    /\ b # NoHost => \E j \in 1..i : b = o[j] /\ Covers(o[j], host)
    /\ \A j \in 1..i : Covers(o[j], host) => Len(o[j]) <= Len(b)

LEMMA HostLen == Len(NoHost) = 0 /\ \A h \in Hosts : Len(h) \in Nat /\ Len(h) > 0
  BY VhostAssumption, LenProperties DEF NoHost

LEMMA LoopFinds ==
    ASSUME NEW n \in Nat, NEW o \in [1..n -> Hosts], NEW host, NEW g,
           \A i \in 0..n : Better(o, host, g, i)
    PROVE  Found(o, host, g[n], n)
<1> DEFINE Good == {i \in Nat : i <= n => Found(o, host, g[i], i) /\ g[i] \in Hosts \cup {NoHost}}
<1>1. 0 \in Good
  <2>1. g[0] = NoHost
    BY DEF Better
  <2> QED
    BY <2>1 DEF Found
<1>2. ASSUME NEW i \in Good PROVE i + 1 \in Good
  <2>1. CASE i + 1 <= n
    <3> DEFINE b == g[i]
               x == o[i + 1]
    <3>1. i \in Nat /\ Found(o, host, b, i) /\ b \in Hosts \cup {NoHost}
      BY <2>1
    <3>2. g[i + 1] = IF Len(x) > Len(b) /\ Covers(x, host) THEN x ELSE b
      <4>1. i + 1 \in 0..n /\ i + 1 # 0 /\ (i + 1) - 1 = i
        BY <2>1, <3>1
      <4>2. Better(o, host, g, i + 1)
        BY <4>1
      <4> QED
        BY <4>1, <4>2 DEF Better
    <3>3. x \in Hosts /\ Len(x) \in Nat /\ Len(b) \in Nat
      BY <2>1, <3>1, HostLen
    <3>4. \A j \in 1..(i + 1) : j \in 1..i \/ j = i + 1
      BY <3>1
    <3>5. \A j \in 1..i : j \in 1..(i + 1) /\ o[j] \in Hosts /\ Len(o[j]) \in Nat
      BY <2>1, <3>1, HostLen
    <3>6. i + 1 \in 1..(i + 1)
      BY <3>1
    <3>7. Found(o, host, g[i + 1], i + 1)
      <4>1. CASE Len(x) > Len(b) /\ Covers(x, host)
        <5>1. g[i + 1] = x
          BY <3>2, <4>1
        <5>2. \A j \in 1..(i + 1) : Covers(o[j], host) => Len(o[j]) <= Len(x)
          <6>1. \A j \in 1..i : Covers(o[j], host) => Len(o[j]) <= Len(b)
            BY <3>1 DEF Found
          <6>2. \A j \in 1..i : Covers(o[j], host) => Len(o[j]) <= Len(x)
            BY <3>3, <3>5, <4>1, <6>1
          <6> QED
            BY <3>3, <3>4, <6>2
        <5> QED
          BY <3>6, <4>1, <5>1, <5>2 DEF Found
      <4>2. CASE ~(Len(x) > Len(b) /\ Covers(x, host))
        <5>1. g[i + 1] = b
          BY <3>2, <4>2
        <5>2. \A j \in 1..(i + 1) : Covers(o[j], host) => Len(o[j]) <= Len(b)
          <6>1. \A j \in 1..i : Covers(o[j], host) => Len(o[j]) <= Len(b)
            BY <3>1 DEF Found
          <6>2. Covers(o[i + 1], host) => Len(o[i + 1]) <= Len(b)
            BY <3>3, <4>2
          <6> QED
            BY <3>4, <6>1, <6>2
        <5>3. b # NoHost => \E j \in 1..(i + 1) : b = o[j] /\ Covers(o[j], host)
          BY <3>1, <3>5 DEF Found
        <5> QED
          BY <5>1, <5>2, <5>3 DEF Found
      <4> QED
        BY <4>1, <4>2
    <3>8. g[i + 1] \in Hosts \cup {NoHost}
      BY <3>1, <3>2, <3>3
    <3> QED
      BY <3>1, <3>7, <3>8
  <2>2. CASE ~(i + 1 <= n)
    BY <2>2
  <2> QED
    BY <2>1, <2>2
<1>3. Good = Nat
  <2> HIDE DEF Good
  <2>1. Good \in SUBSET Nat
    BY DEF Good
  <2> QED
    BY <1>1, <1>2, <2>1, SetInduction
<1> QED
  BY <1>3

\* Lookup: the host itself, or the longest rule that covers it, or none.
LEMMA LookupFinds ==
    ASSUME IsFiniteSet(Rules), NEW h \in Hosts, NEW o \in Orders
    PROVE  LET best == Lookup(o, h)
               fits == {q \in Rules : q = h \/ Covers(q, h)}
           IN  /\ best = NoHost <=> fits = {}
               /\ best # NoHost => best \in fits /\ \A q \in fits : Len(q) <= Len(best)
<1> DEFINE n == Cardinality(Rules)
           fits == {q \in Rules : q = h \/ Covers(q, h)}
<1>0. n \in Nat /\ Rules \subseteq Hosts
  BY FS_CardinalityType DEF Rules
<1>1. o \in [1..n -> Rules] /\ o \in [1..n -> Hosts] /\ \A q \in Rules : \E j \in 1..n : o[j] = q
  BY <1>0 DEF Orders
<1>2. Len(o) = n
  <2>1. o \in Seq(Rules)
    BY <1>0, <1>1
  <2> QED
    BY <1>0, <1>1, <2>1, LenProperties
<1>3. PICK g : /\ \A i \in 0..Len(o) : Better(o, h, g, i)
               /\ Lookup(o, h) = IF h \in Rules THEN h ELSE g[Len(o)]
  BY <1>0, <1>2, LookupIsLoop
<1>4. Found(o, h, g[n], n)
  <2>1. PICK m \in Nat : m = n
    BY <1>0
  <2>2. o \in [1..m -> Hosts] /\ \A i \in 0..m : Better(o, h, g, i)
    BY <1>1, <1>2, <1>3, <2>1
  <2>3. Found(o, h, g[m], m)
    BY <2>2, LoopFinds
  <2> QED
    BY <2>1, <2>3
<1>5. h # NoHost /\ NoHost \notin Rules
  BY <1>0, HostLen
<1>6. CASE h \in Rules
  <2>1. Lookup(o, h) = h /\ h \in fits
    BY <1>3, <1>6
  <2>2. \A q \in fits : Len(q) <= Len(h)
    BY <1>0, HostLen DEF Covers
  <2> QED
    BY <1>5, <2>1, <2>2
<1>7. CASE h \notin Rules
  <2> DEFINE b == g[n]
  <2>1. Lookup(o, h) = b /\ \A q \in fits : Covers(q, h)
    BY <1>2, <1>3, <1>7
  <2>2. \A q \in fits : Len(q) <= Len(b) /\ Len(q) > 0
    <3> SUFFICES ASSUME NEW q \in fits PROVE Len(q) <= Len(b) /\ Len(q) > 0
      OBVIOUS
    <3>1. PICK j \in 1..n : o[j] = q
      BY <1>1
    <3> QED
      BY <1>0, <1>4, <2>1, <3>1, HostLen DEF Found
  <2>3. b = NoHost => fits = {}
    <3> SUFFICES ASSUME b = NoHost, NEW q \in fits PROVE FALSE
      OBVIOUS
    <3>1. Len(q) <= 0 /\ Len(q) > 0 /\ Len(q) \in Nat
      BY <1>0, <2>2, HostLen
    <3> QED
      BY <3>1
  <2>4. b # NoHost => b \in fits
    BY <1>1, <1>4 DEF Found
  <2> QED
    BY <2>1, <2>2, <2>3, <2>4
<1> QED
  BY <1>6, <1>7

-----------------------------------------------------------------------------
\* Types, the listener and the ids.

LEMMA VhostInit == Init => VhostInv
<1> SUFFICES ASSUME Init PROVE VhostInv
  OBVIOUS
<1>1. TypeOK
  BY DEF Init, TypeOK, PC, Idle, NoReq
<1>2. ListenerIsCounted /\ IdsOK
  BY DEF Init, ListenerIsCounted, IdsOK
<1>3. Rules = {}
  BY DEF Init, Rules
<1>4. EntriesOK /\ NeverMisrouted
  BY <1>3, FS_EmptySet DEF Init, EntriesOK, NeverMisrouted, NoReq
<1> QED
  BY <1>1, <1>2, <1>4 DEF VhostInv

ReqType == [st : {"free", "found", "routed"}, host : Hosts \cup {NoHost},
            entry : Entry \cup {NoEntry}, got : VTunnel \cup {NoJob}]

LEMMA VhostTypes ==
    ASSUME TypeOK, EntriesOK, [Next]_vars
    PROVE  TypeOK'
<1> USE DEF vars, Goto
<1>1. CASE UNCHANGED vars
  BY <1>1 DEF TypeOK
<1>2. ASSUME NEW c \in Clients, Connect(c) \/ Shutdown(c) \/ Disconnect(c) PROVE TypeOK'
  <2>1. pc' \in [Clients -> PC]
    BY <1>2 DEF Connect, Shutdown, Disconnect, TypeOK, PC, Idle
  <2>2. UNCHANGED <<table, refs, ln, tunnels, seq, job, req>>
    BY <1>2 DEF Connect, Shutdown, Disconnect
  <2> QED
    BY <2>1, <2>2 DEF TypeOK
<1>3. ASSUME NEW c \in Clients, NEW h \in Hosts, AddVhostTunnel(c, h) PROVE TypeOK'
  <2>1. pc' \in [Clients -> PC] /\ seq' \in [Clients -> Nat]
    BY <1>3 DEF AddVhostTunnel, TypeOK, PC
  <2>2. [id |-> seq[c] + 1, host |-> h] \in VTunnel
    BY DEF TypeOK, VTunnel
  <2>3. tunnels' \in [Clients -> SUBSET VTunnel] /\ job' \in [Clients -> VTunnel \cup {NoJob}]
    BY <1>3, <2>2 DEF AddVhostTunnel, TypeOK
  <2>4. UNCHANGED <<table, refs, ln, req>>
    BY <1>3 DEF AddVhostTunnel
  <2> QED
    BY <2>1, <2>3, <2>4 DEF TypeOK
<1>4. ASSUME NEW ids PROVE Unbind(ids) \in [Hosts -> Entry \cup {NoEntry}]
  BY DEF Unbind, TypeOK
<1>5. ASSUME NEW c \in Clients, BindHost(c) PROVE TypeOK'
  <2>1. pc' \in [Clients -> PC] /\ UNCHANGED <<refs, ln, tunnels, seq, job, req>>
    BY <1>5 DEF BindHost, TypeOK, PC
  <2>2. job[c].id \in Nat
    BY DEF TypeOK, VTunnel, NoJob
  <2>3. [id |-> job[c].id, client |-> c] \in Entry
    BY <2>2 DEF Entry
  <2>4. table' \in [Hosts -> Entry \cup {NoEntry}]
    BY <1>5, <2>3 DEF BindHost, TypeOK
  <2> QED
    BY <2>1, <2>4 DEF TypeOK
<1>6. ASSUME NEW c \in Clients, StartVhost(c) PROVE TypeOK'
  <2>1. pc' \in [Clients -> PC] /\ UNCHANGED <<table, tunnels, seq, req>>
    BY <1>6 DEF StartVhost, TypeOK, PC, Idle
  <2>2. job' \in [Clients -> VTunnel \cup {NoJob}]
    BY <1>6 DEF StartVhost, TypeOK
  <2>3. refs' \in Nat
    BY <1>6 DEF StartVhost, TypeOK
  <2>4. ln' \in BOOLEAN
    BY <1>6, Zenon DEF StartVhost, TypeOK
  <2> QED
    BY <2>1, <2>2, <2>3, <2>4 DEF TypeOK
<1>7. ASSUME NEW c \in Clients, UndoBind(c) \/ CleanTable(c) PROVE TypeOK'
  <2>1. pc' \in [Clients -> PC] /\ UNCHANGED <<refs, ln, tunnels, seq, job, req>>
    BY <1>7 DEF UndoBind, CleanTable, TypeOK, PC
  <2>2. table' \in [Hosts -> Entry \cup {NoEntry}]
    BY <1>4, <1>7 DEF UndoBind, CleanTable
  <2> QED
    BY <2>1, <2>2 DEF TypeOK
<1>8. ASSUME NEW c \in Clients, NEW t \in tunnels[c], UnregisterTunnel(c, t) PROVE TypeOK'
  <2>1. pc' \in [Clients -> PC] /\ UNCHANGED <<refs, ln, tunnels, seq, req>>
    BY <1>8 DEF UnregisterTunnel, TypeOK, PC
  <2>2. table' \in [Hosts -> Entry \cup {NoEntry}]
    BY <1>4, <1>8 DEF UnregisterTunnel
  <2>3. job' \in [Clients -> VTunnel \cup {NoJob}]
    BY <1>8 DEF UnregisterTunnel, TypeOK
  <2> QED
    BY <2>1, <2>2, <2>3 DEF TypeOK
<1>9. ASSUME NEW c \in Clients, StopVhost(c) \/ CleanStop(c) PROVE TypeOK'
  <2>1. pc' \in [Clients -> PC] /\ UNCHANGED <<table, tunnels, seq, job, req>>
    BY <1>9 DEF StopVhost, CleanStop, TypeOK, PC
  <2>2. refs' \in Nat
    BY <1>9 DEF StopVhost, CleanStop, StopListener, TypeOK
  <2>3. ln' \in BOOLEAN
    BY <1>9, Zenon DEF StopVhost, CleanStop, StopListener, TypeOK
  <2> QED
    BY <2>1, <2>2, <2>3 DEF TypeOK
<1>10. ASSUME NEW c \in Clients, DropTunnel(c) \/ (\E t \in tunnels[c] : DropOne(c, t)) \/ DropEnds(c)
       PROVE  TypeOK'
  <2>1. pc' \in [Clients -> PC] /\ UNCHANGED <<table, refs, ln, seq, req>>
    BY <1>10 DEF DropTunnel, DropOne, DropEnds, TypeOK, PC, Idle
  <2>2. job' \in [Clients -> VTunnel \cup {NoJob}]
    BY <1>10 DEF DropTunnel, DropOne, DropEnds, TypeOK
  <2>3. tunnels' \in [Clients -> SUBSET VTunnel]
    BY <1>10 DEF DropTunnel, DropOne, DropEnds, TypeOK
  <2> QED
    BY <2>1, <2>2, <2>3 DEF TypeOK
<1>11. ASSUME NEW r \in Requests, NEW h \in Hosts, Request(r, h) PROVE TypeOK'
  <2>1. PICK o \in Orders :
          /\ Lookup(o, h) # NoHost
          /\ req' = [req EXCEPT ![r] = [st |-> "found", host |-> h,
                                        entry |-> table[Lookup(o, h)], got |-> NoJob]]
    BY <1>11 DEF Request
  <2>2. Lookup(o, h) \in Rules
    BY <2>1, LookupFinds DEF EntriesOK
  <2>3. table[Lookup(o, h)] \in Entry
    BY <2>2 DEF Rules, TypeOK
  <2>4. req' \in [Requests -> ReqType]
    BY <2>1, <2>3 DEF TypeOK, ReqType
  <2>5. UNCHANGED <<table, refs, ln, tunnels, seq, pc, job>>
    BY <1>11 DEF Request
  <2> QED
    BY <2>4, <2>5 DEF TypeOK, ReqType
<1>12. ASSUME NEW r \in Requests, Route(r) PROVE TypeOK'
  <2>1. UNCHANGED <<table, refs, ln, tunnels, seq, pc, job>> /\ req[r] \in ReqType
        /\ req \in [Requests -> ReqType]
    BY <1>12 DEF Route, TypeOK, ReqType
  <2>2. NoReq \in ReqType
    BY DEF NoReq, ReqType
  <2>3. CASE req' = [req EXCEPT ![r] = NoReq]
    BY <2>1, <2>2, <2>3 DEF TypeOK, ReqType
  <2>4. CASE \E t \in tunnels[req[r].entry.client] :
               req' = [req EXCEPT ![r] = [@ EXCEPT !.st = "routed", !.got = t]]
    <3>0. req[r].entry.client \in Clients
      BY <1>12 DEF Route, EntriesOK, Entry
    <3>1. PICK t \in VTunnel : req' = [req EXCEPT ![r] = [@ EXCEPT !.st = "routed", !.got = t]]
      BY <2>4, <3>0 DEF TypeOK
    <3>2. [req[r] EXCEPT !.st = "routed", !.got = t] \in ReqType
      BY <2>1 DEF ReqType
    <3>3. req' \in [Requests -> ReqType]
      BY <2>1, <3>1, <3>2
    <3> QED
      BY <2>1, <3>3 DEF TypeOK, ReqType
  <2> QED
    BY <1>12, <2>3, <2>4 DEF Route
<1>13. ASSUME NEW r \in Requests, HandOver(r) PROVE TypeOK'
  <2>1. NoReq \in ReqType
    BY DEF NoReq, ReqType
  <2> QED
    BY <1>13, <2>1 DEF HandOver, TypeOK, ReqType
<1> QED
  BY <1>1, <1>2, <1>3, <1>5, <1>6, <1>7, <1>8, <1>9, <1>10, <1>11, <1>12, <1>13
     DEF Next, HandlerStep

\* The reference count and the listener change together.
LEMMA VhostListener ==
    ASSUME TypeOK, ListenerIsCounted, [Next]_vars
    PROVE  ListenerIsCounted'
<1>1. refs \in Nat
  BY DEF TypeOK
<1>2. ASSUME StopListener PROVE ListenerIsCounted'
  <2>1. refs' > 0 <=> refs > 1
    BY <1>1, <1>2 DEF StopListener
  <2>2. refs > 1 => refs > 0
    BY <1>1
  <2> QED
    BY <1>2, <2>1, <2>2, Zenon DEF StopListener, ListenerIsCounted
<1>3. ASSUME NEW c \in Clients, StartVhost(c) PROVE ListenerIsCounted'
  <2>1. CASE refs' = refs + 1 /\ ln' = TRUE
    <3>1. refs' > 0
      BY <1>1, <2>1
    <3> QED
      BY <2>1, <3>1, Zenon DEF ListenerIsCounted
  <2>2. CASE UNCHANGED <<refs, ln>>
    BY <2>2, Zenon DEF ListenerIsCounted
  <2> QED
    BY <1>3, <2>1, <2>2, Zenon DEF StartVhost
<1>4. ASSUME NEW c \in Clients, StopVhost(c) \/ CleanStop(c) PROVE ListenerIsCounted'
  BY <1>2, <1>4, Zenon DEF StopVhost, CleanStop
<1>5. CASE UNCHANGED <<refs, ln>>
  BY <1>5, Zenon DEF ListenerIsCounted
<1>6. \/ UNCHANGED <<refs, ln>>
      \/ \E c \in Clients : StartVhost(c) \/ StopVhost(c) \/ CleanStop(c)
  BY Zenon DEF Next, vars, HandlerStep, Connect, Shutdown, Disconnect, AddVhostTunnel, BindHost,
     UndoBind, UnregisterTunnel, DropTunnel, DropOne, DropEnds, CleanTable, Request, Route, HandOver
<1> QED
  BY <1>3, <1>4, <1>5, <1>6, Zenon

\* What a step may do to a manager: the counter of its ids grows, and a new
\* tunnel has an id that was not yet handed out.
ManagersGrow ==
    \A c \in Clients :
        /\ seq'[c] >= seq[c]
        /\ \A t \in tunnels'[c] : t \in tunnels[c] \/ t.id > seq[c]

LEMMA VhostIds ==
    ASSUME TypeOK, IdsOK, [Next]_vars
    PROVE  IdsOK' /\ ManagersGrow
<1> USE DEF Goto
<1>0. seq \in [Clients -> Nat] /\ \A c \in Clients : seq[c] \in Nat /\ seq[c] >= seq[c]
  BY DEF TypeOK
<1>1. ASSUME NEW c \in Clients, NEW h \in Hosts, AddVhostTunnel(c, h) PROVE IdsOK' /\ ManagersGrow
  <2> DEFINE t == [id |-> seq[c] + 1, host |-> h]
  <2>1. /\ seq' = [seq EXCEPT ![c] = @ + 1]
        /\ tunnels' = [tunnels EXCEPT ![c] = @ \cup {t}]
        /\ job' = [job EXCEPT ![c] = t]
        /\ pc' = [pc EXCEPT ![c] = "table"]
    BY <1>1 DEF AddVhostTunnel
  <2>2. ASSUME NEW d \in Clients
        PROVE  /\ \A u \in tunnels'[d] : u.id <= seq'[d]
               /\ \A u, v \in tunnels'[d] : u.id = v.id => u = v
               /\ pc'[d] = "table" => job'[d] \in tunnels'[d]
               /\ seq'[d] >= seq[d]
               /\ \A u \in tunnels'[d] : u \in tunnels[d] \/ u.id > seq[d]
    <3>0. /\ \A u \in tunnels[d] : u.id <= seq[d] /\ u.id \in Nat
          /\ \A u, v \in tunnels[d] : u.id = v.id => u = v
          /\ pc[d] = "table" => job[d] \in tunnels[d]
      BY DEF IdsOK, TypeOK, VTunnel
    <3>1. CASE d = c
      <4>1. tunnels'[c] = tunnels[c] \cup {t} /\ seq'[c] = seq[c] + 1 /\ job'[c] = t
        BY <1>0, <2>1 DEF TypeOK
      <4>2. t.id = seq[c] + 1 /\ seq[c] \in Nat
        BY <1>0
      <4> HIDE DEF t
      <4> QED
        BY <3>0, <3>1, <4>1, <4>2
    <3>2. CASE d # c
      <4>1. tunnels'[d] = tunnels[d] /\ seq'[d] = seq[d] /\ job'[d] = job[d] /\ pc'[d] = pc[d]
        BY <2>1, <3>2 DEF TypeOK
      <4> QED
        BY <1>0, <3>0, <4>1
    <3> QED
      BY <3>1, <3>2
  <2> QED
    BY <2>2 DEF IdsOK, ManagersGrow
<1>2. ASSUME NEW c \in Clients,
             \/ BindHost(c) \/ StartVhost(c) \/ UndoBind(c) \/ StopVhost(c)
             \/ DropTunnel(c) \/ (\E t \in tunnels[c] : DropOne(c, t)) \/ DropEnds(c)
             \/ CleanTable(c) \/ CleanStop(c)
             \/ Connect(c) \/ Shutdown(c) \/ Disconnect(c)
             \/ \E t \in tunnels[c] : UnregisterTunnel(c, t)
      PROVE  IdsOK' /\ ManagersGrow
  <2>1. /\ UNCHANGED seq
        /\ \A d \in Clients : tunnels'[d] \subseteq tunnels[d]
    BY <1>2 DEF TypeOK, BindHost, StartVhost, UndoBind, StopVhost, DropTunnel, DropOne, DropEnds, CleanTable,
       CleanStop, Connect, Shutdown, Disconnect, UnregisterTunnel
  <2>2. \A d \in Clients : pc'[d] = "table" =>
           pc[d] = "table" /\ job'[d] = job[d] /\ tunnels'[d] = tunnels[d]
    <3>1. pc'[c] # "table" /\ \A d \in Clients \ {c} :
             pc'[d] = pc[d] /\ job'[d] = job[d] /\ tunnels'[d] = tunnels[d]
      BY <1>2 DEF TypeOK, BindHost, StartVhost, UndoBind, StopVhost, DropTunnel, DropOne, DropEnds,
         CleanTable, CleanStop, Connect, Shutdown, Disconnect, UnregisterTunnel
    <3> QED
      BY <3>1
  <2> QED
    BY <1>0, <2>1, <2>2 DEF IdsOK, ManagersGrow
<1>3. CASE UNCHANGED <<tunnels, seq, pc, job>>
  BY <1>0, <1>3 DEF IdsOK, ManagersGrow
<1>4. CASE (\E r \in Requests, h \in Hosts : Request(r, h)) \/ (\E r \in Requests : Route(r) \/ HandOver(r))
           \/ UNCHANGED vars
  BY <1>3, <1>4 DEF Request, Route, HandOver, vars
<1> QED
  BY <1>1, <1>2, <1>4, Zenon DEF Next, HandlerStep

-----------------------------------------------------------------------------
\* Entries and the requests that hold them.

\* An entry goes on naming what it named, if anything.
LEMMA NamesKept ==
    ASSUME NEW e \in Entry, NEW fit, TypeOK, TypeOK', ManagersGrow, NamesOnly(e, fit)
    PROVE  NamesOnly(e, fit)'
<1>1. PICK c \in Clients : c = e.client
  BY DEF Entry
<1>2. e.id \in Nat /\ seq[c] \in Nat /\ seq'[c] \in Nat /\ \A t \in tunnels'[c] : t.id \in Nat
  BY DEF Entry, TypeOK, VTunnel
<1>3. e.id <= seq[c] /\ \A t \in tunnels[c] : t.id = e.id => t.host \in fit
  BY <1>1 DEF NamesOnly
<1>4. seq'[c] >= seq[c] /\ \A t \in tunnels'[c] : t \in tunnels[c] \/ t.id > seq[c]
  BY DEF ManagersGrow
<1>5. e.id <= seq'[c]
  BY <1>2, <1>3, <1>4
<1>6. \A t \in tunnels'[c] : t.id = e.id => t.host \in fit
  BY <1>2, <1>3, <1>4
<1> QED
  BY <1>1, <1>5, <1>6 DEF NamesOnly

LEMMA RuleIsEntry ==
    ASSUME TypeOK, NEW h \in Rules
    PROVE  h \in Hosts /\ table[h] \in Entry
BY DEF TypeOK, Rules

TableKept == EntriesOK /\ \A h \in Rules' : h \in Rules /\ table'[h] = table[h]

\* Entries are only removed: the table stays good.
LEMMA TableStays ==
    ASSUME TypeOK, TypeOK', ManagersGrow, TableKept
    PROVE  IsFiniteSet(Rules') /\ \A h \in Rules' : NamesOnly(table[h], {h})'
<1>1. IsFiniteSet(Rules')
  <2>1. Rules' \subseteq Rules /\ IsFiniteSet(Rules)
    BY DEF EntriesOK, TableKept
  <2> QED
    BY <2>1, FS_Subset
<1>2. ASSUME NEW h \in Rules' PROVE NamesOnly(table[h], {h})'
  <2>1. PICK e \in Entry : e = table[h] /\ e = table'[h]
    BY RuleIsEntry DEF TableKept
  <2>2. NamesOnly(e, {h})
    BY <2>1 DEF EntriesOK, TableKept
  <2>3. NamesOnly(e, {h})'
    BY <2>2, NamesKept
  <2> QED
    BY <2>1, <2>3
<1> QED
  BY <1>1, <1>2

RequestsKept ==
    EntriesOK /\ \A r \in Requests : req'[r] = req[r] \/ req'[r].st # "found"

LEMMA RequestsStay ==
    ASSUME TypeOK, TypeOK', ManagersGrow, RequestsKept
    PROVE  \A r \in Requests : req'[r].st = "found" =>
              req'[r].entry \in Entry /\ NamesOnly(req[r].entry, FitFor(req[r].host))'
<1> SUFFICES ASSUME NEW r \in Requests, req'[r].st = "found"
             PROVE  req'[r].entry \in Entry /\ NamesOnly(req[r].entry, FitFor(req[r].host))'
  OBVIOUS
<1>1. req'[r] = req[r]
  BY DEF RequestsKept
<1>2. PICK e \in Entry : e = req[r].entry
  BY <1>1 DEF EntriesOK, RequestsKept
<1>3. PICK host : host = req[r].host
  OBVIOUS
<1>4. NamesOnly(e, FitFor(host))
  BY <1>1, <1>2, <1>3 DEF EntriesOK, RequestsKept
<1>5. NamesOnly(e, FitFor(host))'
  <2>1. PICK fit : fit = FitFor(host)
    OBVIOUS
  <2>2. FitFor(host)' = FitFor(host)
    BY DEF FitFor, Covers
  <2>3. NamesOnly(e, fit)'
    BY <1>4, <2>1, NamesKept
  <2> QED
    BY <2>1, <2>2, <2>3
<1> QED
  BY <1>1, <1>2, <1>3, <1>5

LEMMA VhostEntries ==
    ASSUME TypeOK, TypeOK', IdsOK, EntriesOK, ManagersGrow, [Next]_vars
    PROVE  EntriesOK'
<1> USE DEF Goto
<1>1. ASSUME NEW c \in Clients, BindHost(c) PROVE EntriesOK'
  <2>0. UNCHANGED <<tunnels, seq, req>>
    BY <1>1 DEF BindHost
  <2>1. RequestsKept
    BY <2>0 DEF RequestsKept
  <2>2. CASE UNCHANGED table
    <3>1. TableKept
      BY <2>2 DEF TableKept, Rules
    <3> QED
      BY <2>1, <3>1, TableStays, RequestsStay DEF EntriesOK
  <2>3. CASE table' = [table EXCEPT ![job[c].host] = [id |-> job[c].id, client |-> c]]
    <3>1. PICK j \in VTunnel : j = job[c] /\ j \in tunnels[c]
      BY <1>1 DEF BindHost, IdsOK, TypeOK
    <3>2. j.host \in Hosts /\ j.id \in Nat
      BY DEF VTunnel
    <3> DEFINE e == [id |-> j.id, client |-> c]
    <3>3. table'[j.host] = e /\ \A h \in Hosts \ {j.host} : table'[h] = table[h]
      BY <2>3, <3>1, <3>2 DEF TypeOK
    <3>4. IsFiniteSet(Rules')
      <4>1. Rules' \subseteq Rules \cup {j.host}
        BY <3>3 DEF Rules
      <4>2. IsFiniteSet(Rules \cup {j.host})
        BY FS_AddElement DEF EntriesOK
      <4> QED
        BY <4>1, <4>2, FS_Subset
    <3>5. ASSUME NEW h \in Rules' PROVE NamesOnly(table[h], {h})'
      <4>1. CASE h = j.host
        <5>1. e.id <= seq[c] /\ \A t \in tunnels[c] : t.id = e.id => t.host \in {h}
          BY <3>1, <4>1 DEF IdsOK
        <5>2. table'[h] = e /\ e.client = c
          BY <3>3, <4>1
        <5> HIDE DEF e
        <5> QED
          BY <2>0, <5>1, <5>2 DEF NamesOnly
      <4>2. CASE h # j.host
        <5>1. table'[h] = table[h] /\ h \in Rules
          BY <3>3, <4>2 DEF Rules
        <5>2. NamesOnly(table[h], {h})
          BY <5>1 DEF EntriesOK
        <5> QED
          BY <2>0, <5>1, <5>2 DEF NamesOnly
      <4> QED
        BY <4>1, <4>2
    <3> QED
      BY <2>1, <3>4, <3>5, RequestsStay DEF EntriesOK
  <2> QED
    BY <1>1, <2>2, <2>3 DEF BindHost
<1>2. ASSUME NEW r \in Requests, NEW h \in Hosts, Request(r, h) PROVE EntriesOK'
  <2>0. UNCHANGED <<table, tunnels, seq>>
    BY <1>2 DEF Request
  <2>1. PICK o \in Orders :
          /\ Lookup(o, h) # NoHost
          /\ req' = [req EXCEPT ![r] = [st |-> "found", host |-> h,
                                        entry |-> table[Lookup(o, h)], got |-> NoJob]]
    BY <1>2 DEF Request
  <2>2. PICK q \in Rules : q = Lookup(o, h) /\ (q = h \/ Covers(q, h))
    BY <2>1, LookupFinds DEF EntriesOK
  <2>3. q \in Hosts /\ table[q] \in Entry /\ q \in FitFor(h)
    BY <2>2, RuleIsEntry DEF FitFor
  <2>4. NamesOnly(table[q], FitFor(h))
    <3>1. NamesOnly(table[q], {q})
      BY DEF EntriesOK
    <3> QED
      BY <2>3, <3>1 DEF NamesOnly
  <2>5. ASSUME NEW p \in Requests, req'[p].st = "found"
        PROVE  req'[p].entry \in Entry /\ NamesOnly(req[p].entry, FitFor(req[p].host))'
    <3>1. CASE p = r
      <4>1. req'[p].entry = table[q] /\ req'[p].host = h
        BY <2>1, <2>2, <3>1 DEF TypeOK
      <4>2. FitFor(h)' = FitFor(h)
        BY DEF FitFor, Covers
      <4>3. NamesOnly(table[q], FitFor(h))'
        BY <2>0, <2>4, <4>2 DEF NamesOnly
      <4> QED
        BY <2>0, <2>3, <4>1, <4>3
    <3>2. CASE p # r
      <4>1. req'[p] = req[p]
        BY <2>1, <3>2 DEF TypeOK
      <4>2. req[p].entry \in Entry /\ NamesOnly(req[p].entry, FitFor(req[p].host))
        BY <2>5, <4>1 DEF EntriesOK
      <4> QED
        BY <2>0, <4>1, <4>2 DEF NamesOnly, FitFor, Covers
    <3> QED
      BY <3>1, <3>2
  <2>6. TableKept
    BY <2>0 DEF TableKept, Rules
  <2> QED
    BY <2>5, <2>6, TableStays DEF EntriesOK
<1>3. CASE RequestsKept /\ TableKept
  BY <1>3, TableStays, RequestsStay DEF EntriesOK
<1>4. ASSUME NEW ids, table' = Unbind(ids), UNCHANGED req PROVE EntriesOK'
  <2>1. \A h \in Hosts : table'[h] = table[h] \/ table'[h] = NoEntry
    BY <1>4 DEF Unbind
  <2>2. TableKept
    BY <2>1 DEF TableKept, Rules
  <2>3. RequestsKept
    BY <1>4 DEF RequestsKept
  <2> QED
    BY <1>3, <2>2, <2>3
<1>5. ASSUME NEW r \in Requests, Route(r) \/ HandOver(r) PROVE EntriesOK'
  <2>1. TableKept
    BY <1>5 DEF Route, HandOver, TableKept, Rules
  <2>2. RequestsKept
    <3>1. \A p \in Requests \ {r} : req'[p] = req[p]
      BY <1>5 DEF Route, HandOver, TypeOK
    <3>2. req'[r].st # "found"
      <4>1. CASE req' = [req EXCEPT ![r] = NoReq]
        BY <4>1 DEF TypeOK, NoReq
      <4>2. CASE \E t : req' = [req EXCEPT ![r] = [@ EXCEPT !.st = "routed", !.got = t]]
        <5>1. PICK t : req' = [req EXCEPT ![r] = [@ EXCEPT !.st = "routed", !.got = t]]
          BY <4>2
        <5>2. req[r] \in ReqType
          BY DEF TypeOK, ReqType
        <5>3. req'[r].st = "routed"
          BY <5>1, <5>2 DEF TypeOK, ReqType
        <5> QED
          BY <5>3
      <4> QED
        BY <1>5, <4>1, <4>2 DEF Route, HandOver
    <3> QED
      BY <3>1, <3>2 DEF RequestsKept
  <2> QED
    BY <1>3, <2>1, <2>2
<1>6. CASE UNCHANGED <<table, req>>
  <2>1. TableKept /\ RequestsKept
    BY <1>6 DEF TableKept, RequestsKept, Rules
  <2> QED
    BY <1>3, <2>1
<1>7. ASSUME NEW c \in Clients,
             UndoBind(c) \/ CleanTable(c) \/ \E t \in tunnels[c] : UnregisterTunnel(c, t)
      PROVE  EntriesOK'
  <2>1. UNCHANGED req /\ \E ids : table' = Unbind(ids)
    BY <1>7 DEF UndoBind, CleanTable, UnregisterTunnel
  <2> QED
    BY <1>4, <2>1
<1>8. \/ UNCHANGED <<table, req>>
      \/ \E c \in Clients : BindHost(c) \/ UndoBind(c) \/ CleanTable(c)
                            \/ \E t \in tunnels[c] : UnregisterTunnel(c, t)
      \/ \E r \in Requests, h \in Hosts : Request(r, h)
      \/ \E r \in Requests : Route(r) \/ HandOver(r)
  BY Zenon DEF Next, vars, HandlerStep, Connect, Shutdown, Disconnect, AddVhostTunnel, StartVhost,
     StopVhost, DropTunnel, DropOne, DropEnds, CleanStop
<1> QED
  BY <1>1, <1>2, <1>5, <1>6, <1>7, <1>8, Zenon

-----------------------------------------------------------------------------
\* Routing.

LEMMA VhostRouting ==
    ASSUME TypeOK, EntriesOK, NeverMisrouted, [Next]_vars
    PROVE  NeverMisrouted'
<1> SUFFICES ASSUME NEW r \in Requests, req'[r].st = "routed"
             PROVE  req'[r].got.host = req'[r].host \/ Covers(req'[r].got.host, req'[r].host)
  BY DEF NeverMisrouted, Covers
<1>1. CASE req'[r] = req[r]
  BY <1>1 DEF NeverMisrouted
<1>2. CASE req'[r] # req[r]
  <2>1. ~HandOver(r) /\ \A h \in Hosts : ~Request(r, h)
    <3>1. HandOver(r) => req'[r].st = "free"
      BY DEF HandOver, NoReq, TypeOK
    <3>2. \A h \in Hosts : Request(r, h) => req'[r].st = "found"
      BY DEF Request, TypeOK
    <3> QED
      BY <3>1, <3>2
  <2>2. \A p \in Requests \ {r} : /\ Route(p) \/ HandOver(p) => req'[r] = req[r]
                                 /\ \A h \in Hosts : Request(p, h) => req'[r] = req[r]
    BY DEF Route, HandOver, Request, TypeOK
  <2>3. Route(r)
    <3>1. \/ UNCHANGED req
          \/ \E p \in Requests, h \in Hosts : Request(p, h)
          \/ \E p \in Requests : Route(p) \/ HandOver(p)
      BY Zenon DEF Next, vars, HandlerStep, Connect, Shutdown, Disconnect, AddVhostTunnel, BindHost,
         StartVhost, UndoBind, UnregisterTunnel, StopVhost, DropTunnel, DropOne, DropEnds, CleanTable,
         CleanStop
    <3> QED
      BY <1>2, <2>1, <2>2, <3>1, Zenon
  <2>4. PICK e : e = req[r].entry
    OBVIOUS
  <2>5. PICK t \in tunnels[e.client] :
          t.id = e.id /\ req' = [req EXCEPT ![r] = [@ EXCEPT !.st = "routed", !.got = t]]
    <3>1. req' # [req EXCEPT ![r] = NoReq]
      BY DEF TypeOK, NoReq
    <3> QED
      BY <2>3, <2>4, <3>1 DEF Route
  <2>6. t.host \in FitFor(req[r].host)
    BY <2>3, <2>4, <2>5 DEF Route, EntriesOK, NamesOnly
  <2>7. req'[r].got = t /\ req'[r].host = req[r].host
    <3>1. req[r] \in ReqType
      BY DEF TypeOK, ReqType
    <3>2. req'[r] = [req[r] EXCEPT !.st = "routed", !.got = t]
      BY <2>5 DEF TypeOK
    <3> QED
      BY <3>1, <3>2 DEF ReqType
  <2> QED
    BY <2>6, <2>7 DEF FitFor
<1> QED
  BY <1>1, <1>2

-----------------------------------------------------------------------------
\* The theorems.

\* The inductive invariant of the shared port: the ids of a manager are used
\* once, and an entry of the table, or one a request still holds, names a
\* tunnel of a fitting host or a tunnel that is gone for good.
THEOREM VhostInvariant == Spec => []VhostInv
<1>1. Init => VhostInv
  BY VhostInit
<1>2. VhostInv /\ [Next]_vars => VhostInv'
  <2> SUFFICES ASSUME VhostInv, [Next]_vars PROVE VhostInv'
    OBVIOUS
  <2>1. TypeOK'
    BY VhostTypes DEF VhostInv
  <2>2. ListenerIsCounted'
    BY VhostListener DEF VhostInv
  <2>3. IdsOK' /\ ManagersGrow
    BY VhostIds DEF VhostInv
  <2>4. EntriesOK'
    BY <2>1, <2>3, VhostEntries DEF VhostInv
  <2>5. NeverMisrouted'
    BY VhostRouting DEF VhostInv
  <2> QED
    BY <2>1, <2>2, <2>3, <2>4, <2>5 DEF VhostInv
<1> QED
  BY <1>1, <1>2, PTL DEF Spec

\* startVhost and stopVhost keep the shared port bound exactly while the
\* counter is positive, whatever the clients, their tunnels and the failures.
THEOREM VhostListenerIsCounted == Spec => []ListenerIsCounted
<1>1. VhostInv => ListenerIsCounted
  BY DEF VhostInv
<1> QED
  BY <1>1, VhostInvariant, PTL

\* handleVhostConn never hands a request to a tunnel of another host, although
\* the table and the managers change between its look-up and TunnelByID.
THEOREM VhostNeverMisrouted == Spec => []NeverMisrouted
<1>1. VhostInv => NeverMisrouted
  BY DEF VhostInv
<1> QED
  BY <1>1, VhostInvariant, PTL

\* VhostTable.Lookup finds the host itself or the longest rule that covers it,
\* for every table and in every order in which the map may be iterated.
THEOREM VhostLookupMostSpecific == Spec => []LookupMostSpecific
<1>1. VhostInv => LookupMostSpecific
  <2> SUFFICES ASSUME VhostInv PROVE LookupMostSpecific
    OBVIOUS
  <2>1. IsFiniteSet(Rules)
    BY DEF VhostInv, EntriesOK
  <2> QED
    BY <2>1, LookupFinds DEF LookupMostSpecific
<1> QED
  BY <1>1, VhostInvariant, PTL
=============================================================================
