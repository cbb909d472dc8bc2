------------------------- MODULE UdpChannel_proofs -------------------------
(***************************************************************************)
(* UDP tunnels have at most one channel, for any number of tunnels and of  *)
(* rebuilds: UInv is inductive, and implies OneChannel and NeverReplaces.  *)
(***************************************************************************)
EXTENDS UdpChannel, TLAPS

LEMMA UdpInit == Init => UInv
<1> SUFFICES ASSUME Init PROVE UInv
    OBVIOUS
<1>1. TypeOK
  BY DEF Init, TypeOK, Status, At
<1>2. OneChannel
  BY DEF Init, OneChannel, InUse, Pending, Bound
<1>3. ChannelBound
  BY UdpChannelAssumption DEF Init, ChannelBound, Bound
<1>4. IdsOK
  BY DEF Init, IdsOK
<1> QED
  BY <1>1, <1>2, <1>3, <1>4 DEF UInv

LEMMA UdpNext == UInv /\ [Next]_vars => UInv'
<1> SUFFICES ASSUME UInv, [Next]_vars PROVE UInv'
    OBVIOUS
<1> USE UdpChannelAssumption DEF UInv, Move
<1>1. CASE UNCHANGED vars
  BY <1>1 DEF vars, TypeOK, OneChannel, ChannelBound, IdsOK
<1>2. CASE SessionEnds
  BY <1>2 DEF SessionEnds, TypeOK, OneChannel, ChannelBound, IdsOK
<1>3. ASSUME NEW t \in Tunnels, RegisterTunnel(t) PROVE UInv'
  <2>1. TypeOK'
    BY <1>3 DEF RegisterTunnel, TypeOK, Status
  <2>2. (OneChannel /\ ChannelBound)'
    BY <1>3 DEF RegisterTunnel, TypeOK, OneChannel, ChannelBound
  <2>3. IdsOK'
    BY <1>3 DEF RegisterTunnel, TypeOK, IdsOK
  <2> QED
    BY <2>1, <2>2, <2>3
<1>4. ASSUME NEW t \in Tunnels, NEW i \in Ids, PreOpen(t, i) PROVE UInv'
  \* no conn id belongs to a tunnel that was never announced
  <2>1. \A j \in Ids : tun[j] # t
    BY <1>4 DEF PreOpen, IdsOK
  <2>2. TypeOK'
    BY <1>4 DEF PreOpen, TypeOK, Status, At, InUse, Pending
  <2>3. OneChannel'
    BY <1>4, <2>1 DEF PreOpen, TypeOK, OneChannel
  <2>4. ChannelBound'
    BY <1>4, <2>1 DEF PreOpen, TypeOK, ChannelBound, Bound
  <2>5. IdsOK'
    BY <1>4 DEF PreOpen, TypeOK, IdsOK
  <2> QED
    BY <2>2, <2>3, <2>4, <2>5
<1>5. ASSUME NEW t \in Tunnels, Unregister(t) PROVE UInv'
  <2>1. TypeOK'
    BY <1>5 DEF Unregister, TypeOK, Status, At
  <2>2. OneChannel'
    BY <1>5 DEF Unregister, TypeOK, OneChannel, InUse, Pending, Bound
  <2>3. ChannelBound'
    BY <1>5 DEF Unregister, TypeOK, ChannelBound, Pending, Bound
  <2>4. IdsOK'
    BY <1>5 DEF Unregister, TypeOK, IdsOK, Pending
  <2> QED
    BY <2>1, <2>2, <2>3, <2>4
<1>6. ASSUME NEW t \in Tunnels, CloseChannel(t) PROVE UInv'
  <2>1. TypeOK'
    BY <1>6 DEF CloseChannel, TypeOK, Status
  <2>2. (OneChannel /\ ChannelBound)'
    BY <1>6 DEF CloseChannel, TypeOK, OneChannel, ChannelBound
  <2>3. IdsOK'
    BY <1>6 DEF CloseChannel, TypeOK, IdsOK
  <2> QED
    BY <2>1, <2>2, <2>3
\* A conn id that moves along without being bound, or to its end.
<1>7. ASSUME NEW i \in Ids, NEW l \in (InUse \cup {"end", "lost"}) \ Bound,
             at[i] \in InUse \ Bound, Move(i, l),
             UNCHANGED <<status, sess, tun, closed, ch>>
      PROVE  UInv'
  <2>1. TypeOK'
    BY <1>7 DEF TypeOK, At
  <2>2. OneChannel'
    BY <1>7 DEF TypeOK, OneChannel, InUse, Pending, Bound
  <2>3. ChannelBound'
    BY <1>7 DEF TypeOK, ChannelBound
  <2>4. IdsOK'
    BY <1>7 DEF TypeOK, IdsOK, InUse, Pending, Bound
  <2> QED
    BY <2>1, <2>2, <2>3, <2>4
<1>8. ASSUME NEW i \in Ids,
             OpenFails(i) \/ Claim(i) \/ ClaimLate(i) \/ Quota(i) \/ QuotaExceeded(i)
      PROVE  UInv'
  <2>1. {"deaf", "quota", "end", "lost", "set"} \subseteq (InUse \cup {"end", "lost"}) \ Bound
    BY DEF InUse, Pending, Bound
  <2>2. {"pending", "quota"} \subseteq InUse \ Bound
    BY DEF InUse, Pending, Bound
  <2> QED
    BY <1>7, <1>8, <2>1, <2>2
       DEF OpenFails, Claim, ClaimLate, Quota, QuotaExceeded
<1>9. ASSUME NEW i \in Ids, SetUDPChannel(i) PROVE UInv'
  <2>1. tun[i] \in Tunnels
    BY <1>9 DEF SetUDPChannel, TypeOK, IdsOK
  <2>2. TypeOK'
    BY <1>9, <2>1 DEF SetUDPChannel, TypeOK, At, InUse, Bound
  <2>3. OneChannel'
    BY <1>9 DEF SetUDPChannel, TypeOK, OneChannel, InUse, Bound
  <2>4. ChannelBound'
    BY <1>9, <2>1 DEF SetUDPChannel, TypeOK, OneChannel, ChannelBound, InUse, Bound
  <2>5. IdsOK'
    BY <1>9 DEF SetUDPChannel, TypeOK, IdsOK
  <2> QED
    BY <2>2, <2>3, <2>4, <2>5
<1>10. ASSUME NEW i \in Ids, ReadLoopEnds(i) PROVE UInv'
  <2>1. TypeOK'
    BY <1>10 DEF ReadLoopEnds, TypeOK, At, InUse, Bound
  <2>2. OneChannel'
    BY <1>10 DEF ReadLoopEnds, TypeOK, OneChannel, InUse, Bound
  <2>3. ChannelBound'
    BY <1>10 DEF ReadLoopEnds, TypeOK, ChannelBound, Bound
  <2>4. IdsOK'
    BY <1>10 DEF ReadLoopEnds, TypeOK, IdsOK
  <2> QED
    BY <2>1, <2>2, <2>3, <2>4
<1>11. ASSUME NEW i \in Ids, Clear(i) PROVE UInv'
  <2>1. tun[i] \in Tunnels
    BY <1>11 DEF Clear, TypeOK, IdsOK
  <2>2. TypeOK'
    BY <1>11, <2>1 DEF Clear, TypeOK, At, InUse
  <2>3. OneChannel'
    BY <1>11 DEF Clear, TypeOK, OneChannel, InUse, Bound
  <2>4. ch[tun[i]] = i
    BY <1>11, <2>1 DEF Clear, ChannelBound, Bound
  <2>5. ChannelBound'
    BY <1>11, <2>1, <2>4 DEF Clear, TypeOK, ChannelBound, Bound
  <2>6. IdsOK'
    BY <1>11 DEF Clear, TypeOK, IdsOK
  <2> QED
    BY <2>2, <2>3, <2>5, <2>6
<1>12. ASSUME NEW i \in Ids, Notify(i) PROVE UInv'
  <2>1. CASE ~sess
    <3>1. at[i] \in InUse \ Bound /\ "end" \in (InUse \cup {"end"}) \ Bound
      BY <1>12 DEF Notify, InUse, Bound, Pending
    <3> QED
      BY <1>7, <1>12, <2>1, <3>1 DEF Notify
  <2>2. CASE sess
    <3>1. PICK j \in Ids :
             /\ at[j] = "free"
             /\ at' = [at EXCEPT ![i] = "end", ![j] = "pending"]
             /\ tun' = [tun EXCEPT ![j] = tun[i]]
      BY <1>12, <2>2 DEF Notify
    <3>2. at[i] = "notify" /\ UNCHANGED <<status, sess, closed, ch>>
      BY <1>12 DEF Notify
    <3>3. tun[i] \in Tunnels /\ i # j /\ tun[j] = NoTunnel
      BY <3>1, <3>2 DEF TypeOK, IdsOK
    <3>4. TypeOK'
      BY <3>1, <3>2, <3>3 DEF TypeOK, At, InUse, Pending
    <3>5. OneChannel'
      BY <3>1, <3>2, <3>3 DEF TypeOK, OneChannel, InUse, Pending, Bound
    <3>6. ChannelBound'
      BY <3>1, <3>2, <3>3 DEF TypeOK, ChannelBound, Bound
    <3>7. IdsOK'
      BY <3>1, <3>2, <3>3 DEF TypeOK, IdsOK
    <3> QED
      BY <3>4, <3>5, <3>6, <3>7
  <2> QED
    BY <2>1, <2>2
<1> QED
  BY <1>1, <1>2, <1>3, <1>4, <1>5, <1>6, <1>8, <1>9, <1>10, <1>11, <1>12
     DEF Next, ServerStep, Outside

-----------------------------------------------------------------------------
\* UInv always holds, over claims that fail, channels that drop at any time,
\* unregistrations and the loss of the session.
THEOREM UdpInvariant == Spec => []UInv
<1>1. Init => UInv
  BY UdpInit
<1>2. UInv /\ [Next]_vars => UInv'
  BY UdpNext
<1> QED
  BY <1>1, <1>2, PTL DEF Spec

\* A UDP tunnel never has two channels, nor one and a second under way.
THEOREM UdpOneChannel == Spec => []OneChannel
<1>1. UInv => OneChannel
  BY DEF UInv
<1> QED
  BY <1>1, UdpInvariant, PTL

\* A channel is bound only to a tunnel that has none.
THEOREM UdpNeverReplaces == Spec => []NeverReplaces
<1>1. UInv => NeverReplaces
  <2> SUFFICES ASSUME UInv, NEW i \in Ids, at[i] = "set", ch[tun[i]] # NoId
               PROVE  FALSE
    BY DEF NeverReplaces
  <2>1. tun[i] \in Tunnels /\ ch[tun[i]] \in Ids
    BY DEF UInv, TypeOK, IdsOK
  <2>2. at[ch[tun[i]]] \in Bound /\ tun[ch[tun[i]]] = tun[i]
    BY <2>1 DEF UInv, ChannelBound
  <2> QED
    BY <2>1, <2>2 DEF UInv, OneChannel, InUse, Bound
<1> QED
  BY <1>1, UdpInvariant, PTL
=============================================================================
