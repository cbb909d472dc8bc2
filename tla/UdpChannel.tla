----------------------------- MODULE UdpChannel -----------------------------
(***************************************************************************)
(* The data channel of UDP tunnels: one connection per tunnel, announced   *)
(* to the client when the tunnel is registered and again whenever the      *)
(* channel drops (internal/tunnel/server.go, SetUDPChannel and             *)
(* udpChannelReadLoop; internal/control/server.go, handleDataConn and      *)
(* OnUDPChannelClosed; internal/tunnel/udp_client.go).                     *)
(*                                                                         *)
(* A conn id stands for itself, for its entry in Manager.pending and for   *)
(* the connection that claims it; DataPath shows that it is claimed once.  *)
(* The sessions of the client do not overlap here: ControlSession has      *)
(* those.                                                                  *)
(***************************************************************************)
EXTENDS Naturals, FiniteSets

CONSTANTS
    Tunnels,    \* UDP tunnels of one client, each registered once
    Ids,        \* bound: conn ids the server makes
    NoId, NoTunnel

ASSUME UdpChannelAssumption == NoId \notin Ids /\ NoTunnel \notin Tunnels

VARIABLES
    status,     \* of a tunnel
    sess,       \* the client has a session in the registry
    at,         \* where the channel of a conn id is
    tun,        \* the tunnel a conn id was made for
    closed,     \* connections closed under their read loop
    ch          \* Tunnel.ch

vars == <<status, sess, at, tun, closed, ch>>

Status == {"new", "announce", "up", "closing", "gone"}

\* In Manager.pending; "deaf" if the client will not claim it any more.
Pending == {"pending", "deaf"}
Bound == {"live", "clear"}
InUse == Pending \cup Bound \cup {"quota", "set", "notify"}
At == {"free", "end", "lost"} \cup InUse

Init ==
    /\ status = [t \in Tunnels |-> "new"]
    /\ sess = TRUE
    /\ at = [i \in Ids |-> "free"]
    /\ tun = [i \in Ids |-> NoTunnel]
    /\ closed = {}
    /\ ch = [t \in Tunnels |-> NoId]

Move(i, l) == at' = [at EXCEPT ![i] = l]

-----------------------------------------------------------------------------
\* Registration.

RegisterTunnel(t) ==
    /\ status[t] = "new" /\ sess
    /\ status' = [status EXCEPT ![t] = "announce"]
    /\ UNCHANGED <<sess, at, tun, closed, ch>>

\* OpenConnection with no public connection, after the response
PreOpen(t, i) ==
    /\ status[t] = "announce"
    /\ at[i] = "free"
    /\ status' = [status EXCEPT ![t] = "up"]
    /\ tun' = [tun EXCEPT ![i] = t]
    /\ Move(i, "pending")
    /\ UNCHANGED <<sess, closed, ch>>

\* Unregister: out of the maps, its pending conn ids dropped ...
Unregister(t) ==
    /\ status[t] = "up"
    /\ status' = [status EXCEPT ![t] = "closing"]
    /\ at' = [i \in Ids |-> IF tun[i] = t /\ at[i] \in Pending THEN "end" ELSE at[i]]
    /\ UNCHANGED <<sess, tun, closed, ch>>

\* ... and the channel it has at that moment closed.
CloseChannel(t) ==
    /\ status[t] = "closing"
    /\ status' = [status EXCEPT ![t] = "gone"]
    /\ closed' = IF ch[t] = NoId THEN closed ELSE closed \cup {ch[t]}
    /\ UNCHANGED <<sess, at, tun, ch>>

SessionEnds ==
    /\ sess
    /\ sess' = FALSE
    /\ UNCHANGED <<status, at, tun, closed, ch>>

-----------------------------------------------------------------------------
\* One channel.

\* The client does not know the tunnel, may not dial it or fails to reach the
\* server, or the frame was lost: nothing tells the server.
OpenFails(i) ==
    /\ at[i] = "pending"
    /\ Move(i, "deaf")
    /\ UNCHANGED <<status, sess, tun, closed, ch>>

\* ClaimData for the open_data frame of the client; a late one finds the
\* deadline passed.
Claim(i) ==
    /\ at[i] = "pending"
    /\ Move(i, IF status[tun[i]] \in {"announce", "up"} THEN "quota" ELSE "end")
    /\ UNCHANGED <<status, sess, tun, closed, ch>>

ClaimLate(i) ==
    /\ at[i] = "pending"
    /\ Move(i, "lost")
    /\ UNCHANGED <<status, sess, tun, closed, ch>>

\* acquireDataQuota; without a slot the connection is closed
Quota(i) ==
    /\ at[i] = "quota"
    /\ Move(i, "set")
    /\ UNCHANGED <<status, sess, tun, closed, ch>>

QuotaExceeded(i) ==
    /\ at[i] = "quota"
    /\ Move(i, "lost")
    /\ UNCHANGED <<status, sess, tun, closed, ch>>

\* SetUDPChannel: bind the channel, close the one it replaces
SetUDPChannel(i) ==
    /\ at[i] = "set"
    /\ ch' = [ch EXCEPT ![tun[i]] = i]
    /\ closed' = IF ch[tun[i]] = NoId THEN closed ELSE closed \cup {ch[tun[i]]}
    /\ Move(i, "live")
    /\ UNCHANGED <<status, sess, tun>>

\* Mutant: the control plane is told as soon as the read fails and once more
\* after the channel is cleared.
ReadLoopEndsAndNotifies(i) ==
    /\ at[i] = "live"
    /\ \/ \E j \in Ids :
            /\ at[j] = "free"
            /\ at' = [at EXCEPT ![i] = "clear", ![j] = "pending"]
            /\ tun' = [tun EXCEPT ![j] = tun[i]]
       \/ (\A j \in Ids : at[j] # "free") /\ Move(i, "clear") /\ UNCHANGED tun
    /\ UNCHANGED <<status, sess, closed, ch>>

\* readUDPFrame fails: the peer is gone or the connection was closed here.
ReadLoopEnds(i) ==
    /\ at[i] = "live"
    /\ Move(i, "clear")
    /\ UNCHANGED <<status, sess, tun, closed, ch>>

\* Mutant: the dropped channel stays in the tunnel.
ClearForgotten(i) ==
    /\ at[i] = "clear"
    /\ Move(i, "notify")
    /\ UNCHANGED <<status, sess, tun, closed, ch>>

\* The tunnel forgets the channel, unless another has replaced it.
Clear(i) ==
    /\ at[i] = "clear"
    /\ ch' = IF ch[tun[i]] = i THEN [ch EXCEPT ![tun[i]] = NoId] ELSE ch
    /\ Move(i, "notify")
    /\ UNCHANGED <<status, sess, tun, closed>>

\* Mutant: no replacement is asked for while another tunnel waits for its own.
NotifyIfIdle(i) ==
    /\ at[i] = "notify"
    /\ IF sess /\ \A k \in Ids : at[k] \notin Pending
       THEN \E j \in Ids :
              /\ at[j] = "free"
              /\ at' = [at EXCEPT ![i] = "end", ![j] = "pending"]
              /\ tun' = [tun EXCEPT ![j] = tun[i]]
       ELSE Move(i, "end") /\ UNCHANGED tun
    /\ UNCHANGED <<status, sess, closed, ch>>

\* OnUDPChannelClosed: the quota is released and, if the client has a
\* session, a new conn id announced; the tunnel is not looked at.
Notify(i) ==
    /\ at[i] = "notify"
    /\ IF sess
       THEN \E j \in Ids :
              /\ at[j] = "free"
              /\ at' = [at EXCEPT ![i] = "end", ![j] = "pending"]
              /\ tun' = [tun EXCEPT ![j] = tun[i]]
       ELSE Move(i, "end") /\ UNCHANGED tun
    /\ UNCHANGED <<status, sess, closed, ch>>

-----------------------------------------------------------------------------
ServerStep ==
    \/ \E t \in Tunnels, i \in Ids : PreOpen(t, i)
    \/ \E t \in Tunnels : CloseChannel(t) \/ (~sess /\ Unregister(t))
    \/ \E i \in Ids : Quota(i) \/ SetUDPChannel(i) \/ Clear(i) \/ Notify(i)
    \/ \E i \in Ids : i \in closed /\ ReadLoopEnds(i)

Outside ==
    \/ SessionEnds
    \/ \E t \in Tunnels : RegisterTunnel(t) \/ (sess /\ Unregister(t))
    \/ \E i \in Ids : OpenFails(i) \/ Claim(i) \/ ClaimLate(i) \/ QuotaExceeded(i)
    \/ \E i \in Ids : i \notin closed /\ ReadLoopEnds(i)

Next == ServerStep \/ Outside

Spec == Init /\ [][Next]_vars

\* Goroutines run; an announced conn id is claimed, or is not in time.
FairSpec ==
    /\ Spec
    /\ WF_vars(ServerStep)
    /\ \A i \in Ids : WF_vars(Claim(i) \/ OpenFails(i) \/ ClaimLate(i))

-----------------------------------------------------------------------------
\* Properties.

\* Types: the status of a tunnel, its channel and where each conn id is.
TypeOK ==
    /\ status \in [Tunnels -> Status]
    /\ sess \in BOOLEAN
    /\ at \in [Ids -> At]
    /\ tun \in [Ids -> Tunnels \cup {NoTunnel}]
    /\ closed \subseteq Ids
    /\ ch \in [Tunnels -> Ids \cup {NoId}]

\* A tunnel never has two channels, nor one and a second on its way: every
\* rebuild starts after its channel is gone (docs/udp-semantics.md:7, one
\* channel per client and tunnel).
OneChannel ==
    \A i, j \in Ids : at[i] \in InUse /\ at[j] \in InUse /\ tun[i] = tun[j] => i = j

\* SetUDPChannel never finds a channel in the tunnel to close.  It would
\* otherwise shut down a connection whose own read loop then asks for one more
\* channel, which closes this one in turn, and so on: between the drop of a
\* channel and the claim of the next the old one has left Tunnel.ch, whichever
\* goroutines run in between.
NeverReplaces == \A i \in Ids : at[i] = "set" => ch[tun[i]] = NoId

\* The strengthening that makes the two above inductive: Tunnel.ch names the
\* channel that was bound and that its read loop has not cleared yet.  (A packet
\* may still be written to a channel whose loop has ended, or whose connection
\* HandleUDPPacket copied before it was cleared: UDP may lose it.)
ChannelBound ==
    \A t \in Tunnels, i \in Ids : ch[t] = i <=> at[i] \in Bound /\ tun[i] = t

IdsOK ==
    /\ \A i \in Ids : at[i] = "free" <=> tun[i] = NoTunnel
    /\ \A i \in Ids : tun[i] # NoTunnel => status[tun[i]] \notin {"new", "announce"}

UInv == TypeOK /\ OneChannel /\ ChannelBound /\ IdsOK

\* A channel that drops comes back: its tunnel, while it stays registered and
\* the client connected, has a channel again, unless a conn id announced for
\* it was not claimed or found no quota slot (or the conn ids of the instance
\* are used up).  Nothing else can break the chain of rebuilds.
DroppedComesBack ==
    \A t \in Tunnels, i \in Ids :
        (at[i] = "notify" /\ tun[i] = t)
            ~> \/ ch[t] # NoId \/ status[t] # "up" \/ ~sess
               \/ \E j \in Ids : tun[j] = t /\ at[j] \in {"deaf", "lost"}
               \/ \A j \in Ids : at[j] # "free"

\* docs/udp-semantics.md:9: a channel that drops is rebuilt, whatever became of
\* the conn ids announced for it.
ChannelRebuilt ==
    \A t \in Tunnels, i \in Ids :
        (at[i] = "notify" /\ tun[i] = t)
            ~> \/ ch[t] # NoId \/ status[t] # "up" \/ ~sess
               \/ \A j \in Ids : at[j] # "free"
=============================================================================
