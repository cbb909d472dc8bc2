---------------------------- MODULE UdpSessions ----------------------------
(***************************************************************************)
(* The pseudo-connections of one UDP tunnel: the session table of the      *)
(* server with its LRU order and idle sweep, the frames on the data        *)
(* channel, and the local sockets of the client                            *)
(* (internal/tunnel/udp_server.go, server.go and udp_client.go).           *)
(*                                                                         *)
(* Payloads are left out: a frame is a session id and, for the properties  *)
(* only, the public peer whose datagram it carries or answers.  How the    *)
(* channel itself comes and goes is in UdpChannel.                         *)
(***************************************************************************)
EXTENDS Naturals, FiniteSets, SequencesExt

CONSTANTS
    Peers,          \* public peers
    Ids,            \* bound: session ids the server makes, each once
    DefaultSessions, \* the limit newUDPServerState falls back to
    ConfSessions,   \* udp_max_sessions_per_tunnel of the configuration
    SessionIdle,    \* udpServerState.sessionIdle
    MaxNow,         \* bound: the clock
    MaxFrames,      \* bound: frames on the channel, each way
    NoId, NoPeer

ASSUME UdpSessionsAssumption ==
    /\ NoId \notin Ids /\ NoPeer \notin Peers
    /\ DefaultSessions \in Nat \ {0} /\ ConfSessions \in Nat
    /\ SessionIdle \in Nat /\ MaxNow \in Nat /\ MaxFrames \in Nat

VARIABLES
    now,
    byPeer,     \* peer -> session id
    byID,       \* session id -> peer
    order,      \* peers, most recent last
    last,       \* lastActive of the session of a peer
    used,       \* session ids that have been made
    bound,      \* the public socket is open
    reader,     \* the public read loop: what HandleUDPPacket has in hand
    chan,       \* the channel is up
    down, up,   \* frames on it, to the client and back
    socks,      \* conns of the client: local sockets by session
    sent        \* the last datagram to the public: who it answers, who gets it

tableVars == <<byPeer, byID, order, last, used>>
chanVars == <<chan, down, up, socks>>
vars == <<now, tableVars, bound, reader, chanVars, sent>>

\* Server.UDPMaxSessions: nothing sets it from the configuration.
UDPMaxSessions == 0

\* udpServerState.maxSessions
MaxSessions == IF UDPMaxSessions > 0 THEN UDPMaxSessions ELSE DefaultSessions

Frame == Ids \X Peers
Idle == [st |-> "idle", peer |-> NoPeer, id |-> NoId]
Sessions == {p \in Peers : byPeer[p] # NoId}

Init ==
    /\ now = 0
    /\ byPeer = [p \in Peers |-> NoId]
    /\ byID = [i \in Ids |-> NoPeer]
    /\ order = <<>>
    /\ last = [p \in Peers |-> 0]
    /\ used = {}
    /\ bound = TRUE
    /\ reader = Idle
    /\ chan = TRUE
    /\ down = <<>> /\ up = <<>>
    /\ socks = {}
    /\ sent = <<>>

-----------------------------------------------------------------------------
\* The session table.

Drop(gone) ==
    /\ byPeer' = [p \in Peers |-> IF p \in gone THEN NoId ELSE byPeer[p]]
    /\ byID' = [i \in Ids |-> IF byID[i] \in gone THEN NoPeer ELSE byID[i]]

\* evictLRULocked: what is left when a session is to be created
Evicted == IF Cardinality(Sessions) >= MaxSessions /\ order # <<>>
           THEN {Head(order)} ELSE {}
Kept == IF Evicted = {} THEN order ELSE Tail(order)

\* ReadFromUDP, the size check and rateAllow; refused packets are dropped.
Receive(p) ==
    /\ reader.st = "idle"
    /\ bound
    /\ reader' = [st |-> "lookup", peer |-> p, id |-> NoId]
    /\ UNCHANGED <<now, tableVars, bound, chanVars, sent>>

\* Mutant: a known session keeps its place in the order.
TouchForgotten ==
    LET p == reader.peer IN
    /\ reader.st = "lookup"
    /\ byPeer[p] # NoId
    /\ last' = [last EXCEPT ![p] = now]
    /\ reader' = [reader EXCEPT !.st = "send", !.id = byPeer[p]]
    /\ UNCHANGED <<now, byPeer, byID, order, used, bound, chanVars, sent>>

\* sessionFor of a peer that has a session, with touchLocked
Touch ==
    LET p == reader.peer IN
    /\ reader.st = "lookup"
    /\ byPeer[p] # NoId
    /\ last' = [last EXCEPT ![p] = now]
    /\ order' = Append(RemoveFirst(order, p), p)
    /\ reader' = [reader EXCEPT !.st = "send", !.id = byPeer[p]]
    /\ UNCHANGED <<now, byPeer, byID, used, bound, chanVars, sent>>

\* Mutant: the id of a session that is gone is given to the next one.
CreateReusesIds(i) ==
    LET p == reader.peer IN
    /\ reader.st = "lookup"
    /\ byPeer[p] = NoId
    /\ byID[i] = NoPeer
    /\ byPeer' = [q \in Peers |-> IF q = p THEN i
                                  ELSE IF q \in Evicted THEN NoId ELSE byPeer[q]]
    /\ byID' = [j \in Ids |-> IF j = i THEN p
                              ELSE IF byID[j] \in Evicted THEN NoPeer ELSE byID[j]]
    /\ order' = Append(Kept, p)
    /\ last' = [last EXCEPT ![p] = now]
    /\ used' = used \cup {i}
    /\ reader' = [reader EXCEPT !.st = "send", !.id = i]
    /\ UNCHANGED <<now, bound, chanVars, sent>>

\* sessionFor of a new peer: the least recent session makes room
Create(i) ==
    LET p == reader.peer IN
    /\ reader.st = "lookup"
    /\ byPeer[p] = NoId
    /\ i \notin used
    /\ byPeer' = [q \in Peers |-> IF q = p THEN i
                                  ELSE IF q \in Evicted THEN NoId ELSE byPeer[q]]
    /\ byID' = [j \in Ids |-> IF j = i THEN p
                              ELSE IF byID[j] \in Evicted THEN NoPeer ELSE byID[j]]
    /\ order' = Append(Kept, p)
    /\ last' = [last EXCEPT ![p] = now]
    /\ used' = used \cup {i}
    /\ reader' = [reader EXCEPT !.st = "send", !.id = i]
    /\ UNCHANGED <<now, bound, chanVars, sent>>

\* No session id could be made: room was made all the same.
CreateFails ==
    /\ reader.st = "lookup"
    /\ byPeer[reader.peer] = NoId
    /\ Drop(Evicted)
    /\ order' = Kept
    /\ reader' = Idle
    /\ UNCHANGED <<now, last, used, bound, chanVars, sent>>

\* The rest of HandleUDPPacket: the frame is written to the channel the
\* tunnel has now, or dropped.
Forward ==
    /\ reader.st = "send"
    /\ IF chan
       THEN /\ Len(down) < MaxFrames
            /\ down' = Append(down, <<reader.id, reader.peer>>)
       ELSE UNCHANGED down
    /\ reader' = Idle
    /\ UNCHANGED <<now, tableVars, bound, chan, up, socks, sent>>

\* removeOrderLocked for each of the peers: what is left of the first n of an
\* order, in the same order
Left(q, gone) ==
    LET left[n \in 0..Len(q)] ==
          IF n = 0 THEN <<>>
          ELSE IF q[n] \in gone THEN left[n - 1] ELSE Append(left[n - 1], q[n])
    IN  left

\* Mutant: the sweep forgets the order.
ExpireIdleKeepsOrder ==
    LET gone == {p \in Sessions : now - last[p] > SessionIdle} IN
    /\ gone # {}
    /\ Drop(gone)
    /\ UNCHANGED <<now, order, last, used, bound, reader, chanVars, sent>>

\* expireIdle, from cleanupLoop
ExpireIdle ==
    LET gone == {p \in Sessions : now - last[p] > SessionIdle} IN
    /\ gone # {}
    /\ Drop(gone)
    /\ order' = Left(order, gone)[Len(order)]
    /\ UNCHANGED <<now, last, used, bound, reader, chanVars, sent>>

\* close, from Manager.Unregister; the read loop may have a packet in hand
Close ==
    /\ bound
    /\ bound' = FALSE
    /\ Drop(Sessions)
    /\ order' = <<>>
    /\ UNCHANGED <<now, last, used, reader, chanVars, sent>>

-----------------------------------------------------------------------------
\* The client end of the channel and the way back.

\* A frame of the client loop: a session without a socket gets one, unless
\* the dial fails; the payload goes to the local service.
ClientFrame ==
    LET f == Head(down) IN
    /\ down # <<>>
    /\ down' = Tail(down)
    /\ \/ (\E s \in socks : s[1] = f[1]) /\ UNCHANGED socks
       \/ (\A s \in socks : s[1] # f[1]) /\ socks' \in {socks, socks \cup {f}}
    /\ UNCHANGED <<now, tableVars, bound, reader, chan, up, sent>>

\* readLocal: the local service answers on the socket of a session ...
LocalReply(s) ==
    /\ s \in socks
    /\ Len(up) < MaxFrames
    /\ up' = Append(up, s)
    /\ UNCHANGED <<now, tableVars, bound, reader, chan, down, socks, sent>>

\* ... or the socket fails.
SocketFails(s) ==
    /\ s \in socks
    /\ socks' = socks \ {s}
    /\ UNCHANGED <<now, tableVars, bound, reader, chan, down, up, sent>>

\* udpChannelReadLoop: a frame goes to the peer of its session, if any
Return ==
    LET f == Head(up)  q == byID[f[1]] IN
    /\ up # <<>>
    /\ up' = Tail(up)
    /\ sent' = IF q # NoPeer /\ bound THEN <<f[2], q>> ELSE sent
    /\ UNCHANGED <<now, tableVars, bound, reader, chan, down, socks>>

\* The channel drops: what is on it is lost and the client closes its sockets.
ChannelDrops ==
    /\ chan
    /\ chan' = FALSE
    /\ down' = <<>> /\ up' = <<>> /\ socks' = {}
    /\ UNCHANGED <<now, tableVars, bound, reader, sent>>

ChannelBack ==
    /\ ~chan /\ bound
    /\ chan' = TRUE
    /\ UNCHANGED <<now, tableVars, bound, reader, down, up, socks, sent>>

Tick ==
    /\ now < MaxNow
    /\ now' = now + 1
    /\ UNCHANGED <<tableVars, bound, reader, chanVars, sent>>

-----------------------------------------------------------------------------
Next ==
    \/ Tick
    \/ \E p \in Peers : Receive(p)
    \/ Touch \/ (\E i \in Ids : Create(i)) \/ CreateFails \/ Forward
    \/ ExpireIdle \/ Close
    \/ ClientFrame \/ Return
    \/ \E s \in socks : LocalReply(s) \/ SocketFails(s)
    \/ ChannelDrops \/ ChannelBack

Spec == Init /\ [][Next]_vars

\* The sweep ticks, the loops at both ends of the channel read, and a packet
\* in hand is finished.
FairSpec ==
    /\ Spec
    /\ WF_vars(Tick) /\ WF_vars(ExpireIdle) /\ WF_vars(ClientFrame) /\ WF_vars(Return)
    /\ WF_vars(Touch \/ CreateFails \/ Forward)

-----------------------------------------------------------------------------
\* Properties.

\* Types: the maps of udpServerState, its order and the frames in flight.
TypeOK ==
    /\ now \in Nat
    /\ byPeer \in [Peers -> Ids \cup {NoId}]
    /\ byID \in [Ids -> Peers \cup {NoPeer}]
    /\ order \in Seq(Peers)
    /\ last \in [Peers -> Nat]
    /\ used \subseteq Ids
    /\ reader \in [st : {"idle", "lookup", "send"},
                  peer : Peers \cup {NoPeer}, id : Ids \cup {NoId}]
    /\ bound \in BOOLEAN /\ chan \in BOOLEAN
    /\ down \in Seq(Frame) /\ up \in Seq(Frame)
    /\ socks \subseteq Frame

\* The two maps are inverses of each other, the order holds each session once
\* and the table never outgrows its limit: evictions, the sweep, failed ids
\* and the closing of the tunnel leave nothing half removed.
TableConsistent ==
    /\ \A p \in Peers, i \in Ids : byPeer[p] = i <=> byID[i] = p
    /\ Sessions = ToSet(order)
    /\ Len(order) = Cardinality(Sessions)
    /\ Len(order) <= MaxSessions

\* The session an eviction takes, the head of the order, is one that has been
\* silent longest (docs/udp-semantics.md:24).
OrderIsLRU ==
    \A i, j \in 1..Len(order) : i < j => last[order[i]] <= last[order[j]]

\* An answer of the local service only ever goes to the peer it answers, even
\* when it is late and the session was evicted, has expired or was replaced.
ReplyToAsker == sent = <<>> \/ sent[1] = sent[2]

\* The inductive invariant behind them.  What the read loop has in hand:
ReaderOK ==
    /\ reader.st # "idle" => reader.peer \in Peers
    /\ reader.st = "send" => reader.id \in Ids

\* No session is in the order twice, or was active after now.
OrderOK ==
    /\ \A i, j \in 1..Len(order) : order[i] = order[j] => i = j
    /\ \A p \in Peers : last[p] <= now

\* Somebody takes session i for the session of peer p: the table, the packet
\* in hand, a frame either way or a local socket.
Claim(i, p) ==
    \/ byID[i] = p
    \/ reader.st = "send" /\ reader.id = i /\ reader.peer = p
    \/ \E k \in 1..Len(down) : down[k] = <<i, p>>
    \/ \E k \in 1..Len(up) : up[k] = <<i, p>>
    \/ <<i, p>> \in socks

\* They agree, and no id that will be made is among them.
OneOwner ==
    \A i \in Ids : \A p \in Peers : Claim(i, p) =>
        i \in used /\ \A q \in Peers : Claim(i, q) => p = q

SessionsInv ==
    /\ TypeOK /\ ReaderOK /\ OrderOK /\ TableConsistent /\ OrderIsLRU
    /\ OneOwner /\ ReplyToAsker

\* docs/operations/policy.md:16: a tunnel has at most
\* udp_max_sessions_per_tunnel sessions.
SessionsWithinPolicy == Cardinality(Sessions) <= ConfSessions

\* docs/udp-semantics.md:17: an idle session is reclaimed; at the client it
\* is a local socket (:16).  The tunnel may be unregistered instead.
SocketsReclaimed ==
    \A i \in Ids, p \in Peers :
        (<<i, p>> \in socks /\ byID[i] = NoPeer) ~> (<<i, p>> \notin socks \/ ~bound)
=============================================================================
