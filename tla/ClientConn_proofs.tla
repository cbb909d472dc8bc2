------------------------- MODULE ClientConn_proofs -------------------------
(***************************************************************************)
(* The client, for any number of commands, tunnels, sessions, calls and    *)
(* frames on their way: ClientInv is inductive.  It implies that the       *)
(* missed heartbeats are never undercounted, that a tunnel is entered      *)
(* under the id the server gave it, that what the server serves is known   *)
(* or about to be, and that a caller who waits can be found by its reply.  *)
(***************************************************************************)
EXTENDS ClientConn, SequenceTheorems, FiniteSetTheorems, TLAPS

LEMMA Bounds ==
    /\ MissThreshold \in Nat /\ MaxSessions \in Nat /\ MaxSeq \in Nat
    /\ MaxOpens \in Nat /\ MaxUp \in Nat /\ MaxDown \in Nat
  BY ClientConnAssumption

FrameType == [type : Types, seq : Nat, id : Nat]
RequestType == [type : {"hello", "ping", "call"}, seq : Nat,
                name : Names \cup {NoName}, id : Nat]

\* What a queue of frames looks like after one was added or taken.
LEMMA Added ==
    ASSUME NEW S, NEW q \in Seq(S), NEW f \in S
    PROVE  /\ Append(q, f) \in Seq(S)
           /\ Len(q) \in Nat /\ Len(Append(q, f)) = Len(q) + 1
           /\ \A i \in 1..Len(q) : Append(q, f)[i] = q[i]
           /\ Append(q, f)[Len(q) + 1] = f
  BY AppendProperties, LenProperties

LEMMA Taken ==
    ASSUME NEW S, NEW q \in Seq(S), q # <<>>
    PROVE  /\ Tail(q) \in Seq(S) /\ Head(q) = q[1] /\ Head(q) \in S
           /\ Len(q) \in Nat /\ Len(q) >= 1 /\ Len(Tail(q)) = Len(q) - 1
           /\ \A i \in 1..Len(Tail(q)) : Tail(q)[i] = q[i + 1]
<1>1. Len(q) \in Nat /\ Len(q) >= 1
  BY LenProperties, EmptySeq
<1>2. Head(q) \in S /\ Tail(q) \in Seq(S) /\ Len(Tail(q)) = Len(q) - 1
  BY HeadTailProperties
<1>3. \A i \in 1..Len(Tail(q)) : Tail(q)[i] = q[i + 1]
  BY HeadTailProperties
<1>4. Head(q) = q[1]
  OBVIOUS
<1> QED
  BY <1>1, <1>2, <1>3, <1>4

LEMMA ClientInit == Init => ClientInv
<1> SUFFICES ASSUME Init PROVE ClientInv
  OBVIOUS
<1> USE Bounds, ClientConnAssumption
<1>1. TypeOK
  BY FS_EmptySet DEF Init, TypeOK, NoCall, NoData, Call, Sessions, Callers, Opens
<1>2. BeatOK
  BY DEF Init, BeatOK, NeverUndercounts
<1>3. Len(down) = 0 /\ Len(up) = 0 /\ assigned = {} /\ pending = {} /\ served = {}
  BY DEF Init
<1>4. IsFiniteSet(assigned) /\ Cardinality(assigned) = 0
  BY <1>3, FS_EmptySet
<1>5. CallsOK /\ WaiterIsPending /\ RetiredOK
  BY <1>3 DEF Init, CallsOK, WaiterIsPending, RetiredOK, NoCall
<1>6. RequestsOK /\ RepliesOK /\ ServedIsKnown /\ AssignedOK
  BY <1>3, <1>4 DEF RequestsOK, RepliesOK, ServedIsKnown, AssignedOK
<1>7. EntryIsGranted
  BY DEF Init, EntryIsGranted
<1> QED
  BY <1>1, <1>2, <1>5, <1>6, <1>7 DEF ClientInv, CoreInv

-----------------------------------------------------------------------------
\* Types.

LEMMA EndSessionTypes ==
    ASSUME TypeOK, NEW class, EndSession(class)
    PROVE  /\ state' \in {"disconnected", "stopped"} /\ pc' \in {"backoff", "stopped"}
           /\ conn' = "off" /\ up' = <<>>
           /\ data' \in [Opens -> [st : {"none", "sent", "asked", "dial", "open", "end"},
                                   id : Nat, gen : 0..MaxSessions]]
<1>1. \A o \in Opens : [data[o] EXCEPT !.st = "end"] \in
         [st : {"none", "sent", "asked", "dial", "open", "end"}, id : Nat, gen : 0..MaxSessions]
  BY DEF TypeOK
<1> QED
  BY <1>1 DEF EndSession, Outcome, TypeOK

LEMMA RepliedCall ==
    ASSUME NEW k \in Call, NEW b \in BOOLEAN
    PROVE  [k EXCEPT !.st = "replied", !.ok = b] \in Call
<1>1. [k EXCEPT !.st = "replied"] \in Call
  BY DEF Call
<1>2. \A j \in Call : [j EXCEPT !.ok = b] \in Call
  BY DEF Call
<1>3. [k EXCEPT !.st = "replied", !.ok = b] = [[k EXCEPT !.st = "replied"] EXCEPT !.ok = b]
  OBVIOUS
<1> QED
  BY <1>1, <1>2, <1>3

LEMMA ClientTypes == TypeOK /\ [Next]_vars => TypeOK'
<1> SUFFICES ASSUME TypeOK, [Next]_vars PROVE TypeOK'
  OBVIOUS
<1> USE Bounds, ClientConnAssumption
<1> USE DEF runVars, callVars, beatVars, serverVars, vars
<1> DEFINE DataType == [st : {"none", "sent", "asked", "dial", "open", "end"},
                        id : Nat, gen : 0..MaxSessions]
<1>0. /\ down \in Seq(FrameType) /\ <<>> \in Seq(FrameType)
      /\ up \in Seq(RequestType) /\ <<>> \in Seq(RequestType)
  BY DEF TypeOK, FrameType, RequestType
<1>1. CASE UNCHANGED vars
  BY <1>1 DEF TypeOK
<1>2. CASE Top \/ Backoff \/ Cancel \/ Connect \/ DialFails
  BY <1>2 DEF TypeOK, Top, Backoff, Cancel, Connect, DialFails, Outcome
<1>3. CASE Dial
  <2>1. given' \subseteq Nat
    BY <1>3 DEF Dial, TypeOK
  <2>2. ses' \in 0..MaxSessions /\ gen' \in 0..ses'
    BY <1>3 DEF Dial, TypeOK
  <2> QED
    BY <1>0, <1>3, <2>1, <2>2 DEF Dial, TypeOK, FrameType, RequestType
<1>7. ASSUME NEW r \in RequestType, Write(r)
      PROVE  up' \in Seq(RequestType)
  BY <1>0, <1>7, Added DEF Write
<1>4. CASE SendHello
  <2>1. CASE EndSession("temporary") /\ UNCHANGED first
    BY <1>0, <1>4, <2>1, EndSessionTypes DEF SendHello, TypeOK, RequestType
  <2>2. CASE Write(Request("hello", NoCall))
    <3>1. Request("hello", NoCall) \in RequestType
      BY DEF Request, NoCall, RequestType
    <3>2. up' \in Seq(RequestType)
      BY <1>7, <2>2, <3>1
    <3>3. CASE pc' = "answer" /\ UNCHANGED <<state, conn, closeOnce, data>>
      BY <1>4, <3>2, <3>3 DEF SendHello, TypeOK, RequestType
    <3> QED
      BY <1>4, <2>1, <3>3 DEF SendHello
  <2> QED
    BY <1>4, <2>1, <2>2 DEF SendHello
<1>5. CASE ReadHello
  <2>1. down' \in Seq(FrameType)
    BY <1>0, <1>5, Taken DEF ReadHello
  <2>2. CASE \E class : EndSession(class)
    BY <1>0, <1>5, <2>1, <2>2, EndSessionTypes DEF ReadHello, TypeOK, FrameType, RequestType
  <2>3. CASE ~ \E class : EndSession(class)
    BY <1>5, <2>1, <2>3 DEF ReadHello, TypeOK, FrameType
  <2> QED
    BY <2>2, <2>3
<1>6. CASE Setup
  <2>1. CASE EndSession("temporary") /\ UNCHANGED <<gen, todo>>
    BY <1>0, <1>6, <2>1, EndSessionTypes DEF Setup, TypeOK, RequestType
  <2>2. CASE ~(EndSession("temporary") /\ UNCHANGED <<gen, todo>>)
    BY <1>6, <2>2 DEF Setup, TypeOK
  <2> QED
    BY <2>1, <2>2
<1>8. CASE Ping
  <2>1. Request("ping", NoCall) \in RequestType
    BY DEF Request, NoCall, RequestType
  <2>2. up' \in Seq(RequestType)
    BY <1>7, <1>8, <2>1 DEF Ping
  <2> QED
    BY <1>8, <2>2 DEF Ping, TypeOK, RequestType
<1>9. CASE Count
  <2>1. missed' \in 0..MissThreshold + 1
    BY <1>9 DEF Count, TypeOK
  <2>2. CASE EndSession("temporary")
    BY <1>0, <1>9, <2>1, <2>2, EndSessionTypes DEF Count, TypeOK, RequestType
  <2>3. CASE ~EndSession("temporary")
    BY <1>9, <2>1, <2>3 DEF Count, TypeOK
  <2> QED
    BY <2>2, <2>3
<1>10. CASE PingFails \/ LoopCancelled \/ LoopReadErr
  <2>1. \E class : EndSession(class)
    BY <1>10 DEF PingFails, LoopCancelled, LoopReadErr
  <2> QED
    BY <1>0, <1>10, <2>1, EndSessionTypes
       DEF PingFails, LoopCancelled, LoopReadErr, TypeOK, RequestType
<1>11. ASSUME NEW c \in Callers, NEW n \in Names, Enter(c, n)
       PROVE  /\ seq' \in Nat /\ given' \subseteq Nat /\ call' \in [Callers -> Call]
              /\ pending' \subseteq [seq : Nat, name : Names \cup {NoName}]
  BY <1>11 DEF Enter, TypeOK, Call
<1>12. ASSUME NEW c \in Commands, NEW n \in Names, Start(c, n) PROVE TypeOK'
  <2>1. c \in Callers
    BY DEF Callers
  <2> QED
    BY <1>11, <1>12, <2>1 DEF Start, TypeOK
<1>13. CASE RegisterNext
  <2>1. Main \in Callers
    BY DEF Callers
  <2>2. todo # <<>> => Head(todo) \in Names /\ Tail(todo) \in Seq(Names)
    BY HeadTailProperties DEF TypeOK
  <2>3. todo' \in Seq(Names) /\ pc' \in {"register", "loop"}
    BY <1>13, <2>2 DEF RegisterNext, TypeOK
  <2>4. CASE Enter(Main, Head(todo)) /\ todo # <<>>
    BY <1>11, <1>13, <2>1, <2>2, <2>3, <2>4 DEF RegisterNext, TypeOK
  <2>5. CASE UNCHANGED callVars
    BY <1>13, <2>3, <2>5 DEF RegisterNext, TypeOK
  <2> QED
    BY <1>13, <2>4, <2>5 DEF RegisterNext
<1>14. ASSUME NEW c \in Commands, NEW t \in Known(gen), Stop(c, t) PROVE TypeOK'
  <2>1. c \in Callers /\ t.id \in Nat
    BY DEF Callers, Known, TypeOK, Sessions
  <2>2. call' \in [Callers -> Call]
    BY <1>14, <2>1 DEF Stop, TypeOK, Call
  <2>3. pending' \subseteq [seq : Nat, name : Names \cup {NoName}] /\ seq' \in Nat
    BY <1>14 DEF Stop, TypeOK
  <2> QED
    BY <1>14, <2>2, <2>3 DEF Stop, TypeOK
<1>15. ASSUME NEW c \in Callers, GiveUp(c)
       PROVE  /\ pending' \subseteq pending /\ given' \subseteq Nat
              /\ call' \in [Callers -> Call]
  BY <1>15 DEF GiveUp, TypeOK, Call, NoCall
<1>16. ASSUME NEW c \in Callers, Send(c) PROVE TypeOK'
  <2>1. call[c] \in Call
    BY DEF TypeOK
  <2>2. CASE MayFail /\ GiveUp(c) /\ UNCHANGED <<first, up>>
    BY <1>15, <1>16, <2>2 DEF Send, TypeOK
  <2>3. CASE /\ Write(Request("call", call[c])) /\ call' = [call EXCEPT ![c].st = "wait"]
             /\ UNCHANGED <<pending, given>>
    <3>1. call' \in [Callers -> Call]
      BY <2>1, <2>3 DEF TypeOK, Call
    <3>2. Request("call", call[c]) \in RequestType
      BY <2>1 DEF Request, Call, RequestType
    <3>3. up' \in Seq(RequestType)
      BY <1>7, <2>3, <3>2
    <3> QED
      BY <1>16, <2>3, <3>1, <3>3 DEF Send, TypeOK, RequestType
  <2> QED
    BY <1>16, <2>2, <2>3 DEF Send
<1>17. ASSUME NEW c \in Callers, Timeout(c) PROVE TypeOK'
  BY <1>15, <1>17 DEF Timeout, TypeOK
<1>18. ASSUME NEW c \in Callers, Return(c) PROVE TypeOK'
  <2>1. call' \in [Callers -> Call]
    BY <1>18 DEF Return, TypeOK, Call, NoCall
  <2>2. local' \in [Sessions -> SUBSET [id : Nat, name : Names]]
    BY <1>18 DEF Return, TypeOK
  <2> QED
    BY <1>18, <2>1, <2>2 DEF Return, TypeOK
<1>19. CASE ReadPong \/ ReadEnds
  <2>1. down' \in Seq(FrameType)
    BY <1>0, <1>19, Taken DEF ReadPong, ReadEnds, Take
  <2>2. missed' \in 0..MissThreshold + 1 /\ quiet' \in 0..MissThreshold + 1
    BY <1>19 DEF ReadPong, ReadEnds, TypeOK
  <2>3. UNCHANGED <<runVars, gen, local, todo, callVars, up, serverVars, data>>
    BY <1>19 DEF ReadPong, ReadEnds
  <2> QED
    BY <2>1, <2>2, <2>3 DEF TypeOK, FrameType
<1>20. CASE ReadReply
  <2>1. down # <<>> /\ down' = Tail(down) /\ pending' \subseteq pending
    BY <1>20 DEF ReadReply, Take
  <2>2. down' \in Seq(FrameType) /\ Head(down) \in FrameType
    BY <1>0, <2>1, Taken
  <2>3. call' \in [Callers -> Call]
    <3>1. \A c \in Callers : call[c] \in Call
      BY DEF TypeOK
    <3> DEFINE b == Head(down).type = "ok"
               hit(c) == call[c].st = "wait" /\ \E r \in Waiters(Head(down)) : r.seq = call[c].seq
    <3>2. \A c \in Callers : [call[c] EXCEPT !.st = "replied", !.ok = b] \in Call
      BY <3>1, RepliedCall
    <3>3. call' = [c \in Callers |-> IF hit(c) THEN [call[c] EXCEPT !.st = "replied", !.ok = b]
                                               ELSE call[c]]
      BY <1>20 DEF ReadReply
    <3> HIDE DEF b, hit
    <3> QED
      BY <3>1, <3>2, <3>3
  <2>4. local' \in [Sessions -> SUBSET [id : Nat, name : Names]]
    <3>1. {[id |-> Head(down).id, name |-> r.name] :
             r \in {w \in Waiters(Head(down)) : w.name # NoName}} \subseteq [id : Nat, name : Names]
      BY <2>2 DEF Waiters, TypeOK, FrameType
    <3> QED
      BY <1>20, <3>1 DEF ReadReply, TypeOK
  <2> QED
    BY <1>20, <2>1, <2>2, <2>3, <2>4 DEF ReadReply, TypeOK, FrameType
<1>21. CASE ReadOpen
  <2>1. down' \in Seq(FrameType)
    BY <1>0, <1>21, Taken DEF ReadOpen, Take
  <2>2. data' \in [Opens -> DataType]
    BY <1>21 DEF ReadOpen, TypeOK
  <2> QED
    BY <1>21, <2>1, <2>2 DEF ReadOpen, TypeOK, FrameType
<1>22. ASSUME NEW o \in Opens, DataStep(o) \/ SpliceEnds(o) PROVE TypeOK'
  <2>1. data' \in [Opens -> DataType]
    <3>1. gen \in 0..MaxSessions /\ data \in [Opens -> DataType]
      BY DEF TypeOK
    <3>2. CASE LookupTunnel(o)
      BY <3>1, <3>2 DEF LookupTunnel
    <3>3. CASE OpenData(o) \/ SpliceEnds(o)
      BY <3>1, <3>3 DEF OpenData, SpliceEnds
    <3> QED
      BY <1>22, <3>2, <3>3 DEF DataStep
  <2> QED
    BY <1>22, <2>1 DEF DataStep, LookupTunnel, OpenData, SpliceEnds, TypeOK
\* the server
<1>23. ASSUME NEW f \in FrameType, Reply(f)
       PROVE  down' \in Seq(FrameType)
  BY <1>0, <1>23, Added DEF Reply
<1>24. up # <<>> => Head(up) \in RequestType /\ Tail(up) \in Seq(RequestType)
  BY <1>0, Taken
<1>25. \A t \in Types : \A n, m \in Nat : Frame(t, n, m) \in FrameType
  BY DEF Frame, FrameType
<1>26. CASE Admit
  <2>1. PICK t \in {"server_hello", "fatal"} : Reply(Frame(t, 0, 0))
    BY <1>26 DEF Admit
  <2>2. down' \in Seq(FrameType)
    BY <1>23, <1>25, <2>1 DEF Types
  <2>3. up' \in Seq(RequestType) /\ conn' \in {"up", "closed"}
    BY <1>0, <1>24, <1>26 DEF Admit
  <2> QED
    BY <1>26, <2>2, <2>3 DEF Admit, clientVars, TypeOK, FrameType, RequestType
<1>27. CASE Pong
  <2>1. down' \in Seq(FrameType) /\ up' \in Seq(RequestType)
    BY <1>23, <1>24, <1>25, <1>27 DEF Pong, Handles, Types
  <2> QED
    BY <1>27, <2>1 DEF Pong, clientVars, TypeOK, FrameType, RequestType
<1>28. CASE Grant
  <2>1. Head(up).name \in Names /\ Head(up).seq \in Nat
    BY <1>24, <1>28 DEF Grant, Handles, RequestType
  <2>2. NewId \in Nat
    BY FS_CardinalityType DEF NewId, TypeOK
  <2> DEFINE a == [id |-> NewId, name |-> Head(up).name, seq |-> Head(up).seq]
  <2>3. a \in [id : Nat, name : Names, seq : Nat]
    BY <2>1, <2>2
  <2>4. assigned' = assigned \cup {a} /\ served' = served \cup {NewId}
    BY <1>28 DEF Grant
  <2>5. IsFiniteSet(assigned')
    BY <2>4, FS_AddElement DEF TypeOK
  <2> HIDE DEF a
  <2> QED
    BY <1>28, <2>2, <2>3, <2>4, <2>5 DEF Grant, clientVars, TypeOK
<1>29. CASE RegisterReply
  <2>1. Head(up).seq \in Nat /\ up' \in Seq(RequestType)
    BY <1>24, <1>29 DEF RegisterReply, Handles, RequestType
  <2>2. \A a \in assigned : a.id \in Nat
    BY DEF TypeOK
  <2>3. \E t \in {"ok", "refused"}, m \in Nat : Reply(Frame(t, Head(up).seq, m))
    BY <1>29, <2>2 DEF RegisterReply, Grants
  <2>4. down' \in Seq(FrameType)
    BY <1>23, <1>25, <2>1, <2>3 DEF Types
  <2>5. served' \subseteq served
    BY <1>29 DEF RegisterReply
  <2> QED
    BY <1>29, <2>1, <2>4, <2>5 DEF RegisterReply, clientVars, TypeOK, FrameType, RequestType
<1>30. CASE UnregisterReply
  <2>1. Head(up).seq \in Nat /\ Head(up).id \in Nat /\ up' \in Seq(RequestType)
    BY <1>24, <1>30 DEF UnregisterReply, Handles, RequestType
  <2>2. \E t \in {"ok", "refused"}, m \in Nat : Reply(Frame(t, Head(up).seq, m))
    BY <1>30, <2>1 DEF UnregisterReply
  <2>3. down' \in Seq(FrameType)
    BY <1>23, <1>25, <2>1, <2>2 DEF Types
  <2>4. served' \subseteq served
    BY <1>30 DEF UnregisterReply
  <2> QED
    BY <1>30, <2>1, <2>3, <2>4 DEF UnregisterReply, clientVars, TypeOK, FrameType, RequestType
<1>31. ASSUME NEW o \in Opens, NEW a \in assigned, ServerOpens(o, a.id) PROVE TypeOK'
  <2>1. a.id \in Nat /\ o \in Nat
    BY DEF TypeOK, Opens
  <2>2. down' \in Seq(FrameType)
    BY <1>23, <1>25, <1>31, <2>1 DEF ServerOpens, Types
  <2>3. data' \in [Opens -> DataType]
    BY <1>31, <2>1 DEF ServerOpens, TypeOK
  <2> QED
    BY <1>31, <2>2, <2>3 DEF ServerOpens, clientVars, TypeOK, FrameType
<1>32. ASSUME NEW type \in {"fatal", "shutdown"}, ServerEnds(type) PROVE TypeOK'
  <2>1. down' \in Seq(FrameType)
    BY <1>23, <1>25, <1>32 DEF ServerEnds, Types
  <2> QED
    BY <1>0, <1>32, <2>1 DEF ServerEnds, clientVars, TypeOK, FrameType, RequestType
<1>33. CASE Breaks
  <2>1. down' \in Seq(FrameType)
    BY <1>0, <1>33 DEF Breaks
  <2> QED
    BY <1>0, <1>33, <2>1 DEF Breaks, clientVars, TypeOK, FrameType, RequestType
<1> QED
  BY <1>1, <1>2, <1>3, <1>4, <1>5, <1>6, <1>8, <1>9, <1>10, <1>12, <1>13, <1>14, <1>16,
     <1>17, <1>18, <1>19, <1>20, <1>21, <1>22, <1>26, <1>27, <1>28, <1>29, <1>30, <1>31,
     <1>32, <1>33
     DEF Next, CallStep, ReadStep, ServerStep

-----------------------------------------------------------------------------
\* The heartbeat.

LEMMA ClientBeat == TypeOK /\ BeatOK /\ [Next]_vars => BeatOK'
<1> SUFFICES ASSUME TypeOK, BeatOK, [Next]_vars PROVE BeatOK'
  OBVIOUS
<1> USE Bounds DEF runVars, callVars, beatVars, serverVars, vars
<1>0. missed \in 0..MissThreshold + 1 /\ quiet \in 0..MissThreshold + 1
  BY DEF TypeOK
\* outside Dial, Ping, Count and ReadPong the two counts do not change
<1>1. ASSUME UNCHANGED beatVars,
             pc' = pc \/ pc' \in {"backoff", "stopped", "top", "dial", "handshake"}
             \/ (quiet = 0 /\ pc' \notin {"count"})
      PROVE  BeatOK'
  BY <1>0, <1>1 DEF BeatOK, NeverUndercounts
<1>2. CASE UNCHANGED vars
  BY <1>1, <1>2
<1>3. CASE Top \/ Backoff \/ Cancel \/ Connect \/ DialFails
  <2>1. UNCHANGED beatVars /\ pc' \in {pc, "backoff", "stopped", "top", "dial", "handshake"}
    BY <1>3 DEF Top, Backoff, Cancel, Connect, DialFails, Outcome
  <2> QED
    BY <1>1, <2>1
<1>4. CASE Dial
  BY <1>4 DEF Dial, BeatOK, NeverUndercounts
<1>5. CASE SendHello \/ ReadHello \/ Setup \/ RegisterNext
  <2>1. quiet = 0 /\ UNCHANGED beatVars
    BY <1>5 DEF SendHello, ReadHello, Setup, RegisterNext, BeatOK
  <2>2. pc' # "count"
    BY <1>5 DEF SendHello, ReadHello, Setup, RegisterNext, EndSession, Outcome
  <2> QED
    BY <1>1, <2>1, <2>2
<1>6. CASE Ping
  <2>1. missed >= quiet /\ missed' = missed /\ pc' = "count"
    BY <1>6 DEF Ping, BeatOK, NeverUndercounts
  <2>2. quiet' <= quiet + 1
    BY <1>0, <1>6 DEF Ping
  <2>3. quiet' \in Nat
    BY <1>0, <1>6 DEF Ping
  <2> QED
    BY <1>0, <2>1, <2>2, <2>3 DEF BeatOK, NeverUndercounts
<1>7. CASE Count
  <2>1. missed + 1 >= quiet /\ quiet' = quiet /\ pc' \in {"loop", "backoff", "stopped"}
    BY <1>7 DEF Count, BeatOK, EndSession, Outcome
  <2>2. missed' >= quiet
    BY <1>0, <1>7, <2>1 DEF Count
  <2> QED
    BY <2>1, <2>2 DEF BeatOK, NeverUndercounts
<1>8. CASE PingFails \/ LoopCancelled \/ LoopReadErr
  <2>1. UNCHANGED beatVars /\ pc' \in {"backoff", "stopped"}
    BY <1>8 DEF PingFails, LoopCancelled, LoopReadErr, EndSession, Outcome
  <2> QED
    BY <1>1, <2>1
<1>9. CASE ReadPong
  BY <1>9 DEF ReadPong, BeatOK, NeverUndercounts
<1>10. CASE \/ \E c \in Commands, n \in Names : Start(c, n)
            \/ \E c \in Commands, t \in Known(gen) : Stop(c, t)
            \/ \E c \in Callers : CallStep(c)
            \/ ReadReply \/ ReadOpen \/ ReadEnds
            \/ \E o \in Opens : DataStep(o) \/ SpliceEnds(o)
            \/ ServerStep
            \/ \E o \in Opens, a \in assigned : ServerOpens(o, a.id)
            \/ \E type \in {"fatal", "shutdown"} : ServerEnds(type)
            \/ Breaks
  <2>1. UNCHANGED <<pc, beatVars>>
    BY <1>10 DEF Start, Stop, CallStep, Send, Timeout, Return, ReadReply, ReadOpen, ReadEnds,
                 DataStep, LookupTunnel, OpenData, SpliceEnds, ServerStep, Admit, Pong, Grant,
                 RegisterReply, UnregisterReply, ServerOpens, ServerEnds, Breaks, clientVars
  <2> QED
    BY <1>1, <2>1
<1> QED
  BY <1>2, <1>3, <1>4, <1>5, <1>6, <1>7, <1>8, <1>9, <1>10 DEF Next, ReadStep

-----------------------------------------------------------------------------
\* Calls and frames.  Most steps touch neither the calls nor what the server
\* has granted: they move frames, and add or take none that belongs to a call.
\* f and g say where a frame was before.
UpMap(f) ==
    /\ \A i \in 1..Len(up') : up'[i].type = "call" => f[i] \in 1..Len(up) /\ up'[i] = up[f[i]]
    /\ \A i, j \in 1..Len(up') :
          up'[i].type = "call" /\ up'[j].type = "call" /\ f[i] = f[j] => i = j
DownMap(g) ==
    /\ \A i \in 1..Len(down') : down'[i].type \in {"ok", "refused"} =>
          g[i] \in 1..Len(down) /\ down'[i] = down[g[i]]
    /\ \A i, j \in 1..Len(down') :
          /\ down'[i].type \in {"ok", "refused"} /\ down'[j].type \in {"ok", "refused"}
          /\ g[i] = g[j]
          => i = j
UpMoves ==
    /\ \E f : UpMap(f)
    /\ conn' = "up" => \A i \in 1..Len(up) : IsCall(i) => \E j \in 1..Len(up') : up'[j] = up[i]
DownMoves ==
    /\ \E g : DownMap(g)
    /\ conn' = "up" =>
          \A i \in 1..Len(down) : IsReply(i) => \E j \in 1..Len(down') : down'[j] = down[i]

LEMMA CoreMoved ==
    ASSUME TypeOK, CoreInv, UNCHANGED <<local, callVars, serverVars>>, UpMoves, DownMoves,
           gen > 0 => gen' > 0, conn' = "up" => conn = "up"
    PROVE  CoreInv'
<1> USE DEF callVars, serverVars
<1>f. PICK f : UpMap(f)
  BY DEF UpMoves
<1>g. PICK g : DownMap(g)
  BY DEF DownMoves
<1>0. /\ \A i \in 1..Len(up') : IsCall(i)' =>
            f[i] \in 1..Len(up) /\ up'[i] = up[f[i]] /\ IsCall(f[i])
      /\ \A i \in 1..Len(down') : IsReply(i)' =>
            g[i] \in 1..Len(down) /\ down'[i] = down[g[i]] /\ IsReply(g[i])
  BY <1>f, <1>g DEF UpMap, DownMap, IsCall, IsReply
<1>1. CallsOK' /\ EntryIsGranted' /\ WaiterIsPending'
  BY DEF CoreInv, CallsOK, EntryIsGranted, WaiterIsPending
<1>2. RequestsOK'
  <2>1. ASSUME NEW i \in 1..Len(up'), IsCall(i)'
        PROVE  /\ up'[i].seq \in 1..seq
               /\ \A c \in Callers : call[c].st # "idle" /\ call[c].seq = up'[i].seq =>
                     /\ call[c].st # "entered" /\ call[c].name = up'[i].name
                     /\ call[c].id = up'[i].id
               /\ \A j \in 1..Len(down') : IsReply(j)' => down'[j].seq # up'[i].seq
               /\ up'[i].seq \in given \/ \E r \in pending : r.seq = up'[i].seq
               /\ \A r \in pending : r.seq = up'[i].seq => r.name = up'[i].name
    <3> DEFINE k == f[i]
    <3>1. k \in 1..Len(up) /\ up'[i] = up[k] /\ IsCall(k)
      BY <1>0, <2>1
    <3>2. \A j \in 1..Len(down') : IsReply(j)' =>
             g[j] \in 1..Len(down) /\ down'[j] = down[g[j]] /\ IsReply(g[j])
      BY <1>0
    <3> HIDE DEF k
    <3> QED
      BY <3>1, <3>2 DEF CoreInv, RequestsOK
  <2>2. ASSUME NEW i \in 1..Len(up'), IsCall(i)', NEW j \in 1..Len(up'), IsCall(j)',
               up'[j].seq = up'[i].seq
        PROVE  i = j
    <3>1. f[i] = f[j]
      BY <1>0, <2>2 DEF CoreInv, RequestsOK
    <3> QED
      BY <1>f, <2>2, <3>1 DEF UpMap, IsCall
  <2> QED
    BY <2>1, <2>2 DEF RequestsOK
<1>3. RepliesOK'
  <2>1. ASSUME NEW i \in 1..Len(down'), IsReply(i)'
        PROVE  /\ down'[i].seq \in 1..seq
               /\ \A c \in Callers : call[c].st = "entered" => call[c].seq # down'[i].seq
               /\ down'[i].seq \in given \/ \E r \in pending : r.seq = down'[i].seq
               /\ \A r \in pending :
                    down'[i].type = "ok" /\ r.seq = down'[i].seq /\ r.name # NoName =>
                       [id |-> down'[i].id, name |-> r.name, seq |-> r.seq] \in assigned
    BY <1>0, <2>1 DEF CoreInv, RepliesOK
  <2>2. ASSUME NEW i \in 1..Len(down'), IsReply(i)', NEW j \in 1..Len(down'), IsReply(j)',
               down'[j].seq = down'[i].seq
        PROVE  i = j
    <3>1. g[i] = g[j]
      BY <1>0, <2>2 DEF CoreInv, RepliesOK
    <3> QED
      BY <1>g, <2>2, <3>1 DEF DownMap, IsReply
  <2> QED
    BY <2>1, <2>2 DEF RepliesOK
<1>4. AssignedOK'
  <2>1. ASSUME NEW a \in assigned, NEW i \in 1..Len(up'), IsCall(i)', up'[i].seq = a.seq
        PROVE  up'[i].name = a.name
    BY <1>0, <2>1 DEF CoreInv, AssignedOK
  <2> QED
    BY <2>1 DEF CoreInv, AssignedOK
<1>5. RetiredOK'
  BY <1>0 DEF CoreInv, RetiredOK, IsReply
<1>6. ASSUME conn' = "up", NEW id \in served
      PROVE  \E a \in assigned :
                /\ a.id = id
                /\ \/ KnownId(id)' \/ a.seq \in given
                   \/ \E i \in 1..Len(up') : up'[i].type = "call" /\ up'[i].seq = a.seq
                   \/ \E i \in 1..Len(down') : down'[i] = Frame("ok", a.seq, id)
  <2>1. PICK a \in assigned :
            /\ a.id = id
            /\ \/ KnownId(id) \/ a.seq \in given
               \/ \E i \in 1..Len(up) : up[i].type = "call" /\ up[i].seq = a.seq
               \/ \E i \in 1..Len(down) : down[i] = Frame("ok", a.seq, id)
    BY <1>6 DEF CoreInv, ServedIsKnown
  <2>2. KnownId(id) => KnownId(id)'
    BY DEF KnownId
  <2>3. ASSUME NEW i \in 1..Len(up), up[i].type = "call", up[i].seq = a.seq
        PROVE  \E j \in 1..Len(up') : up'[j].type = "call" /\ up'[j].seq = a.seq
    BY <1>6, <2>3 DEF UpMoves, IsCall
  <2>4. ASSUME NEW i \in 1..Len(down), down[i] = Frame("ok", a.seq, id)
        PROVE  \E j \in 1..Len(down') : down'[j] = Frame("ok", a.seq, id)
    <3>1. IsReply(i)
      BY <2>4 DEF IsReply, Frame
    <3> QED
      BY <1>6, <2>4, <3>1 DEF DownMoves
  <2> QED
    BY <2>1, <2>2, <2>3, <2>4
<1>7. ServedIsKnown'
  BY <1>6 DEF ServedIsKnown, Frame
<1> QED
  BY <1>1, <1>2, <1>3, <1>4, <1>5, <1>7 DEF CoreInv

\* The frames stay, are lost with the connection, or one that is no call and no
\* reply is added or taken.
UpSteps ==
    \/ UNCHANGED up
    \/ up' = <<>> /\ conn' # "up"
    \/ \E r \in RequestType : r.type # "call" /\ up' = Append(up, r)
    \/ up # <<>> /\ Head(up).type # "call" /\ up' = Tail(up)
DownSteps ==
    \/ UNCHANGED down
    \/ down' = <<>> /\ conn' # "up"
    \/ \E f \in FrameType : f.type \notin {"ok", "refused"} /\ down' = Append(down, f)
    \/ down # <<>> /\ Head(down).type \notin {"ok", "refused"} /\ down' = Tail(down)

LEMMA UpMoved ==
    ASSUME TypeOK, UpSteps
    PROVE  UpMoves
<1>0. up \in Seq(RequestType)
  BY DEF TypeOK, RequestType
<1> DEFINE same == [i \in Nat |-> i]
           next == [i \in Nat |-> i + 1]
<1>1. (\A i \in Nat : same[i] = i) /\ (\A i \in Nat : next[i] = i + 1)
  OBVIOUS
<1> HIDE DEF same, next
<1>2. CASE UNCHANGED up
  <2>1. UpMap(same)
    <3>1. Len(up) \in Nat /\ up' = up
      BY <1>0, <1>2, LenProperties
    <3>2. \A i \in 1..Len(up') : same[i] = i
      BY <1>1, <3>1
    <3> QED
      BY <3>1, <3>2 DEF UpMap
  <2> QED
    BY <1>2, <2>1 DEF UpMoves
<1>3. CASE up' = <<>> /\ conn' # "up"
  <2>1. Len(up') = 0
    BY <1>3
  <2>2. UpMap(same)
    BY <2>1 DEF UpMap
  <2> QED
    BY <1>3, <2>2 DEF UpMoves
<1>4. CASE \E r \in RequestType : r.type # "call" /\ up' = Append(up, r)
  <2>1. PICK r \in RequestType : r.type # "call" /\ up' = Append(up, r)
    BY <1>4
  <2>2. /\ Len(up) \in Nat /\ Len(up') = Len(up) + 1
        /\ \A i \in 1..Len(up) : up'[i] = up[i]
        /\ up'[Len(up) + 1] = r
    BY <1>0, <2>1, Added
  <2>n. r.type # "call"
    BY <2>1
  <2>3. UpMap(same)
    <3>1. \A i \in 1..Len(up') : up'[i].type = "call" => i \in 1..Len(up)
      BY <2>2, <2>n
    <3>2. \A i \in 1..Len(up') : same[i] = i
      BY <1>1, <2>2
    <3> QED
      BY <2>2, <3>1, <3>2 DEF UpMap
  <2> QED
    BY <2>2, <2>3 DEF UpMoves
<1>5. CASE up # <<>> /\ Head(up).type # "call" /\ up' = Tail(up)
  <2>2. /\ Head(up) = up[1] /\ Len(up) \in Nat /\ Len(up) >= 1 /\ Len(up') = Len(up) - 1
        /\ \A i \in 1..Len(up') : up'[i] = up[i + 1]
    BY <1>0, <1>5, Taken
  <2>n. up[1].type # "call"
    BY <1>5, <2>2
  <2>3. UpMap(next)
    <3>1. \A i \in 1..Len(up') : i \in Nat /\ i + 1 \in 1..Len(up)
      BY <2>2
    <3>2. \A i \in 1..Len(up') : next[i] = i + 1
      BY <1>1, <3>1
    <3> QED
      BY <2>2, <3>1, <3>2 DEF UpMap
  <2>4. ASSUME NEW i \in 1..Len(up), IsCall(i) PROVE \E j \in 1..Len(up') : up'[j] = up[i]
    <3>1. i - 1 \in 1..Len(up') /\ up'[i - 1] = up[i]
      BY <2>2, <2>4, <2>n DEF IsCall
    <3> QED
      BY <3>1
  <2> QED
    BY <2>3, <2>4 DEF UpMoves
<1> QED
  BY <1>2, <1>3, <1>4, <1>5 DEF UpSteps

LEMMA DownMoved ==
    ASSUME TypeOK, DownSteps
    PROVE  DownMoves
<1>0. down \in Seq(FrameType)
  BY DEF TypeOK, FrameType
<1> DEFINE same == [i \in Nat |-> i]
           next == [i \in Nat |-> i + 1]
<1>1. (\A i \in Nat : same[i] = i) /\ (\A i \in Nat : next[i] = i + 1)
  OBVIOUS
<1> HIDE DEF same, next
<1>2. CASE UNCHANGED down
  <2>1. DownMap(same)
    <3>1. Len(down) \in Nat /\ down' = down
      BY <1>0, <1>2, LenProperties
    <3>2. \A i \in 1..Len(down') : same[i] = i
      BY <1>1, <3>1
    <3> QED
      BY <3>1, <3>2 DEF DownMap
  <2> QED
    BY <1>2, <2>1 DEF DownMoves
<1>3. CASE down' = <<>> /\ conn' # "up"
  <2>1. Len(down') = 0
    BY <1>3
  <2>2. DownMap(same)
    BY <2>1 DEF DownMap
  <2> QED
    BY <1>3, <2>2 DEF DownMoves
<1>4. CASE \E f \in FrameType : f.type \notin {"ok", "refused"} /\ down' = Append(down, f)
  <2>1. PICK f \in FrameType : f.type \notin {"ok", "refused"} /\ down' = Append(down, f)
    BY <1>4
  <2>2. /\ Len(down) \in Nat /\ Len(down') = Len(down) + 1
        /\ \A i \in 1..Len(down) : down'[i] = down[i]
        /\ down'[Len(down) + 1] = f
    BY <1>0, <2>1, Added
  <2>n. f.type \notin {"ok", "refused"}
    BY <2>1
  <2>3. DownMap(same)
    <3>1. \A i \in 1..Len(down') : down'[i].type \in {"ok", "refused"} => i \in 1..Len(down)
      BY <2>2, <2>n
    <3>2. \A i \in 1..Len(down') : same[i] = i
      BY <1>1, <2>2
    <3> QED
      BY <2>2, <3>1, <3>2 DEF DownMap
  <2> QED
    BY <2>2, <2>3 DEF DownMoves
<1>5. CASE down # <<>> /\ Head(down).type \notin {"ok", "refused"} /\ down' = Tail(down)
  <2>2. /\ Head(down) = down[1] /\ Len(down) \in Nat /\ Len(down) >= 1
        /\ Len(down') = Len(down) - 1 /\ \A i \in 1..Len(down') : down'[i] = down[i + 1]
    BY <1>0, <1>5, Taken
  <2>n. down[1].type \notin {"ok", "refused"}
    BY <1>5, <2>2
  <2>3. DownMap(next)
    <3>1. \A i \in 1..Len(down') : i \in Nat /\ i + 1 \in 1..Len(down)
      BY <2>2
    <3>2. \A i \in 1..Len(down') : next[i] = i + 1
      BY <1>1, <3>1
    <3> QED
      BY <2>2, <3>1, <3>2 DEF DownMap
  <2>4. ASSUME NEW i \in 1..Len(down), IsReply(i)
        PROVE  \E j \in 1..Len(down') : down'[j] = down[i]
    <3>1. i - 1 \in 1..Len(down') /\ down'[i - 1] = down[i]
      BY <2>2, <2>4, <2>n DEF IsReply
    <3> QED
      BY <3>1
  <2> QED
    BY <2>3, <2>4 DEF DownMoves
<1> QED
  BY <1>2, <1>3, <1>4, <1>5 DEF DownSteps

-----------------------------------------------------------------------------
\* A new connection: no frame is left and nobody waits.
LEMMA CoreDialled ==
    ASSUME TypeOK, CoreInv, up' = <<>>, down' = <<>>, UNCHANGED <<local, gen, seq, call, assigned>>,
           served' = {}, pending' = {}, given' = given \cup {r.seq : r \in pending}
    PROVE  CoreInv'
<1>0. Len(up') = 0 /\ Len(down') = 0
  OBVIOUS
<1>1. CallsOK' /\ AssignedOK' /\ EntryIsGranted'
  BY <1>0 DEF CoreInv, CallsOK, AssignedOK, EntryIsGranted
<1>2. RequestsOK' /\ RepliesOK' /\ RetiredOK' /\ ServedIsKnown'
  BY <1>0 DEF CoreInv, RequestsOK, RepliesOK, RetiredOK, ServedIsKnown
<1>3. WaiterIsPending'
  BY DEF CoreInv, WaiterIsPending
<1> QED
  BY <1>1, <1>2, <1>3 DEF CoreInv

\* A call is entered, for a tunnel that is to be registered or unregistered.
LEMMA CoreEntered ==
    ASSUME TypeOK, CoreInv, NEW c \in Callers, call[c].st = "idle", gen > 0,
           NEW n \in Names \cup {NoName}, NEW id \in Nat,
           n = NoName => id \in 1..Cardinality(assigned),
           seq' = seq + 1, pending' = pending \cup {[seq |-> seq + 1, name |-> n]},
           call' = [call EXCEPT ![c] = [st |-> "entered", name |-> n, seq |-> seq + 1,
                                        id |-> id, ok |-> FALSE]],
           UNCHANGED <<given, gen, local, up, down, conn, serverVars>>
    PROVE  CoreInv'
<1> USE DEF serverVars
<1>0. /\ seq \in Nat /\ call \in [Callers -> Call] /\ call'[c].st = "entered"
      /\ call'[c].seq = seq + 1 /\ call'[c].name = n /\ call'[c].id = id
      /\ \A e \in Callers \ {c} : call'[e] = call[e]
  BY DEF TypeOK
<1>1. CallsOK'
  BY <1>0 DEF CoreInv, CallsOK
<1>2. EntryIsGranted' /\ AssignedOK'
  BY <1>0 DEF CoreInv, AssignedOK, EntryIsGranted, IsCall
<1>3. RequestsOK' /\ RepliesOK'
  <2>1. RequestsOK'
    BY <1>0 DEF CoreInv, RequestsOK, IsCall, IsReply
  <2>2. RepliesOK'
    BY <1>0 DEF CoreInv, RepliesOK, IsReply
  <2> QED
    BY <2>1, <2>2
<1>4. RetiredOK'
  BY <1>0 DEF CoreInv, RetiredOK
<1>5. ServedIsKnown'
  BY DEF CoreInv, ServedIsKnown, KnownId, Frame
<1>6. WaiterIsPending'
  <2>1. \E r \in pending' : r.seq = call'[c].seq
    <3> DEFINE new == [seq |-> seq + 1, name |-> n]
    <3>1. new \in pending' /\ new.seq = seq + 1
      OBVIOUS
    <3> HIDE DEF new
    <3> QED
      BY <1>0, <3>1
  <2>2. pending \subseteq pending' /\ given' = given
    OBVIOUS
  <2> QED
    BY <1>0, <2>1, <2>2 DEF CoreInv, WaiterIsPending
<1> QED
  BY <1>1, <1>2, <1>3, <1>4, <1>5, <1>6 DEF CoreInv

\* A call is given up: its reply will find nobody.
LEMMA CoreGivenUp ==
    ASSUME TypeOK, CoreInv, NEW c \in Callers, call[c].st # "idle", GiveUp(c),
           UNCHANGED <<seq, gen, local, up, down, conn, serverVars>>
    PROVE  CoreInv'
<1> USE DEF serverVars
<1>0. /\ call \in [Callers -> Call] /\ call'[c] = NoCall
      /\ \A e \in Callers \ {c} : call'[e] = call[e]
      /\ pending' = {r \in pending : r.seq # call[c].seq} /\ given' = given \cup {call[c].seq}
  BY DEF TypeOK, GiveUp
<1>1. CallsOK'
  BY <1>0 DEF CoreInv, CallsOK, NoCall
<1>2. AssignedOK' /\ EntryIsGranted'
  BY <1>0 DEF CoreInv, AssignedOK, EntryIsGranted, NoCall, IsCall
<1>3. RequestsOK'
  BY <1>0 DEF CoreInv, RequestsOK, IsCall, IsReply, NoCall
<1>4. RepliesOK'
  BY <1>0 DEF CoreInv, RepliesOK, IsReply, NoCall
<1>5. RetiredOK'
  BY <1>0 DEF CoreInv, RetiredOK, NoCall
<1>6. ServedIsKnown'
  BY <1>0 DEF CoreInv, ServedIsKnown, KnownId, Frame
<1>7. WaiterIsPending'
  BY <1>0 DEF CoreInv, WaiterIsPending, CallsOK, NoCall
<1> QED
  BY <1>1, <1>2, <1>3, <1>4, <1>5, <1>6, <1>7 DEF CoreInv

\* A call is written, on a connection that takes it or on one that is lost.
LEMMA CoreSent ==
    ASSUME TypeOK, CoreInv, NEW c \in Callers, call[c].st = "entered",
           call' = [call EXCEPT ![c].st = "wait"],
           UNCHANGED <<seq, pending, given, gen, local, down, conn, serverVars>>,
           Write(Request("call", call[c]))
    PROVE  CoreInv'
<1> USE DEF serverVars
<1> DEFINE r == Request("call", call[c])
<1>0. /\ call \in [Callers -> Call] /\ call[c].seq \in Nat /\ r \in RequestType
      /\ call'[c].st = "wait" /\ call'[c].seq = call[c].seq /\ call'[c].name = call[c].name
      /\ call'[c].id = call[c].id /\ call'[c].ok = call[c].ok
      /\ \A e \in Callers \ {c} : call'[e] = call[e]
      /\ r.type = "call" /\ r.seq = call[c].seq /\ r.name = call[c].name /\ r.id = call[c].id
  BY DEF TypeOK, Call, Request, RequestType
<1> HIDE DEF r
\* the call alone
<1>1. /\ CallsOK' /\ EntryIsGranted' /\ WaiterIsPending'
  <2>1. CallsOK'
    BY <1>0 DEF CoreInv, CallsOK
  <2>2. EntryIsGranted'
    BY DEF CoreInv, EntryIsGranted
  <2>3. WaiterIsPending'
    BY <1>0 DEF CoreInv, WaiterIsPending
  <2> QED
    BY <2>1, <2>2, <2>3
\* neither it nor its reply is on its way, and nothing was granted for it
<1>2. /\ \A i \in 1..Len(up) : IsCall(i) => up[i].seq # call[c].seq
      /\ \A i \in 1..Len(down) : IsReply(i) => down[i].seq # call[c].seq
      /\ \A a \in assigned : a.seq # call[c].seq
  BY DEF CoreInv, RequestsOK, RepliesOK, AssignedOK
<1>3. RepliesOK'
  BY <1>0 DEF CoreInv, RepliesOK, IsReply
<1>4. RetiredOK'
  BY <1>0, <1>2 DEF CoreInv, RetiredOK, IsReply
<1>5. /\ call[c].seq \in 1..seq
      /\ \A e \in Callers : call[e].st # "idle" /\ call[e].seq = call[c].seq => e = c
      /\ \A w \in pending : w.seq = call[c].seq => w.name = call[c].name
      /\ call[c].seq \in given \/ \E w \in pending : w.seq = call[c].seq
  BY DEF CoreInv, CallsOK, WaiterIsPending
<1>6. CASE up' = up
  <2>1. RequestsOK'
    BY <1>0, <1>2, <1>6 DEF CoreInv, RequestsOK, IsCall, IsReply
  <2>2. AssignedOK'
    BY <1>0, <1>6 DEF CoreInv, AssignedOK, IsCall
  <2>3. ServedIsKnown'
    BY <1>6 DEF CoreInv, ServedIsKnown, KnownId, Frame
  <2> QED
    BY <1>1, <1>3, <1>4, <2>1, <2>2, <2>3 DEF CoreInv
<1>7. CASE up' = Append(up, r)
  <2>0. /\ Len(up) \in Nat /\ Len(up') = Len(up) + 1 /\ up'[Len(up) + 1] = r
        /\ \A i \in 1..Len(up) : up'[i] = up[i]
    BY <1>0, <1>7, Added DEF TypeOK, RequestType
  <2>1. ASSUME NEW i \in 1..Len(up'), IsCall(i)'
        PROVE  /\ up'[i].seq \in 1..seq
               /\ \A e \in Callers : call'[e].st # "idle" /\ call'[e].seq = up'[i].seq =>
                     /\ call'[e].st # "entered" /\ call'[e].name = up'[i].name
                     /\ call'[e].id = up'[i].id
               /\ \A j \in 1..Len(down) : IsReply(j) => down[j].seq # up'[i].seq
               /\ up'[i].seq \in given \/ \E w \in pending : w.seq = up'[i].seq
               /\ \A w \in pending : w.seq = up'[i].seq => w.name = up'[i].name
    <3>1. CASE i = Len(up) + 1
      BY <1>0, <1>2, <1>5, <2>0, <3>1
    <3>2. CASE i \in 1..Len(up)
      <4>1. IsCall(i) /\ up'[i] = up[i] /\ up[i].seq # call[c].seq
        BY <1>2, <2>0, <2>1, <3>2 DEF IsCall
      <4> QED
        BY <1>0, <3>2, <4>1 DEF CoreInv, RequestsOK
    <3> QED
      BY <2>0, <3>1, <3>2
  <2>2. ASSUME NEW i \in 1..Len(up'), IsCall(i)', NEW j \in 1..Len(up'), IsCall(j)',
               up'[j].seq = up'[i].seq
        PROVE  i = j
    <3>1. \A k \in 1..Len(up) : IsCall(k)' => IsCall(k) /\ up'[k] = up[k] /\ up[k].seq # r.seq
      BY <1>0, <1>2, <2>0 DEF IsCall
    <3>2. CASE i \in 1..Len(up) /\ j \in 1..Len(up)
      BY <2>2, <3>1, <3>2 DEF CoreInv, RequestsOK
    <3>3. CASE i = Len(up) + 1 \/ j = Len(up) + 1
      BY <2>0, <2>2, <3>1, <3>3
    <3> QED
      BY <2>0, <3>2, <3>3
  <2>3. RequestsOK'
    BY <2>1, <2>2 DEF RequestsOK, IsReply
  <2>4. AssignedOK'
    <3>1. ASSUME NEW a \in assigned, NEW i \in 1..Len(up'), IsCall(i)', up'[i].seq = a.seq
          PROVE  up'[i].name = a.name
      <4>1. i \in 1..Len(up) /\ up'[i] = up[i] /\ IsCall(i)
        BY <1>0, <1>2, <2>0, <3>1 DEF IsCall
      <4> QED
        BY <3>1, <4>1 DEF CoreInv, AssignedOK
    <3>2. \A e \in Callers : call'[e].st = "entered" => call[e].st = "entered" /\ call'[e] = call[e]
      BY <1>0
    <3> QED
      BY <3>1, <3>2 DEF CoreInv, AssignedOK
  <2>5. ServedIsKnown'
    <3>1. \A i \in 1..Len(up) : i \in 1..Len(up') /\ up'[i] = up[i]
      BY <2>0
    <3> QED
      BY <3>1 DEF CoreInv, ServedIsKnown, KnownId, Frame
  <2> QED
    BY <1>1, <1>3, <1>4, <2>3, <2>4, <2>5 DEF CoreInv
<1> QED
  BY <1>6, <1>7 DEF Write, r

\* The caller takes the reply; the tunnel it has unregistered is not served.
LEMMA CoreReturned ==
    ASSUME TypeOK, CoreInv, NEW c \in Callers, Return(c)
    PROVE  CoreInv'
<1> USE DEF runVars, beatVars, serverVars
<1>0. /\ call \in [Callers -> Call] /\ call[c].st = "replied" /\ call'[c] = NoCall
      /\ \A e \in Callers \ {c} : call'[e] = call[e]
      /\ UNCHANGED <<seq, pending, given, gen, up, down, conn, assigned, served>>
  BY DEF TypeOK, Return
<1>1. CallsOK' /\ WaiterIsPending'
  BY <1>0 DEF CoreInv, CallsOK, WaiterIsPending, NoCall
<1>2. RequestsOK'
  BY <1>0 DEF CoreInv, RequestsOK, IsCall, IsReply, NoCall
<1>3. RepliesOK' /\ AssignedOK'
  BY <1>0 DEF CoreInv, RepliesOK, AssignedOK, IsCall, IsReply, NoCall
<1>4. RetiredOK'
  BY <1>0 DEF CoreInv, RetiredOK, NoCall
<1>5. \A g \in Sessions : /\ local'[g] \subseteq local[g]
                          /\ \A t \in local[g] : t \in local'[g] \/ t.id \notin served
  <2>1. CASE call[c].name = NoName /\ call[c].ok
    <3>1. local' = [local EXCEPT ![gen] = {t \in @ : t.id # call[c].id}]
      BY <2>1 DEF Return
    <3>2. call[c].id \notin served
      BY <1>0, <2>1 DEF CoreInv, RetiredOK
    <3> QED
      BY <3>1, <3>2 DEF TypeOK
  <2>2. CASE ~(call[c].name = NoName /\ call[c].ok)
    BY <2>2 DEF Return
  <2> QED
    BY <2>1, <2>2
<1>6. EntryIsGranted'
  BY <1>0, <1>5 DEF CoreInv, EntryIsGranted
<1>7. ServedIsKnown'
  <2>1. \A id \in served : KnownId(id) => KnownId(id)'
    BY <1>5 DEF KnownId
  <2> QED
    BY <1>0, <2>1 DEF CoreInv, ServedIsKnown, Frame
<1> QED
  BY <1>1, <1>2, <1>3, <1>4, <1>6, <1>7 DEF CoreInv

-----------------------------------------------------------------------------
\* The server grants a tunnel, under a new id, before it answers.
LEMMA CoreGranted ==
    ASSUME TypeOK, CoreInv, Grant
    PROVE  CoreInv'
<1> DEFINE r == Head(up)
           a0 == [id |-> NewId, name |-> r.name, seq |-> r.seq]
           N == Cardinality(assigned)
<1>0. /\ UNCHANGED <<seq, pending, call, given, gen, local, conn, up, down>>
      /\ up # <<>> /\ r.type = "call" /\ r.name # NoName
      /\ assigned' = assigned \cup {a0} /\ served' = served \cup {NewId}
      /\ \A a \in assigned : a.seq # r.seq
  BY DEF Grant, Handles, Grants, clientVars, callVars
<1>1. /\ r = up[1] /\ Len(up) \in Nat /\ Len(up) >= 1 /\ r \in RequestType /\ IsCall(1)
  <2>1. up \in Seq(RequestType)
    BY DEF TypeOK, RequestType
  <2>2. r = up[1] /\ Len(up) \in Nat /\ Len(up) >= 1 /\ r \in RequestType
    BY <1>0, <2>1, Taken
  <2> QED
    BY <1>0, <2>2 DEF IsCall
<1>2. N \in Nat /\ NewId = N + 1
  BY FS_CardinalityType DEF NewId, TypeOK
<1>3. a0 \notin assigned /\ a0.id = NewId /\ a0.seq = r.seq /\ a0.name = r.name
  BY <1>0
<1>4. Cardinality(assigned') = N + 1
  BY <1>0, <1>3, FS_AddElement DEF TypeOK
<1> HIDE DEF r, a0, N
<1>5. /\ r.seq \in 1..seq
      /\ \A c \in Callers : call[c].st # "idle" /\ call[c].seq = r.seq =>
            call[c].st # "entered" /\ call[c].name = r.name /\ call[c].id = r.id
      /\ \A j \in 1..Len(up) : IsCall(j) /\ up[j].seq = r.seq => 1 = j
      /\ \A w \in pending : w.seq = r.seq => w.name = r.name
  <2>1. 1 \in 1..Len(up)
    BY <1>1
  <2> QED
    BY <1>1, <2>1 DEF CoreInv, RequestsOK
<1>6. \A c \in Callers : call[c].seq = r.seq => call[c].st # "entered"
  BY <1>5
<1>7. CallsOK'
  BY <1>0, <1>2, <1>4 DEF CoreInv, CallsOK, N
<1>8. RequestsOK' /\ RepliesOK' /\ WaiterIsPending'
  BY <1>0 DEF CoreInv, RequestsOK, RepliesOK, WaiterIsPending, IsCall, IsReply
<1>9. AssignedOK'
  <2>1. ASSUME NEW a \in assigned
        PROVE  /\ a.id \in 1..(N + 1) /\ a.seq \in 1..seq
               /\ \A b \in assigned' : b.seq = a.seq => b = a
               /\ \A c \in Callers : call[c].st = "entered" => call[c].seq # a.seq
               /\ \A i \in 1..Len(up) : IsCall(i) /\ up[i].seq = a.seq => up[i].name = a.name
               /\ \A w \in pending : w.seq = a.seq => w.name = a.name
    BY <1>0, <1>2, <1>3 DEF CoreInv, AssignedOK, N
  <2>2. /\ a0.id \in 1..(N + 1) /\ a0.seq \in 1..seq
        /\ \A b \in assigned' : b.seq = a0.seq => b = a0
        /\ \A c \in Callers : call[c].st = "entered" => call[c].seq # a0.seq
        /\ \A i \in 1..Len(up) : IsCall(i) /\ up[i].seq = a0.seq => up[i].name = a0.name
        /\ \A w \in pending : w.seq = a0.seq => w.name = a0.name
    BY <1>0, <1>1, <1>2, <1>3, <1>5, <1>6
  <2>3. served' \subseteq 1..(N + 1)
    <3>1. served \subseteq 1..N
      BY DEF CoreInv, AssignedOK, N
    <3>2. 1..N \subseteq 1..(N + 1) /\ N + 1 \in 1..(N + 1)
      BY <1>2
    <3> QED
      BY <1>0, <1>2, <3>1, <3>2
  <2>4. \A a \in assigned' : a \in assigned \/ a = a0
    BY <1>0
  <2>5. ASSUME NEW a \in assigned'
        PROVE  /\ a.id \in 1..(N + 1) /\ a.seq \in 1..seq
               /\ \A b \in assigned' : b.seq = a.seq => b = a
               /\ \A c \in Callers : call[c].st = "entered" => call[c].seq # a.seq
               /\ \A i \in 1..Len(up) : IsCall(i) /\ up[i].seq = a.seq => up[i].name = a.name
               /\ \A w \in pending : w.seq = a.seq => w.name = a.name
    BY <2>1, <2>2, <2>4
  <2> QED
    BY <1>0, <1>4, <2>3, <2>5 DEF AssignedOK, IsCall
<1>10. RetiredOK'
  <2>1. \A c \in Callers : call[c].st # "idle" /\ call[c].name = NoName => call[c].id # NewId
    BY <1>2 DEF CoreInv, CallsOK, N
  <2> QED
    BY <1>0, <2>1 DEF CoreInv, RetiredOK
<1>11. EntryIsGranted'
  BY <1>0 DEF CoreInv, EntryIsGranted
<1>12. ServedIsKnown'
  <2>1. ASSUME conn = "up", NEW id \in served
        PROVE  \E a \in assigned' :
                  /\ a.id = id
                  /\ \/ KnownId(id)' \/ a.seq \in given
                     \/ \E i \in 1..Len(up) : up[i].type = "call" /\ up[i].seq = a.seq
                     \/ \E i \in 1..Len(down) : down[i] = Frame("ok", a.seq, id)
    BY <1>0, <2>1 DEF CoreInv, ServedIsKnown, KnownId
  <2>2. /\ a0 \in assigned' /\ a0.id = NewId
        /\ \E i \in 1..Len(up) : up[i].type = "call" /\ up[i].seq = a0.seq
    BY <1>0, <1>1, <1>3
  <2> QED
    BY <1>0, <2>1, <2>2 DEF ServedIsKnown, Frame
<1> QED
  BY <1>7, <1>8, <1>9, <1>10, <1>11, <1>12 DEF CoreInv

\* The server answers a call: its frame is gone and the reply is under way.  A
\* tunnel that is refused after all, or unregistered, is not served any more.
LEMMA CoreAnswered ==
    ASSUME TypeOK, CoreInv, up # <<>>, Head(up).type = "call", up' = Tail(up),
           NEW t \in {"ok", "refused"}, NEW m \in Nat,
           down' = Append(down, Frame(t, Head(up).seq, m)),
           UNCHANGED <<seq, pending, call, given, gen, local, conn, assigned>>,
           served' \subseteq served,
           Head(up).name # NoName /\ t = "ok" =>
              \E a \in assigned : a.seq = Head(up).seq /\ a.id = m,
           Head(up).name # NoName /\ t = "refused" =>
              \A a \in assigned : a.seq = Head(up).seq => a.id \notin served',
           Head(up).name = NoName /\ t = "ok" => Head(up).id \notin served'
    PROVE  CoreInv'
<1> DEFINE r == Head(up)
           f == Frame(t, r.seq, m)
<1>0. /\ r = up[1] /\ Len(up) \in Nat /\ Len(up) >= 1 /\ r \in RequestType /\ IsCall(1)
      /\ Len(up') = Len(up) - 1 /\ \A i \in 1..Len(up') : up'[i] = up[i + 1]
  <2>1. up \in Seq(RequestType)
    BY DEF TypeOK, RequestType
  <2>2. /\ r = up[1] /\ Len(up) \in Nat /\ Len(up) >= 1 /\ r \in RequestType
        /\ Len(up') = Len(up) - 1 /\ \A i \in 1..Len(up') : up'[i] = up[i + 1]
    BY <2>1, Taken
  <2> QED
    BY <2>2 DEF IsCall
<1>1. f \in FrameType /\ f.type = t /\ f.seq = r.seq /\ f.id = m
  BY <1>0 DEF Frame, FrameType, Types, RequestType
<1>2. /\ Len(down) \in Nat /\ Len(down') = Len(down) + 1 /\ down'[Len(down) + 1] = f
      /\ \A i \in 1..Len(down) : down'[i] = down[i]
  BY <1>1, Added DEF TypeOK, FrameType
<1>a. /\ r.name # NoName /\ t = "ok" => \E a \in assigned : a.seq = r.seq /\ a.id = m
      /\ r.name # NoName /\ t = "refused" => \A a \in assigned : a.seq = r.seq => a.id \notin served'
      /\ r.name = NoName /\ t = "ok" => r.id \notin served'
  OBVIOUS
<1> HIDE DEF r, f
\* what the invariant says of the frame that is answered
<1>3. /\ r.seq \in 1..seq
      /\ \A c \in Callers : call[c].st # "idle" /\ call[c].seq = r.seq =>
            call[c].st # "entered" /\ call[c].name = r.name /\ call[c].id = r.id
      /\ \A j \in 1..Len(up) : IsCall(j) /\ up[j].seq = r.seq => 1 = j
      /\ \A j \in 1..Len(down) : IsReply(j) => down[j].seq # r.seq
      /\ r.seq \in given \/ \E w \in pending : w.seq = r.seq
      /\ \A w \in pending : w.seq = r.seq => w.name = r.name
  <2>1. 1 \in 1..Len(up)
    BY <1>0
  <2> QED
    BY <1>0, <2>1 DEF CoreInv, RequestsOK
<1>4. \A a \in assigned : a.seq = r.seq => a.name = r.name /\ r.name # NoName
  <2>1. 1 \in 1..Len(up)
    BY <1>0
  <2>2. \A a \in assigned : a.name # NoName
    BY ClientConnAssumption DEF TypeOK
  <2> QED
    BY <1>0, <2>1, <2>2 DEF CoreInv, AssignedOK
<1>5. CallsOK' /\ EntryIsGranted' /\ WaiterIsPending'
  BY DEF CoreInv, CallsOK, EntryIsGranted, WaiterIsPending
<1>6. \A i \in 1..Len(up') : IsCall(i)' =>
        i + 1 \in 1..Len(up) /\ up'[i] = up[i + 1] /\ IsCall(i + 1) /\ up[i + 1].seq # r.seq
  <2>1. ASSUME NEW i \in 1..Len(up'), IsCall(i)'
        PROVE  i + 1 \in 1..Len(up) /\ up'[i] = up[i + 1] /\ IsCall(i + 1) /\ 1 # i + 1
    BY <1>0, <2>1 DEF IsCall
  <2> QED
    BY <1>3, <2>1
<1>7. \A i \in 1..Len(down') : IsReply(i)' =>
        \/ i = Len(down) + 1 /\ down'[i] = f
        \/ i \in 1..Len(down) /\ down'[i] = down[i] /\ IsReply(i) /\ down[i].seq # r.seq
  BY <1>2, <1>3 DEF IsReply
<1>8. RequestsOK'
  <2>1. ASSUME NEW i \in 1..Len(up'), IsCall(i)'
        PROVE  /\ up'[i].seq \in 1..seq
               /\ \A c \in Callers : call[c].st # "idle" /\ call[c].seq = up'[i].seq =>
                     /\ call[c].st # "entered" /\ call[c].name = up'[i].name
                     /\ call[c].id = up'[i].id
               /\ \A j \in 1..Len(down') : IsReply(j)' => down'[j].seq # up'[i].seq
               /\ up'[i].seq \in given \/ \E w \in pending : w.seq = up'[i].seq
               /\ \A w \in pending : w.seq = up'[i].seq => w.name = up'[i].name
    <3>1. /\ i + 1 \in 1..Len(up) /\ up'[i] = up[i + 1] /\ IsCall(i + 1) /\ up[i + 1].seq # r.seq
      BY <1>6, <2>1
    <3>2. PICK k \in 1..Len(up) : up'[i] = up[k] /\ IsCall(k) /\ up[k].seq # r.seq
      BY <3>1
    <3> QED
      BY <1>1, <1>7, <3>2 DEF CoreInv, RequestsOK
  <2>2. ASSUME NEW i \in 1..Len(up'), IsCall(i)', NEW j \in 1..Len(up'), IsCall(j)',
               up'[j].seq = up'[i].seq
        PROVE  i = j
    <3>1. i + 1 = j + 1
      BY <1>6, <2>2 DEF CoreInv, RequestsOK
    <3> QED
      BY <3>1
  <2> QED
    BY <2>1, <2>2 DEF RequestsOK
<1>9. RepliesOK'
  <2>1. ASSUME NEW i \in 1..Len(down'), IsReply(i)'
        PROVE  /\ down'[i].seq \in 1..seq
               /\ \A c \in Callers : call[c].st = "entered" => call[c].seq # down'[i].seq
               /\ down'[i].seq \in given \/ \E w \in pending : w.seq = down'[i].seq
               /\ \A w \in pending :
                    down'[i].type = "ok" /\ w.seq = down'[i].seq /\ w.name # NoName =>
                       [id |-> down'[i].id, name |-> w.name, seq |-> w.seq] \in assigned
    <3>1. CASE i \in 1..Len(down) /\ down'[i] = down[i] /\ IsReply(i)
      BY <3>1 DEF CoreInv, RepliesOK
    <3>2. CASE i = Len(down) + 1 /\ down'[i] = f
      <4>1. ASSUME NEW w \in pending, t = "ok", w.seq = r.seq, w.name # NoName
            PROVE  [id |-> m, name |-> w.name, seq |-> w.seq] \in assigned
        <5>1. w.name = r.name
          BY <1>3, <4>1
        <5>2. PICK a \in assigned : a.seq = r.seq /\ a.id = m
          BY <1>a, <4>1, <5>1
        <5>3. a.name = w.name /\ a.seq = w.seq
          BY <1>4, <4>1, <5>1, <5>2
        <5>4. a \in [id : Nat, name : Names, seq : Nat]
          BY DEF TypeOK
        <5>5. a = [id |-> m, name |-> w.name, seq |-> w.seq]
          BY <5>2, <5>3, <5>4
        <5> QED
          BY <5>2, <5>5
      <4>2. \A c \in Callers : call[c].st = "entered" => call[c].seq # r.seq
        BY <1>3
      <4> QED
        BY <1>1, <1>3, <3>2, <4>1, <4>2
    <3> QED
      BY <1>7, <2>1, <3>1, <3>2
  <2>2. ASSUME NEW i \in 1..Len(down'), IsReply(i)', NEW j \in 1..Len(down'), IsReply(j)',
               down'[j].seq = down'[i].seq
        PROVE  i = j
    BY <1>1, <1>7, <2>2 DEF CoreInv, RepliesOK
  <2> QED
    BY <2>1, <2>2 DEF RepliesOK
<1>10. AssignedOK'
  <2>1. ASSUME NEW a \in assigned, NEW i \in 1..Len(up'), IsCall(i)', up'[i].seq = a.seq
        PROVE  up'[i].name = a.name
    BY <1>6, <2>1 DEF CoreInv, AssignedOK
  <2> QED
    BY <2>1 DEF CoreInv, AssignedOK
<1>11. RetiredOK'
  <2>1. ASSUME NEW c \in Callers, call[c].name = NoName, call[c].st = "wait",
               NEW i \in 1..Len(down'), down'[i].type = "ok", down'[i].seq = call[c].seq
        PROVE  call[c].id \notin served'
    <3>0. IsReply(i)'
      BY <2>1 DEF IsReply
    <3>1. CASE i \in 1..Len(down) /\ down'[i] = down[i]
      BY <2>1, <3>1 DEF CoreInv, RetiredOK
    <3>2. CASE i = Len(down) + 1 /\ down'[i] = f
      BY <1>1, <1>3, <1>a, <2>1, <3>2
    <3> QED
      BY <1>7, <3>0, <3>1, <3>2
  <2> QED
    BY <2>1 DEF CoreInv, RetiredOK
<1>12. ASSUME conn = "up", NEW id \in served'
       PROVE  \E a \in assigned :
                 /\ a.id = id
                 /\ \/ KnownId(id)' \/ a.seq \in given
                    \/ \E i \in 1..Len(up') : up'[i].type = "call" /\ up'[i].seq = a.seq
                    \/ \E i \in 1..Len(down') : down'[i] = Frame("ok", a.seq, id)
  <2>1. PICK a \in assigned :
            /\ a.id = id
            /\ \/ KnownId(id) \/ a.seq \in given
               \/ \E i \in 1..Len(up) : up[i].type = "call" /\ up[i].seq = a.seq
               \/ \E i \in 1..Len(down) : down[i] = Frame("ok", a.seq, id)
    BY <1>12 DEF CoreInv, ServedIsKnown
  <2>2. KnownId(id) => KnownId(id)'
    BY DEF KnownId
  <2>3. ASSUME NEW i \in 1..Len(up), up[i].type = "call", up[i].seq = a.seq
        PROVE  \/ \E j \in 1..Len(up') : up'[j].type = "call" /\ up'[j].seq = a.seq
               \/ \E j \in 1..Len(down') : down'[j] = Frame("ok", a.seq, id)
    <3>1. CASE i = 1
      <4>1. a.seq = r.seq /\ r.name # NoName
        BY <1>0, <1>4, <2>3, <3>1
      <4>2. t = "ok"
        BY <1>12, <1>a, <2>1, <4>1
      <4>3. PICK b \in assigned : b.seq = r.seq /\ b.id = m
        BY <1>a, <4>1, <4>2
      <4>4. b = a
        BY <4>1, <4>3 DEF CoreInv, AssignedOK
      <4>5. down'[Len(down) + 1] = Frame("ok", a.seq, id) /\ Len(down) + 1 \in 1..Len(down')
        BY <1>2, <2>1, <4>1, <4>2, <4>3, <4>4 DEF f
      <4> QED
        BY <4>5
    <3>2. CASE i # 1
      <4>1. i - 1 \in 1..Len(up') /\ up'[i - 1] = up[i]
        BY <1>0, <3>2
      <4> QED
        BY <2>3, <4>1
    <3> QED
      BY <3>1, <3>2
  <2>4. ASSUME NEW i \in 1..Len(down), down[i] = Frame("ok", a.seq, id)
        PROVE  \E j \in 1..Len(down') : down'[j] = Frame("ok", a.seq, id)
    <3>1. i \in 1..Len(down') /\ down'[i] = down[i]
      BY <1>2
    <3> QED
      BY <2>4, <3>1
  <2> QED
    BY <2>1, <2>2, <2>3, <2>4
<1>13. ServedIsKnown'
  BY <1>12 DEF ServedIsKnown, Frame
<1> QED
  BY <1>5, <1>8, <1>9, <1>10, <1>11, <1>13 DEF CoreInv

\* A reply is read: its waiter leaves the table, and a tunnel it grants is
\* entered in the same step.
LEMMA CoreReplied ==
    ASSUME TypeOK, CoreInv, ReadReply
    PROVE  CoreInv'
<1> USE DEF runVars, beatVars, serverVars
<1> DEFINE fr == Head(down)
           ws == {r \in Waiters(fr) : r.name # NoName}
           hit(c) == call[c].st = "wait" /\ \E r \in Waiters(fr) : r.seq = call[c].seq
<1>0. /\ Len(down) \in Nat /\ Len(down) >= 1 /\ Len(down') = Len(down) - 1 /\ fr = down[1]
      /\ \A i \in 1..Len(down') : i + 1 \in 1..Len(down) /\ down'[i] = down[i + 1]
      /\ fr \in FrameType /\ fr.type \in {"ok", "refused"} /\ IsReply(1)
  <2>1. down # <<>> /\ down' = Tail(down) /\ fr.type \in {"ok", "refused"}
    BY DEF ReadReply, Take
  <2>2. /\ Len(down) \in Nat /\ Len(down) >= 1 /\ Len(down') = Len(down) - 1 /\ fr = down[1]
        /\ \A i \in 1..Len(down') : down'[i] = down[i + 1]
        /\ fr \in FrameType
    BY <2>1, Taken DEF TypeOK, FrameType
  <2> QED
    BY <2>1, <2>2 DEF IsReply
<1>1. UNCHANGED <<seq, given, gen, conn, up, assigned, served>>
  BY DEF ReadReply
<1>2. pending' = pending \ Waiters(fr) /\ \A r \in pending : r \in Waiters(fr) <=> r.seq = fr.seq
  BY DEF ReadReply, Waiters
<1>3. \A c \in Callers :
        /\ call'[c].seq = call[c].seq /\ call'[c].name = call[c].name /\ call'[c].id = call[c].id
        /\ ~hit(c) => call'[c] = call[c]
        /\ hit(c) => call'[c].st = "replied" /\ (call'[c].ok <=> fr.type = "ok")
  <2>1. \A c \in Callers : call[c] \in Call
    BY DEF TypeOK
  <2>2. \A k \in Call : \A b \in BOOLEAN :
          LET n == [k EXCEPT !.st = "replied", !.ok = b]
          IN  n.seq = k.seq /\ n.name = k.name /\ n.id = k.id /\ n.st = "replied" /\ n.ok = b
    BY DEF Call
  <2> DEFINE b == fr.type = "ok"
  <2>3. call' = [c \in Callers |-> IF hit(c) THEN [call[c] EXCEPT !.st = "replied", !.ok = b]
                                             ELSE call[c]]
    BY DEF ReadReply
  <2>4. b \in BOOLEAN
    OBVIOUS
  <2> HIDE DEF b, hit
  <2>5. ASSUME NEW c \in Callers
        PROVE  /\ call'[c].seq = call[c].seq /\ call'[c].name = call[c].name
               /\ call'[c].id = call[c].id
               /\ ~hit(c) => call'[c] = call[c]
               /\ hit(c) => call'[c].st = "replied" /\ call'[c].ok = b
    <3>1. CASE ~hit(c)
      BY <2>3, <3>1
    <3>2. CASE hit(c)
      <4>1. call'[c] = [call[c] EXCEPT !.st = "replied", !.ok = b]
        BY <2>3, <3>2
      <4> QED
        BY <2>1, <2>2, <2>4, <3>2, <4>1
    <3> QED
      BY <3>1, <3>2
  <2> QED
    BY <2>5 DEF b
<1>4. pending # {} => gen \in Sessions
  BY Bounds DEF CoreInv, CallsOK, TypeOK, Sessions
\* the entries: those there were, and those of the waiters of a granted tunnel
<1>5. /\ \A g \in Sessions : local[g] \subseteq local'[g]
      /\ \A g \in Sessions : \A t \in local'[g] :
            t \in local[g] \/ (fr.type = "ok" /\ \E r \in ws : t = [id |-> fr.id, name |-> r.name])
      /\ fr.type = "ok" => \A r \in ws : [id |-> fr.id, name |-> r.name] \in local'[gen]
  <2> DEFINE new == {[id |-> fr.id, name |-> r.name] : r \in ws}
  <2>1. CASE gen > 0 /\ fr.type = "ok"
    <3>0. gen \in Sessions
      BY <2>1, Bounds DEF TypeOK, Sessions
    <3>1. local' = [local EXCEPT ![gen] = @ \cup new]
      BY <2>1 DEF ReadReply
    <3>2. \A r \in ws : [id |-> fr.id, name |-> r.name] \in new
      OBVIOUS
    <3>3. \A t \in new : \E r \in ws : t = [id |-> fr.id, name |-> r.name]
      OBVIOUS
    <3> HIDE DEF new, ws
    <3> QED
      BY <2>1, <3>0, <3>1, <3>2, <3>3 DEF TypeOK
  <2>2. CASE ~(gen > 0 /\ fr.type = "ok")
    <3>1. local' = local
      BY <2>2 DEF ReadReply
    <3>2. fr.type = "ok" => ws = {}
      BY <2>2 DEF Waiters, CoreInv, CallsOK
    <3> QED
      BY <3>1, <3>2
  <2> QED
    BY <2>1, <2>2
<1>6. CallsOK'
  <2>1. \A c \in Callers : call'[c].st # "idle" => call[c].st # "idle"
    BY <1>3
  <2>2. pending' \subseteq pending
    BY <1>2
  <2> QED
    BY <1>1, <1>3, <2>1, <2>2 DEF CoreInv, CallsOK
<1>7. AssignedOK' /\ RequestsOK'
  <2>1. \A c \in Callers : /\ call'[c].st # "idle" => call[c].st # "idle"
                          /\ call'[c].st = "entered" => call[c].st = "entered"
    BY <1>3
  <2>2. pending' \subseteq pending
    BY <1>2
  <2>3. AssignedOK'
    BY <1>1, <1>3, <2>1, <2>2 DEF CoreInv, AssignedOK, IsCall
  <2>4. ASSUME NEW i \in 1..Len(up), IsCall(i)
        PROVE  /\ \A c \in Callers : call'[c].st # "idle" /\ call'[c].seq = up[i].seq =>
                     /\ call'[c].st # "entered" /\ call'[c].name = up[i].name
                     /\ call'[c].id = up[i].id
               /\ \A j \in 1..Len(down') : IsReply(j)' => down'[j].seq # up[i].seq
               /\ up[i].seq \in given \/ \E r \in pending' : r.seq = up[i].seq
    <3>1. /\ \A j \in 1..Len(down) : IsReply(j) => down[j].seq # up[i].seq
          /\ up[i].seq \in given \/ \E r \in pending : r.seq = up[i].seq
      BY <2>4 DEF CoreInv, RequestsOK
    <3>2. fr.seq # up[i].seq
      BY <1>0, <3>1
    <3>3. \A j \in 1..Len(down') : IsReply(j)' => IsReply(j + 1)
      BY <1>0 DEF IsReply
    <3>4. \A c \in Callers : call'[c].st # "idle" /\ call'[c].seq = up[i].seq =>
             /\ call'[c].st # "entered" /\ call'[c].name = up[i].name
             /\ call'[c].id = up[i].id
      BY <1>3, <2>1, <2>4 DEF CoreInv, RequestsOK
    <3> QED
      BY <1>0, <1>2, <3>1, <3>2, <3>3, <3>4
  <2>5. RequestsOK'
    BY <1>1, <2>2, <2>4 DEF CoreInv, RequestsOK, IsCall
  <2> QED
    BY <2>3, <2>5
<1>8. RepliesOK'
  <2>1. \A i \in 1..Len(down') : IsReply(i)' <=> IsReply(i + 1)
    BY <1>0 DEF IsReply
  <2>2. \A c \in Callers : call'[c].st = "entered" => call[c].st = "entered"
    BY <1>3
  <2>3. ASSUME NEW i \in 1..Len(down'), IsReply(i)'
        PROVE  /\ down'[i].seq \in 1..seq'
               /\ \A c \in Callers : call'[c].st = "entered" => call'[c].seq # down'[i].seq
               /\ down'[i].seq \in given \/ \E r \in pending' : r.seq = down'[i].seq
               /\ \A r \in pending' :
                    down'[i].type = "ok" /\ r.seq = down'[i].seq /\ r.name # NoName =>
                       [id |-> down'[i].id, name |-> r.name, seq |-> r.seq] \in assigned'
    <3>1. i + 1 \in 1..Len(down) /\ down'[i] = down[i + 1] /\ IsReply(i + 1) /\ 1 # i + 1
      BY <1>0, <2>1, <2>3
    <3>2. PICK k \in 1..Len(down) : down'[i] = down[k] /\ IsReply(k) /\ 1 # k
      BY <3>1
    <3>3. 1 \in 1..Len(down) /\ down[k].seq # fr.seq
      BY <1>0, <3>2 DEF CoreInv, RepliesOK
    <3>4. down[k].seq \in given \/ \E r \in pending' : r.seq = down[k].seq
      BY <1>2, <3>2, <3>3 DEF CoreInv, RepliesOK
    <3>5. pending' \subseteq pending
      BY <1>2
    <3> QED
      BY <1>1, <1>3, <2>2, <3>2, <3>4, <3>5 DEF CoreInv, RepliesOK
  <2>4. ASSUME NEW i \in 1..Len(down'), IsReply(i)', NEW j \in 1..Len(down'), IsReply(j)',
               down'[j].seq = down'[i].seq
        PROVE  i = j
    <3>1. i + 1 = j + 1
      BY <1>0, <2>1, <2>4 DEF CoreInv, RepliesOK
    <3> QED
      BY <3>1
  <2> QED
    BY <1>1, <2>3, <2>4 DEF RepliesOK
<1>11. RetiredOK'
  <2>1. ASSUME NEW c \in Callers, call'[c].name = NoName, call'[c].st = "wait",
               NEW i \in 1..Len(down'), down'[i].type = "ok", down'[i].seq = call'[c].seq
        PROVE  call[c].id \notin served
    <3>1. call'[c] = call[c]
      BY <1>3, <2>1
    <3> QED
      BY <1>0, <2>1, <3>1 DEF CoreInv, RetiredOK
  <2>2. ASSUME NEW c \in Callers, call'[c].name = NoName, call'[c].st = "replied", call'[c].ok
        PROVE  call[c].id \notin served
    <3>1. CASE hit(c)
      <4>1. 1 \in 1..Len(down) /\ down[1].type = "ok" /\ down[1].seq = call[c].seq
        BY <1>0, <1>3, <2>2, <3>1 DEF Waiters
      <4> QED
        BY <1>3, <2>2, <3>1, <4>1 DEF CoreInv, RetiredOK
    <3>2. CASE ~hit(c)
      BY <1>3, <2>2, <3>2 DEF CoreInv, RetiredOK
    <3> QED
      BY <3>1, <3>2
  <2> QED
    BY <1>1, <1>3, <2>1, <2>2 DEF RetiredOK
<1>12. EntryIsGranted'
  <2>1. fr.type = "ok" => \A r \in ws : [id |-> fr.id, name |-> r.name, seq |-> r.seq] \in assigned
    BY <1>0, <1>2 DEF CoreInv, RepliesOK, Waiters
  <2>2. ASSUME NEW g \in Sessions, NEW t \in local'[g]
        PROVE  \E a \in assigned : a.id = t.id /\ a.name = t.name
    <3>1. CASE t \in local[g]
      BY <3>1 DEF CoreInv, EntryIsGranted
    <3>2. CASE fr.type = "ok" /\ \E r \in ws : t = [id |-> fr.id, name |-> r.name]
      <4>1. PICK r \in ws : t = [id |-> fr.id, name |-> r.name]
        BY <3>2
      <4> DEFINE a == [id |-> fr.id, name |-> r.name, seq |-> r.seq]
      <4>2. a \in assigned /\ a.id = t.id /\ a.name = t.name
        BY <2>1, <3>2, <4>1
      <4> QED
        BY <4>2
    <3> QED
      BY <1>5, <2>2, <3>1, <3>2
  <2> QED
    BY <1>1, <2>2 DEF EntryIsGranted
<1>13. WaiterIsPending'
  <2>1. ASSUME NEW c \in Callers, call'[c].st \in {"entered", "wait"}
        PROVE  (\E r \in pending' : r.seq = call'[c].seq) \/ call'[c].seq \in given'
    <3>1. call'[c] = call[c] /\ ~hit(c)
      BY <1>3, <2>1
    <3>2. \A r \in Waiters(fr) : r.seq # call[c].seq
      BY <1>0, <2>1, <3>1 DEF CoreInv, RepliesOK, Waiters
    <3> QED
      BY <1>1, <1>2, <2>1, <3>1, <3>2 DEF CoreInv, WaiterIsPending
  <2> QED
    BY <2>1 DEF WaiterIsPending
\* the tunnel of the reply that is read is known now, or nobody waited for it
<1>14. ASSUME conn = "up", NEW id \in served
       PROVE  \E a \in assigned :
                 /\ a.id = id
                 /\ \/ KnownId(id)' \/ a.seq \in given
                    \/ \E i \in 1..Len(up) : up[i].type = "call" /\ up[i].seq = a.seq
                    \/ \E i \in 1..Len(down') : down'[i] = Frame("ok", a.seq, id)
  <2>1. PICK a \in assigned :
            /\ a.id = id
            /\ \/ KnownId(id) \/ a.seq \in given
               \/ \E i \in 1..Len(up) : up[i].type = "call" /\ up[i].seq = a.seq
               \/ \E i \in 1..Len(down) : down[i] = Frame("ok", a.seq, id)
    BY <1>14 DEF CoreInv, ServedIsKnown
  <2>2. KnownId(id) => KnownId(id)'
    BY <1>5 DEF KnownId
  <2>3. ASSUME NEW j \in 1..Len(down), down[j] = Frame("ok", a.seq, id)
        PROVE  \/ KnownId(id)' \/ a.seq \in given
               \/ \E i \in 1..Len(down') : down'[i] = Frame("ok", a.seq, id)
    <3>1. CASE j = 1
      <4>1. fr.type = "ok" /\ fr.id = id /\ fr.seq = a.seq
        BY <1>0, <2>3, <3>1 DEF Frame
      <4>2. CASE \E r \in pending : r.seq = fr.seq
        <5>1. PICK r \in pending : r.seq = fr.seq
          BY <4>2
        <5>2. r.name # NoName
          <6>1. r.name = a.name
            BY <4>1, <5>1 DEF CoreInv, AssignedOK
          <6> QED
            BY <6>1, ClientConnAssumption DEF TypeOK
        <5>3. r \in ws /\ gen \in Sessions
          BY <1>2, <1>4, <5>1, <5>2
        <5>4. [id |-> fr.id, name |-> r.name] \in local'[gen]
          BY <1>5, <4>1, <5>3
        <5> QED
          BY <4>1, <5>3, <5>4 DEF KnownId
      <4>3. 1 \in 1..Len(down)
        BY <1>0
      <4> QED
        BY <1>0, <4>1, <4>2, <4>3 DEF CoreInv, RepliesOK
    <3>2. CASE j # 1
      <4>1. j - 1 \in 1..Len(down') /\ down'[j - 1] = down[j]
        BY <1>0, <2>3, <3>2
      <4> QED
        BY <2>3, <4>1
    <3> QED
      BY <3>1, <3>2
  <2> QED
    BY <2>1, <2>2, <2>3
<1>15. ServedIsKnown'
  BY <1>1, <1>14 DEF ServedIsKnown, Frame
<1> QED
  BY <1>6, <1>7, <1>8, <1>11, <1>12, <1>13, <1>15 DEF CoreInv

-----------------------------------------------------------------------------
\* Every step, by what it does to the calls and the frames.
LEMMA ClientCore == TypeOK /\ CoreInv /\ [Next]_vars => CoreInv'
<1> SUFFICES ASSUME TypeOK, CoreInv, [Next]_vars PROVE CoreInv'
  OBVIOUS
<1> USE DEF runVars, callVars, beatVars, serverVars, vars
<1>0. gen \in 0..ses /\ ses \in 0..MaxSessions /\ MaxSessions \in Nat
  BY Bounds DEF TypeOK
\* the steps that move frames only
<1>k. ASSUME UNCHANGED <<local, callVars, serverVars>>, UpSteps, DownSteps,
             gen' \in {gen, ses}, conn' = "up" => conn = "up"
      PROVE  CoreInv'
  <2>1. gen > 0 => gen' > 0
    BY <1>0, <1>k
  <2>2. UpMoves /\ DownMoves
    BY <1>k, UpMoved, DownMoved
  <2> QED
    BY <1>k, <2>1, <2>2, CoreMoved
<1>e. ASSUME NEW class, EndSession(class) PROVE up' = <<>> /\ conn' = "off"
  BY <1>e DEF EndSession
<1>1. CASE UNCHANGED vars
  BY <1>1, <1>k DEF UpSteps, DownSteps
<1>2. CASE Top \/ Backoff \/ Cancel \/ Connect \/ DialFails
  <2>1. UNCHANGED <<gen, conn, local, callVars, up, down, serverVars>>
    BY <1>2 DEF Top, Backoff, Cancel, Connect, DialFails
  <2> QED
    BY <1>k, <2>1 DEF UpSteps, DownSteps
<1>3. CASE Dial
  <2>1. /\ up' = <<>> /\ down' = <<>> /\ UNCHANGED <<local, gen, seq, call, assigned>>
        /\ served' = {} /\ pending' = {} /\ given' = given \cup {r.seq : r \in pending}
    BY <1>3 DEF Dial
  <2> QED
    BY <2>1, CoreDialled
<1>4. CASE SendHello
  <2>1. UNCHANGED <<gen, local, callVars, down, serverVars>>
    BY <1>4 DEF SendHello
  <2>2. Request("hello", NoCall) \in RequestType /\ Request("hello", NoCall).type # "call"
    BY DEF Request, NoCall, RequestType
  <2>3. /\ conn' = "up" => conn = "up"
        /\ \/ UNCHANGED up \/ (up' = <<>> /\ conn' # "up")
           \/ up' = Append(up, Request("hello", NoCall))
    BY <1>4, <1>e DEF SendHello, Write
  <2> QED
    BY <1>k, <2>1, <2>2, <2>3 DEF UpSteps, DownSteps
<1>5. CASE ReadHello
  <2>1. UNCHANGED <<gen, local, callVars, serverVars>>
    BY <1>5 DEF ReadHello
  <2>2. /\ conn' = "up" => conn = "up"
        /\ UNCHANGED up \/ (up' = <<>> /\ conn' # "up")
        /\ \/ UNCHANGED down
           \/ down # <<>> /\ Head(down).type \in {"server_hello", "fatal"} /\ down' = Tail(down)
    <3>1. CASE EndSession("temporary") /\ UNCHANGED down
      BY <1>e, <3>1
    <3>2. CASE EndSession("permanent") /\ down # <<>> /\ Head(down).type = "fatal"
               /\ down' = Tail(down)
      BY <1>e, <3>2
    <3>3. CASE /\ UNCHANGED <<state, conn, up, closeOnce, data>>
               /\ down # <<>> /\ Head(down).type = "server_hello" /\ down' = Tail(down)
      BY <3>3
    <3> QED
      BY <1>5, <3>1, <3>2, <3>3 DEF ReadHello
  <2> QED
    BY <1>k, <2>1, <2>2 DEF UpSteps, DownSteps
<1>6. CASE Setup
  <2>1. UNCHANGED <<local, callVars, down, serverVars>> /\ gen' \in {gen, ses}
    BY <1>6 DEF Setup
  <2>2. (conn' = "up" => conn = "up") /\ (UNCHANGED up \/ (up' = <<>> /\ conn' # "up"))
    <3>1. CASE EndSession("temporary")
      BY <1>e, <3>1
    <3>2. CASE UNCHANGED <<state, conn, up, closeOnce, data>>
      BY <3>2
    <3> QED
      BY <1>6, <3>1, <3>2 DEF Setup
  <2> QED
    BY <1>k, <2>1, <2>2 DEF UpSteps, DownSteps
<1>7. ASSUME NEW c \in Callers, NEW n \in Names, call[c].st = "idle", Enter(c, n),
             UNCHANGED <<gen, local, up, down, conn, serverVars>>
      PROVE  CoreInv'
  <2>1. /\ gen > 0 /\ seq' = seq + 1 /\ UNCHANGED given
        /\ pending' = pending \cup {[seq |-> seq + 1, name |-> n]}
        /\ call' = [call EXCEPT ![c] = [st |-> "entered", name |-> n, seq |-> seq + 1,
                                        id |-> 0, ok |-> FALSE]]
    BY <1>7 DEF Enter
  <2>2. n # NoName /\ n \in Names \cup {NoName}
    BY ClientConnAssumption
  <2>3. PICK id \in Nat : id = 0
    OBVIOUS
  <2>4. call' = [call EXCEPT ![c] = [st |-> "entered", name |-> n, seq |-> seq + 1,
                                     id |-> id, ok |-> FALSE]]
    BY <2>1, <2>3
  <2> QED
    BY <1>7, <2>1, <2>2, <2>4, CoreEntered
<1>8. CASE RegisterNext
  <2>1. UNCHANGED <<gen, local, up, down, conn, serverVars>> /\ call[Main].st = "idle"
    BY <1>8 DEF RegisterNext
  <2>2. Main \in Callers
    BY DEF Callers
  <2>3. \/ UNCHANGED callVars
        \/ todo # <<>> /\ Enter(Main, Head(todo))
    BY <1>8 DEF RegisterNext
  <2>4. todo # <<>> => Head(todo) \in Names
    BY HeadTailProperties DEF TypeOK
  <2> QED
    BY <1>7, <1>k, <2>1, <2>2, <2>3, <2>4 DEF UpSteps, DownSteps
<1>9. CASE Ping
  <2>1. UNCHANGED <<gen, local, callVars, conn, down, serverVars>>
    BY <1>9 DEF Ping
  <2>2. Request("ping", NoCall) \in RequestType /\ Request("ping", NoCall).type # "call"
    BY DEF Request, NoCall, RequestType
  <2>3. UNCHANGED up \/ up' = Append(up, Request("ping", NoCall))
    BY <1>9 DEF Ping, Write
  <2> QED
    BY <1>k, <2>1, <2>2, <2>3 DEF UpSteps, DownSteps
<1>10. CASE Count \/ PingFails \/ LoopCancelled \/ LoopReadErr
  <2>1. UNCHANGED <<gen, local, callVars, down, serverVars>>
    BY <1>10 DEF Count, PingFails, LoopCancelled, LoopReadErr
  <2>2. (conn' = "up" => conn = "up") /\ (UNCHANGED up \/ (up' = <<>> /\ conn' # "up"))
    <3>1. ASSUME NEW class, EndSession(class)
          PROVE  (conn' = "up" => conn = "up") /\ (UNCHANGED up \/ (up' = <<>> /\ conn' # "up"))
      BY <1>e, <3>1
    <3>2. CASE UNCHANGED <<state, conn, up, closeOnce, data>>
      BY <3>2
    <3>3. \/ UNCHANGED <<state, conn, up, closeOnce, data>>
          \/ EndSession("temporary") \/ EndSession("stop")
          \/ EndSession(CASE readErr = "lost" -> "temporary"
                          [] readErr = "fatal" -> "permanent"
                          [] readErr = "graceful" -> "stop")
      BY <1>10 DEF Count, PingFails, LoopCancelled, LoopReadErr
    <3> QED
      BY <3>1, <3>2, <3>3
  <2> QED
    BY <1>k, <2>1, <2>2 DEF UpSteps, DownSteps
<1>11. ASSUME NEW c \in Commands, NEW n \in Names, Start(c, n) PROVE CoreInv'
  BY <1>7, <1>11 DEF Start, Callers
<1>12. ASSUME NEW c \in Commands, NEW t \in Known(gen), Stop(c, t) PROVE CoreInv'
  <2>1. /\ UNCHANGED <<given, gen, local, up, down, conn, serverVars>> /\ c \in Callers
        /\ call[c].st = "idle" /\ seq' = seq + 1
        /\ pending' = pending \cup {[seq |-> seq + 1, name |-> NoName]}
        /\ call' = [call EXCEPT ![c] = [st |-> "entered", name |-> NoName,
                                        seq |-> seq + 1, id |-> t.id, ok |-> FALSE]]
    BY <1>12 DEF Stop, Callers
  <2>2. gen \in Sessions /\ t \in local[gen] /\ gen > 0
    BY <1>0, <1>12 DEF Known, Sessions
  <2>3. t.id \in Nat /\ t.id \in 1..Cardinality(assigned)
    <3>1. Cardinality(assigned) \in Nat
      BY FS_CardinalityType DEF TypeOK
    <3> QED
      BY <2>2, <3>1 DEF CoreInv, EntryIsGranted, AssignedOK
  <2>4. PICK id \in Nat : id = t.id
    BY <2>3
  <2> QED
    BY <2>1, <2>2, <2>3, <2>4, CoreEntered
<1>13. ASSUME NEW c \in Callers, Send(c) PROVE CoreInv'
  <2>1. UNCHANGED <<seq, gen, local, conn, down, serverVars>> /\ call[c].st = "entered"
    BY <1>13 DEF Send
  <2>2. CASE GiveUp(c) /\ UNCHANGED <<first, up>>
    BY <2>1, <2>2, CoreGivenUp
  <2>3. CASE /\ call' = [call EXCEPT ![c].st = "wait"] /\ UNCHANGED <<pending, given>>
             /\ Write(Request("call", call[c]))
    BY <2>1, <2>3, CoreSent
  <2> QED
    BY <1>13, <2>2, <2>3 DEF Send
<1>14. ASSUME NEW c \in Callers, Timeout(c) PROVE CoreInv'
  <2>1. /\ call[c].st # "idle" /\ GiveUp(c)
        /\ UNCHANGED <<seq, gen, local, up, down, conn, serverVars>>
    BY <1>14 DEF Timeout
  <2> QED
    BY <2>1, CoreGivenUp
<1>15. CASE ReadPong \/ ReadOpen \/ ReadEnds
  <2>1. UNCHANGED <<gen, conn, local, callVars, up, serverVars>>
    BY <1>15 DEF ReadPong, ReadOpen, ReadEnds
  <2>2. \/ UNCHANGED down
        \/ down # <<>> /\ Head(down).type \notin {"ok", "refused"} /\ down' = Tail(down)
    BY <1>15 DEF ReadPong, ReadOpen, ReadEnds, Take
  <2> QED
    BY <1>k, <2>1, <2>2 DEF UpSteps, DownSteps
<1>16. ASSUME NEW o \in Opens, DataStep(o) \/ SpliceEnds(o) PROVE CoreInv'
  <2>1. UNCHANGED <<gen, conn, local, callVars, up, down, serverVars>>
    BY <1>16 DEF DataStep, LookupTunnel, OpenData, SpliceEnds
  <2> QED
    BY <1>k, <2>1 DEF UpSteps, DownSteps
\* the server
<1>17. \A t \in Types : \A n, m \in Nat :
          Frame(t, n, m) \in FrameType /\ Frame(t, n, m).type = t
  BY DEF Frame, FrameType
<1>18. CASE Admit
  <2>1. UNCHANGED <<gen, local, callVars, serverVars>> /\ up # <<>>
    BY <1>18 DEF Admit, clientVars
  <2>2. \E t \in {"server_hello", "fatal"} : down' = Append(down, Frame(t, 0, 0))
    BY <1>18 DEF Admit, Reply
  <2>3. /\ conn' = "up" => conn = "up"
        /\ \/ Head(up).type # "call" /\ up' = Tail(up)
           \/ up' = <<>> /\ conn' # "up"
    BY <1>18 DEF Admit
  <2>4. DownSteps
    BY <1>17, <2>2 DEF DownSteps, Types
  <2> QED
    BY <1>k, <2>1, <2>3, <2>4 DEF UpSteps
<1>19. CASE Pong
  <2>1. /\ UNCHANGED <<gen, conn, local, callVars, serverVars>>
        /\ up # <<>> /\ Head(up).type # "call" /\ up' = Tail(up)
        /\ down' = Append(down, Frame("pong", 0, 0))
    BY <1>19 DEF Pong, Handles, Reply, clientVars
  <2>2. DownSteps
    BY <1>17, <2>1 DEF DownSteps, Types
  <2> QED
    BY <1>k, <2>1, <2>2 DEF UpSteps
<1>20. CASE RegisterReply
  <2>1. /\ up # <<>> /\ Head(up).type = "call" /\ Head(up).name # NoName /\ up' = Tail(up)
        /\ UNCHANGED <<seq, pending, call, given, gen, local, conn, assigned>>
    BY <1>20 DEF RegisterReply, Handles, clientVars
  <2>2. CASE (\E a \in Grants(Head(up)) : Reply(Frame("ok", Head(up).seq, a.id))) /\ UNCHANGED served
    <3>1. PICK a \in assigned : /\ a.seq = Head(up).seq
                               /\ down' = Append(down, Frame("ok", Head(up).seq, a.id))
      BY <2>2 DEF Grants, Reply
    <3>2. PICK m \in Nat : m = a.id
      BY DEF TypeOK
    <3>3. PICK t \in {"ok", "refused"} : t = "ok"
      OBVIOUS
    <3> QED
      BY <2>1, <2>2, <3>1, <3>2, <3>3, CoreAnswered
  <2>3. CASE /\ Reply(Frame("refused", Head(up).seq, 0))
             /\ served' = served \ {a.id : a \in Grants(Head(up))}
    <3>1. down' = Append(down, Frame("refused", Head(up).seq, 0))
      BY <2>3 DEF Reply
    <3>2. PICK t \in {"ok", "refused"} : t = "refused"
      OBVIOUS
    <3>3. PICK m \in Nat : m = 0
      OBVIOUS
    <3>4. /\ served' \subseteq served
          /\ \A a \in assigned : a.seq = Head(up).seq => a.id \notin served'
      BY <2>3 DEF Grants
    <3> QED
      BY <2>1, <3>1, <3>2, <3>3, <3>4, CoreAnswered
  <2> QED
    BY <1>20, <2>2, <2>3 DEF RegisterReply
<1>21. CASE UnregisterReply
  <2>1. /\ up # <<>> /\ Head(up).type = "call" /\ Head(up).name = NoName /\ up' = Tail(up)
        /\ UNCHANGED <<seq, pending, call, given, gen, local, conn, assigned>>
    BY <1>21 DEF UnregisterReply, Handles, clientVars
  <2>2. \E t \in {"ok", "refused"}, m \in Nat :
           /\ down' = Append(down, Frame(t, Head(up).seq, m))
           /\ served' \subseteq served /\ (t = "ok" => Head(up).id \notin served')
    <3>1. Head(up) \in RequestType
      BY <2>1, Taken DEF TypeOK, RequestType
    <3>2. Head(up).id \in Nat
      BY <3>1 DEF RequestType
    <3> QED
      BY <1>21, <3>2 DEF UnregisterReply, Reply
  <2>3. PICK t \in {"ok", "refused"}, m \in Nat :
           /\ down' = Append(down, Frame(t, Head(up).seq, m))
           /\ served' \subseteq served /\ (t = "ok" => Head(up).id \notin served')
    BY <2>2
  <2> QED
    BY <2>1, <2>3, CoreAnswered
<1>22. ASSUME NEW o \in Opens, NEW a \in assigned, ServerOpens(o, a.id) PROVE CoreInv'
  <2>1. /\ UNCHANGED <<gen, conn, local, callVars, up, serverVars>>
        /\ down' = Append(down, Frame("open", o, a.id))
    BY <1>22 DEF ServerOpens, Reply, clientVars
  <2>2. o \in Nat /\ a.id \in Nat
    BY DEF Opens, TypeOK
  <2>3. DownSteps
    BY <1>17, <2>1, <2>2 DEF DownSteps, Types
  <2> QED
    BY <1>k, <2>1, <2>3 DEF UpSteps
<1>23. ASSUME NEW t \in {"fatal", "shutdown"}, ServerEnds(t) PROVE CoreInv'
  <2>1. /\ UNCHANGED <<gen, local, callVars, serverVars>> /\ conn' = "closed" /\ up' = <<>>
        /\ down' = Append(down, Frame(t, 0, 0))
    BY <1>23 DEF ServerEnds, Reply, clientVars
  <2>2. DownSteps
    BY <1>17, <2>1 DEF DownSteps, Types
  <2> QED
    BY <1>k, <2>1, <2>2 DEF UpSteps
<1>24. CASE Breaks
  <2>1. /\ UNCHANGED <<gen, local, callVars, serverVars>> /\ conn' # "up" /\ up' = <<>>
        /\ down' = <<>> \/ UNCHANGED down
    BY <1>24 DEF Breaks, clientVars
  <2> QED
    BY <1>k, <2>1 DEF UpSteps, DownSteps
<1> QED
  BY <1>1, <1>2, <1>3, <1>4, <1>5, <1>6, <1>8, <1>9, <1>10, <1>11, <1>12, <1>13, <1>14,
     <1>15, <1>16, <1>18, <1>19, <1>20, <1>21, <1>22, <1>23, <1>24, CoreReturned,
     CoreReplied, CoreGranted
     DEF Next, CallStep, ReadStep, ServerStep

-----------------------------------------------------------------------------
\* ClientInv holds in every state: for any configuration, any interleaving of
\* the session, the commands and the read loop, and any loss of connections.
THEOREM ClientInvariant == Spec => []ClientInv
<1>1. ClientInv /\ [Next]_vars => ClientInv'
  BY ClientTypes, ClientBeat, ClientCore DEF ClientInv
<1> QED
  BY ClientInit, <1>1, PTL DEF Spec

\* The missed count of the heartbeat (client.go, pingLoop and readLoop) is
\* never below the pings of this session that were not answered.
THEOREM ClientNeverUndercounts == Spec => []NeverUndercounts
<1>1. ClientInv => NeverUndercounts
  BY DEF ClientInv, BeatOK
<1> QED
  BY ClientInvariant, <1>1, PTL

\* A tunnel is entered only under the id the server granted for its name, over
\* late replies, calls that time out and reconnects.
THEOREM ClientEntryIsGranted == Spec => []EntryIsGranted
<1>1. ClientInv => EntryIsGranted
  BY DEF ClientInv, CoreInv
<1> QED
  BY ClientInvariant, <1>1, PTL

\* What the server serves for the session is not forgotten on its way to the
\* client: the tunnel is entered by the read loop, in frame order, with the reply
\* (client.go, readLoop), unless the call was given up.
THEOREM ClientServedIsKnown == Spec => []ServedIsKnown
<1>1. ClientInv => ServedIsKnown
  BY DEF ClientInv, CoreInv
<1> QED
  BY ClientInvariant, <1>1, PTL

\* A call that waits for its reply is found by it, unless the pending table
\* was renewed by a newer connection.
THEOREM ClientWaiterIsPending == Spec => []WaiterIsPending
<1>1. ClientInv => WaiterIsPending
  BY DEF ClientInv, CoreInv
<1> QED
  BY ClientInvariant, <1>1, PTL
=============================================================================
