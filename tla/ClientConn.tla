----------------------------- MODULE ClientConn -----------------------------
(***************************************************************************)
(* The client process: the connection manager with its backoff loop, one   *)
(* control session after the other, the read loop, the register and        *)
(* unregister calls of the session and of the local control endpoint, the  *)
(* heartbeat, and the data connections opened for the server               *)
(* (internal/clientcore, internal/tunnel/client.go).                       *)
(*                                                                         *)
(* Of the server there is what this connection sees of it                  *)
(* (internal/control/server.go): its read loop takes the frames of `up` in *)
(* order, grants a tunnel before it answers, and public connections make   *)
(* it write open_connection at any time in between; what it writes waits   *)
(* in `down` for the read loop of the client.  Policies, addresses and the *)
(* wording of errors are left out: an error is the class Classify gives    *)
(* it.                                                                     *)
(***************************************************************************)
EXTENDS Naturals, Sequences, FiniteSets

CONSTANTS
    Names,          \* tunnel names
    Conf,           \* the enabled tunnels of client.toml, in order
    Commands,       \* callers from the local control endpoint
    Main,           \* the session itself as a caller
    MissThreshold,
    MaxSessions,    \* bound: connections dialled
    MaxSeq,         \* bound: register and unregister calls
    MaxOpens,       \* bound: open_connection frames
    MaxUp,          \* bound: frames the server has not answered
    MaxDown,        \* bound: frames on their way to the client
    NoName

ASSUME ClientConnAssumption ==
    /\ Conf \in Seq(Names) /\ NoName \notin Names /\ Main \notin Commands
    /\ {MissThreshold, MaxSessions, MaxSeq, MaxOpens, MaxUp, MaxDown} \subseteq Nat

Callers == Commands \cup {Main}
Sessions == 1..MaxSessions
Seqs == 1..MaxSeq
Opens == 1..MaxOpens

VARIABLES
    state,      \* Manager.state
    pc,         \* where Manager.Run and runSession are
    cancelled,  \* the context is done
    ses,        \* connections dialled; the last is Client.conn
    conn,       \* what has become of it
    first,      \* the first frame written on it
    gen,        \* Client.tunnelClient, by the session that made it; 0 is nil
    local,      \* tunnels of each tunnelClient
    closeOnce,
    todo,       \* tunnels registerConfiguredTunnels has still to register
    seq,
    pending,    \* Client.pending
    call,       \* the calls in progress
    missed,     \* Client.missed
    quiet,      \* pings of this session since its last pong
    readErr,    \* what the read loop has returned
    up,         \* frames the server has not answered
    down,       \* frames from the server
    assigned,   \* register requests the server has granted
    served,     \* ids of those it serves for this session
    given,      \* calls nobody waits for any more
    data        \* the data connection of each open_connection

runVars == <<state, pc, cancelled, ses, conn, first>>
callVars == <<seq, pending, call, given>>
beatVars == <<missed, quiet>>
serverVars == <<assigned, served>>
vars == <<runVars, gen, local, closeOnce, todo, callVars, beatVars, readErr,
          up, down, serverVars, data>>

NoCall == [st |-> "idle", name |-> NoName, seq |-> 0, id |-> 0, ok |-> FALSE]
NoData == [st |-> "none", id |-> 0, gen |-> 0]
Frame(type, s, id) == [type |-> type, seq |-> s, id |-> id]
\* A frame of the client; a call without a name unregisters its id.
Request(type, k) == [type |-> type, seq |-> k.seq, name |-> k.name, id |-> k.id]

Known(g) == IF g = 0 THEN {} ELSE local[g]

Init ==
    /\ state = "disconnected" /\ pc = "top" /\ cancelled = FALSE
    /\ ses = 0 /\ conn = "off" /\ first = "none"
    /\ gen = 0 /\ local = [g \in Sessions |-> {}]
    /\ closeOnce = FALSE /\ todo = <<>>
    /\ seq = 0 /\ pending = {} /\ call = [c \in Callers |-> NoCall] /\ given = {}
    /\ missed = 0 /\ quiet = 0 /\ readErr = "none"
    /\ up = <<>> /\ down = <<>> /\ assigned = {} /\ served = {}
    /\ data = [o \in Opens |-> NoData]

-----------------------------------------------------------------------------
\* Manager.Run.

Top ==
    /\ pc = "top"
    /\ IF cancelled
       THEN state' = "stopped" /\ pc' = "stopped"
       ELSE state' = "connecting" /\ pc' = "dial"
    /\ UNCHANGED <<cancelled, ses, conn, first, gen, local, closeOnce, todo,
                   callVars, beatVars, readErr, up, down, serverVars, data>>

\* Classify of what the session returned, and what Run does with it
Outcome(class) ==
    IF class = "temporary"
    THEN state' = "disconnected" /\ pc' = "backoff"
    ELSE state' = "stopped" /\ pc' = "stopped"

\* The end of the backoff, or the context is done before.
Backoff ==
    /\ pc = "backoff"
    /\ \/ pc' = "top" /\ UNCHANGED state
       \/ cancelled /\ state' = "stopped" /\ pc' = "stopped"
    /\ UNCHANGED <<cancelled, ses, conn, first, gen, local, closeOnce, todo,
                   callVars, beatVars, readErr, up, down, serverVars, data>>

Cancel ==
    /\ ~cancelled
    /\ cancelled' = TRUE
    /\ UNCHANGED <<state, pc, ses, conn, first, gen, local, closeOnce, todo,
                   callVars, beatVars, readErr, up, down, serverVars, data>>

-----------------------------------------------------------------------------
\* runSession.

\* transport.Dial: the TCP connection, within its timeout ...
Connect ==
    /\ pc = "dial" /\ ses < MaxSessions
    /\ pc' = "handshake"
    /\ UNCHANGED <<state, cancelled, ses, conn, first, gen, local, closeOnce, todo,
                   callVars, beatVars, readErr, up, down, serverVars, data>>

\* ... and the TLS handshake, which has neither a deadline nor the context.  The
\* new connection becomes Client.conn and the pending table is renewed.
Dial ==
    /\ pc = "handshake" /\ ses < MaxSessions
    /\ pc' = "hello" /\ ses' = ses + 1 /\ conn' = "up" /\ first' = "none"
    /\ up' = <<>> /\ down' = <<>> /\ readErr' = "none" /\ quiet' = 0 /\ served' = {}
    /\ pending' = {}
    /\ given' = given \cup {r.seq : r \in pending}
    /\ UNCHANGED <<state, cancelled, gen, local, closeOnce, todo, seq, call,
                   missed, assigned, data>>

DialFails ==
    /\ pc \in {"dial", "handshake"}
    /\ \E class \in {"temporary", "permanent"} : Outcome(class)
    /\ UNCHANGED <<cancelled, ses, conn, first, gen, local, closeOnce, todo,
                   callVars, beatVars, readErr, up, down, serverVars, data>>

\* The deferred functions: CloseAllDataConns within closeOnce, conn.Close.
EndSession(class) ==
    /\ Outcome(class)
    /\ conn' = "off" /\ up' = <<>>
    /\ closeOnce' = TRUE
    /\ data' = [o \in Opens |->
                  IF ~closeOnce /\ data[o].st = "open" /\ data[o].gen = gen
                  THEN [data[o] EXCEPT !.st = "end"] ELSE data[o]]

\* WriteFrame on Client.conn.  One that has failed may take the frame or not.
MayWrite == conn # "off" /\ (conn = "up" => Len(up) < MaxUp)
MayFail == conn # "up"
Write(r) ==
    /\ MayWrite
    /\ up' = IF conn = "up" THEN Append(up, r) ELSE up

SendHello ==
    /\ pc = "hello"
    /\ \/ /\ Write(Request("hello", NoCall))
          /\ first' = IF first = "none" THEN "hello" ELSE first
          /\ pc' = "answer"
          /\ UNCHANGED <<state, conn, closeOnce, data>>
       \/ MayFail /\ EndSession("temporary") /\ UNCHANGED first
    /\ UNCHANGED <<cancelled, ses, gen, local, todo, callVars, beatVars,
                   readErr, down, serverVars>>

\* The read of the hello response: server_hello, a refusal, or a timeout, a
\* connection that is lost or a frame that does not belong here.
ReadHello ==
    /\ pc = "answer"
    /\ \/ /\ down # <<>> /\ Head(down).type = "server_hello"
          /\ down' = Tail(down)
          /\ pc' = "setup"
          /\ UNCHANGED <<state, conn, up, closeOnce, data>>
       \/ /\ down # <<>> /\ Head(down).type = "fatal"
          /\ down' = Tail(down)
          /\ EndSession("permanent")
       \/ EndSession("temporary") /\ UNCHANGED down
    /\ UNCHANGED <<cancelled, ses, first, gen, local, todo, callVars, beatVars,
                   readErr, serverVars>>

\* setupTunnels; the read loop is running.
Setup ==
    /\ pc = "setup"
    /\ \/ /\ gen' = ses /\ todo' = Conf /\ pc' = "register"
          /\ UNCHANGED <<state, conn, up, closeOnce, data>>
       \/ EndSession("temporary") /\ UNCHANGED <<gen, todo>>
    /\ UNCHANGED <<cancelled, ses, first, local, callVars, beatVars, readErr,
                   down, serverVars>>

\* A tick of the heartbeat: the ping is written, and may be answered ...
Ping ==
    /\ pc = "loop"
    /\ Write(Request("ping", NoCall))
    /\ pc' = "count"
    /\ quiet' = IF quiet > MissThreshold THEN quiet ELSE quiet + 1
    /\ UNCHANGED <<state, conn, closeOnce, data, missed, cancelled, ses, first, gen,
                   local, todo, callVars, readErr, down, serverVars>>

\* Mutant: the ping is not counted.
CountNone ==
    /\ pc = "count" /\ pc' = "loop"
    /\ UNCHANGED <<state, conn, closeOnce, data, missed, cancelled, ses, first, gen, local,
                   todo, callVars, quiet, readErr, up, down, serverVars>>

\* ... before it is counted as missed.  The counts are kept up to the threshold
\* and one more.
Count ==
    /\ pc = "count"
    /\ missed' = IF missed > MissThreshold THEN missed ELSE missed + 1
    /\ IF missed + 1 > MissThreshold
       THEN EndSession("temporary")
       ELSE pc' = "loop" /\ UNCHANGED <<state, conn, up, closeOnce, data>>
    /\ UNCHANGED <<cancelled, ses, first, gen, local, todo, callVars, quiet, readErr,
                   down, serverVars>>

PingFails ==
    /\ pc = "loop" /\ MayFail
    /\ EndSession("temporary")
    /\ UNCHANGED <<cancelled, ses, first, gen, local, todo, callVars, beatVars,
                   readErr, down, serverVars>>

\* Mutant: a control connection that is lost hides the context.
LoopCancelledLate ==
    /\ pc = "loop" /\ cancelled /\ readErr # "none"
    /\ EndSession("stop")
    /\ UNCHANGED <<cancelled, ses, first, gen, local, todo, callVars, beatVars,
                   readErr, down, serverVars>>

\* The context is done: tell the server and return nil.
LoopCancelled ==
    /\ pc = "loop" /\ cancelled
    /\ EndSession("stop")
    /\ UNCHANGED <<cancelled, ses, first, gen, local, todo, callVars, beatVars,
                   readErr, down, serverVars>>

\* The read loop has returned.
LoopReadErr ==
    /\ pc = "loop" /\ readErr # "none"
    /\ EndSession(CASE readErr = "lost" -> "temporary"
                    [] readErr = "fatal" -> "permanent"
                    [] readErr = "graceful" -> "stop")
    /\ UNCHANGED <<cancelled, ses, first, gen, local, todo, callVars, beatVars,
                   readErr, down, serverVars>>

-----------------------------------------------------------------------------
\* Register and unregister calls.

\* RegisterTunnel up to its entry in the table of calls: not connected, no
\* tunnel client and a name that is running already are errors.
Enter(c, n) ==
    /\ ses > 0 /\ gen > 0
    /\ \A t \in Known(gen) : t.name # n
    /\ seq < MaxSeq
    /\ seq' = seq + 1
    /\ pending' = pending \cup {[seq |-> seq + 1, name |-> n]}
    /\ call' = [call EXCEPT ![c] = [st |-> "entered", name |-> n, seq |-> seq + 1,
                                    id |-> 0, ok |-> FALSE]]
    /\ UNCHANGED given

Start(c, n) ==
    /\ c \in Commands /\ call[c].st = "idle"
    /\ Enter(c, n)
    /\ UNCHANGED <<runVars, gen, local, closeOnce, todo, beatVars, readErr, up, down,
                   serverVars, data>>

\* registerConfiguredTunnels: the next tunnel, or on to the heartbeat loop; a
\* tunnel that cannot be registered is logged and left out (and one for which
\* the bound leaves no call).
RegisterNext ==
    /\ pc = "register" /\ call[Main].st = "idle"
    /\ \/ /\ todo # <<>> /\ todo' = Tail(todo)
          /\ \/ Enter(Main, Head(todo))
             \/ /\ (\E t \in Known(gen) : t.name = Head(todo)) \/ seq = MaxSeq
                /\ UNCHANGED callVars
          /\ UNCHANGED pc
       \/ todo = <<>> /\ pc' = "loop" /\ UNCHANGED <<todo, callVars>>
    /\ UNCHANGED <<state, cancelled, ses, conn, first, gen, local, closeOnce,
                   beatVars, readErr, up, down, serverVars, data>>

\* UnregisterTunnel: the id is looked up before the call is entered.
Stop(c, t) ==
    /\ c \in Commands /\ call[c].st = "idle"
    /\ ses > 0 /\ t \in Known(gen)
    /\ seq < MaxSeq
    /\ seq' = seq + 1
    /\ pending' = pending \cup {[seq |-> seq + 1, name |-> NoName]}
    /\ call' = [call EXCEPT ![c] = [st |-> "entered", name |-> NoName,
                                    seq |-> seq + 1, id |-> t.id, ok |-> FALSE]]
    /\ UNCHANGED <<given, runVars, gen, local, closeOnce, todo, beatVars, readErr,
                   up, down, serverVars, data>>

GiveUp(c) ==
    /\ pending' = {r \in pending : r.seq # call[c].seq}
    /\ given' = given \cup {call[c].seq}
    /\ call' = [call EXCEPT ![c] = NoCall]

\* rpcSpec: the request is written on the connection Client.conn is now.
Send(c) ==
    /\ call[c].st = "entered"
    /\ \/ /\ Write(Request("call", call[c]))
          /\ call' = [call EXCEPT ![c].st = "wait"]
          /\ first' = IF first = "none" THEN "call" ELSE first
          /\ UNCHANGED <<pending, given>>
       \/ MayFail /\ GiveUp(c) /\ UNCHANGED <<first, up>>
    /\ UNCHANGED <<state, pc, cancelled, ses, conn, gen, local, closeOnce, todo, seq,
                   beatVars, readErr, down, serverVars, data>>

\* Eight seconds, or the context of the caller, whichever ends first; a reply
\* may be there already.
Timeout(c) ==
    /\ call[c].st \in {"wait", "replied"}
    /\ GiveUp(c)
    /\ UNCHANGED <<seq, runVars, gen, local, closeOnce, todo, beatVars, readErr,
                   up, down, serverVars, data>>

\* The reply: the tunnel of a granted unregister call is removed from the
\* tunnel client there is now.
Return(c) ==
    /\ call[c].st = "replied"
    /\ call' = [call EXCEPT ![c] = NoCall]
    /\ IF call[c].name = NoName /\ call[c].ok
       THEN local' = [local EXCEPT ![gen] = {t \in @ : t.id # call[c].id}]
       ELSE UNCHANGED local
    /\ UNCHANGED <<seq, pending, given, runVars, gen, closeOnce, todo, beatVars,
                   readErr, up, down, serverVars, data>>

-----------------------------------------------------------------------------
\* readLoop.

Reading == pc \in {"setup", "register", "loop", "count"} /\ readErr = "none"

Take(types) ==
    /\ Reading /\ down # <<>> /\ Head(down).type \in types
    /\ down' = Tail(down)

ReadPong ==
    /\ Take({"pong"})
    /\ missed' = 0 /\ quiet' = 0
    /\ UNCHANGED <<runVars, gen, local, closeOnce, todo, callVars, readErr,
                   up, serverVars, data>>

\* Mutant: the reply is for whoever waits.
WaitersAny(f) == pending
\* takePending
Waiters(f) == {r \in pending : r.seq = f.seq}

\* Mutant: the caller is left to enter the tunnel.
ReadReplyNoEntry ==
    /\ Take({"ok", "refused"})
    /\ LET f == Head(down) IN
       /\ pending' = pending \ Waiters(f)
       /\ call' = [c \in Callers |->
            IF call[c].st = "wait" /\ \E r \in Waiters(f) : r.seq = call[c].seq
            THEN [call[c] EXCEPT !.st = "replied", !.ok = f.type = "ok"] ELSE call[c]]
       /\ UNCHANGED local
    /\ UNCHANGED <<seq, given, runVars, gen, closeOnce, todo, beatVars, readErr,
                   up, serverVars, data>>

\* The reply to a call: a tunnel that is granted is entered here, in frame
\* order, then the caller gets the reply.
ReadReply ==
    /\ Take({"ok", "refused"})
    /\ LET f == Head(down) IN
       /\ pending' = pending \ Waiters(f)
       /\ call' = [c \in Callers |->
            IF call[c].st = "wait" /\ \E r \in Waiters(f) : r.seq = call[c].seq
            THEN [call[c] EXCEPT !.st = "replied", !.ok = f.type = "ok"] ELSE call[c]]
       /\ IF gen > 0 /\ f.type = "ok"
          THEN local' = [local EXCEPT ![gen] = @ \cup
                 {[id |-> f.id, name |-> r.name] :
                     r \in {w \in Waiters(f) : w.name # NoName}}]
          ELSE UNCHANGED local
    /\ UNCHANGED <<seq, given, runVars, gen, closeOnce, todo, beatVars, readErr,
                   up, serverVars, data>>

\* Mutant: any frame of the server counts as a pong.
ReadOpenAlive ==
    /\ Take({"open"})
    /\ data' = [data EXCEPT ![Head(down).seq].st = "asked"]
    /\ missed' = 0
    /\ UNCHANGED <<runVars, gen, local, closeOnce, todo, callVars, quiet,
                   readErr, up, serverVars>>

\* open_connection starts a goroutine.
ReadOpen ==
    /\ Take({"open"})
    /\ data' = [data EXCEPT ![Head(down).seq].st = "asked"]
    /\ UNCHANGED <<runVars, gen, local, closeOnce, todo, callVars, beatVars,
                   readErr, up, serverVars>>

\* A fatal error, a shutdown, or the end of the connection.
ReadEnds ==
    /\ \/ Take({"fatal"}) /\ readErr' = "fatal"
       \/ Take({"shutdown"}) /\ readErr' = "graceful"
       \/ Reading /\ down = <<>> /\ conn = "closed" /\ readErr' = "lost" /\ UNCHANGED down
    /\ UNCHANGED <<runVars, gen, local, closeOnce, todo, callVars, beatVars,
                   up, serverVars, data>>

-----------------------------------------------------------------------------
\* HandleOpenConnection, in its goroutine.

\* The tunnel is looked up in the tunnel client there is now.
LookupTunnel(o) ==
    /\ data[o].st = "asked"
    /\ \/ /\ \E t \in Known(gen) : t.id = data[o].id
          /\ data' = [data EXCEPT ![o].st = "dial", ![o].gen = gen]
       \/ /\ \A t \in Known(gen) : t.id # data[o].id
          /\ data' = [data EXCEPT ![o].st = "end"]
    /\ UNCHANGED <<runVars, gen, local, closeOnce, todo, callVars, beatVars,
                   readErr, up, down, serverVars>>

\* Both ends are dialled and the connection is tracked, or a dial fails.
OpenData(o) ==
    /\ data[o].st = "dial"
    /\ \E st \in {"open", "end"} : data' = [data EXCEPT ![o].st = st]
    /\ UNCHANGED <<runVars, gen, local, closeOnce, todo, callVars, beatVars,
                   readErr, up, down, serverVars>>

SpliceEnds(o) ==
    /\ data[o].st = "open"
    /\ data' = [data EXCEPT ![o].st = "end"]
    /\ UNCHANGED <<runVars, gen, local, closeOnce, todo, callVars, beatVars,
                   readErr, up, down, serverVars>>

-----------------------------------------------------------------------------
\* The server, as this connection sees it, and the network.

clientVars == <<state, pc, cancelled, ses, first, gen, local, closeOnce, todo,
                callVars, beatVars, readErr>>

\* WriteFrame of the server, and what it does to the connection.
Reply(f) == Len(down) < MaxDown /\ down' = Append(down, f)

\* handleControlConn: a first frame other than client_hello is refused, and a
\* client_hello may be; otherwise the session starts with server_hello.
Admit ==
    /\ conn = "up" /\ up # <<>>
    /\ \/ /\ first = "hello" /\ Head(up).type = "hello"
          /\ Reply(Frame("server_hello", 0, 0))
          /\ up' = Tail(up) /\ UNCHANGED conn
       \/ /\ first = "call" \/ Head(up).type = "hello"
          /\ Reply(Frame("fatal", 0, 0))
          /\ up' = <<>> /\ conn' = "closed"
    /\ UNCHANGED <<clientVars, serverVars, data>>

\* The server's readLoop comes to a frame of the type.
Handles(type) ==
    conn = "up" /\ first = "hello" /\ up # <<>> /\ Head(up).type = type

Pong ==
    /\ Handles("ping")
    /\ Reply(Frame("pong", 0, 0)) /\ up' = Tail(up)
    /\ UNCHANGED <<clientVars, conn, serverVars, data>>

\* Manager.Register and AddVhostTunnel: the tunnel is entered under an id that
\* was never used, and its accept loop runs before the reply is written.
NewId == Cardinality(assigned) + 1
Grants(r) == {a \in assigned : a.seq = r.seq}
Grant ==
    /\ Handles("call") /\ Head(up).name # NoName /\ Grants(Head(up)) = {}
    /\ assigned' = assigned \cup
                     {[id |-> NewId, name |-> Head(up).name, seq |-> Head(up).seq]}
    /\ served' = served \cup {NewId}
    /\ UNCHANGED <<clientVars, conn, up, down, data>>

\* handleRegisterTunnel and handleRegisterVhost, the reply: with the tunnel, or
\* without; one whose host or listener is not to be had is removed again.
RegisterReply ==
    /\ Handles("call") /\ Head(up).name # NoName
    /\ LET r == Head(up) IN
       \/ /\ \E a \in Grants(r) : Reply(Frame("ok", r.seq, a.id))
          /\ UNCHANGED served
       \/ /\ Reply(Frame("refused", r.seq, 0))
          /\ served' = served \ {a.id : a \in Grants(r)}
    /\ up' = Tail(up)
    /\ UNCHANGED <<clientVars, conn, assigned, data>>

\* handleUnregisterTunnel: refused when there are too many, and otherwise done,
\* whether the tunnel is still there or not.
UnregisterReply ==
    /\ Handles("call") /\ Head(up).name = NoName
    /\ LET r == Head(up) IN
       \/ /\ Reply(Frame("ok", r.seq, r.id))
          /\ served' = served \ {r.id}
       \/ Reply(Frame("refused", r.seq, 0)) /\ UNCHANGED served
    /\ up' = Tail(up)
    /\ UNCHANGED <<clientVars, conn, assigned, data>>

\* open_connection, for a public connection or a UDP channel, from a goroutine
\* of its own: before the reply that announces the tunnel, after the one that
\* ends it, or for a tunnel of an earlier session.
ServerOpens(o, id) ==
    /\ conn = "up" /\ first = "hello"
    /\ data[o].st = "none" /\ \E a \in assigned : a.id = id
    /\ data' = [data EXCEPT ![o] = [st |-> "sent", id |-> id, gen |-> 0]]
    /\ Reply(Frame("open", o, id))
    /\ UNCHANGED <<clientVars, conn, up, serverVars>>

\* A newer session replaces this one, or the server shuts down.
ServerEnds(type) ==
    /\ conn = "up" /\ first = "hello"
    /\ Reply(Frame(type, 0, 0))
    /\ up' = <<>> /\ conn' = "closed"
    /\ UNCHANGED <<clientVars, serverVars, data>>

\* The connection breaks, with what is on it, or goes silent.
Breaks ==
    /\ conn \in {"up", "silent", "closed"}
    /\ \/ conn' = "closed" /\ down' = <<>>
       \/ conn = "up" /\ conn' = "silent" /\ UNCHANGED down
    /\ up' = <<>>
    /\ UNCHANGED <<clientVars, serverVars, data>>

-----------------------------------------------------------------------------
CallStep(c) == Send(c) \/ Timeout(c) \/ Return(c)
ReadStep == ReadPong \/ ReadReply \/ ReadOpen \/ ReadEnds
DataStep(o) == LookupTunnel(o) \/ OpenData(o)
ServerStep == Admit \/ Pong \/ Grant \/ RegisterReply \/ UnregisterReply

Next ==
    \/ Top \/ Backoff \/ Cancel
    \/ Connect \/ Dial \/ DialFails \/ SendHello \/ ReadHello \/ Setup \/ RegisterNext
    \/ Ping \/ Count \/ PingFails \/ LoopCancelled \/ LoopReadErr
    \/ \E c \in Commands, n \in Names : Start(c, n)
    \/ \E c \in Commands, t \in Known(gen) : Stop(c, t)
    \/ \E c \in Callers : CallStep(c)
    \/ ReadStep
    \/ \E o \in Opens : DataStep(o) \/ SpliceEnds(o)
    \/ ServerStep
    \/ \E o \in Opens, a \in assigned : ServerOpens(o, a.id)
    \/ \E type \in {"fatal", "shutdown"} : ServerEnds(type)
    \/ Breaks

Spec == Init /\ [][Next]_vars

\* Every goroutine of the client runs and timers fire; select chooses among the
\* ready cases at random, so one that is ready each time is taken in the end.
\* Nothing makes a TLS handshake end, and nothing the server answer.
FairSpec ==
    /\ Spec
    /\ WF_vars(Top) /\ WF_vars(Backoff) /\ WF_vars(pc = "dial" /\ (Connect \/ DialFails))
    /\ WF_vars(SendHello) /\ WF_vars(ReadHello) /\ WF_vars(Setup)
    /\ WF_vars(RegisterNext) /\ WF_vars(Ping) /\ WF_vars(Count)
    /\ SF_vars(LoopCancelled) /\ SF_vars(LoopReadErr)
    /\ WF_vars(ReadStep)
    /\ \A c \in Callers : WF_vars(CallStep(c))
    /\ \A o \in Opens : WF_vars(DataStep(o))

-----------------------------------------------------------------------------
\* Properties.

\* Types: the states of the manager, the session, the calls in flight and the
\* frames on their way.
Call == [st : {"idle", "entered", "wait", "replied"}, name : Names \cup {NoName},
         seq : Nat, id : Nat, ok : BOOLEAN]
Types == {"server_hello", "fatal", "shutdown", "pong", "ok", "refused", "open"}

TypeOK ==
    /\ state \in {"disconnected", "connecting", "stopped"}
    /\ pc \in {"top", "dial", "handshake", "hello", "answer", "setup", "register", "loop",
               "count", "backoff", "stopped"}
    /\ ses \in 0..MaxSessions /\ gen \in 0..ses
    /\ conn \in {"off", "up", "silent", "closed"}
    /\ local \in [Sessions -> SUBSET [id : Nat, name : Names]]
    /\ todo \in Seq(Names)
    /\ seq \in Nat /\ given \subseteq Nat
    /\ pending \subseteq [seq : Nat, name : Names \cup {NoName}]
    /\ call \in [Callers -> Call]
    /\ missed \in 0..MissThreshold + 1 /\ quiet \in 0..MissThreshold + 1
    /\ up \in Seq([type : {"hello", "ping", "call"}, seq : Nat,
                   name : Names \cup {NoName}, id : Nat])
    /\ down \in Seq([type : Types, seq : Nat, id : Nat])
    /\ assigned \subseteq [id : Nat, name : Names, seq : Nat] /\ IsFiniteSet(assigned)
    /\ served \subseteq Nat
    /\ data \in [Opens -> [st : {"none", "sent", "asked", "dial", "open", "end"},
                           id : Nat, gen : 0..MaxSessions]]

\* A tunnel the client knows by an id and a name is one the server gave that
\* id for a request of that name, over concurrent commands, calls that time
\* out and replies that are late.
EntryIsGranted ==
    \A g \in Sessions : \A t \in local[g] :
        \E a \in assigned : a.id = t.id /\ a.name = t.name

\* What the server serves for this session is not forgotten on the way: the
\* client knows the tunnel, will know it when it reads the reply under way, or
\* has given up the call.  So an open_connection that is dropped as "unknown
\* tunnel" came before the reply, after the end of the tunnel, or for a call
\* nobody waited for (client.go:404: "the tunnel must already be known").
KnownId(id) == \E g \in Sessions : \E t \in local[g] : t.id = id
ServedIsKnown ==
    conn = "up" => \A id \in served :
        \E a \in assigned :
            /\ a.id = id
            /\ \/ KnownId(id) \/ a.seq \in given
               \/ \E i \in 1..Len(up) : up[i].type = "call" /\ up[i].seq = a.seq
               \/ \E i \in 1..Len(down) : down[i] = Frame("ok", a.seq, id)

\* A call that waits is in the table, so that its reply finds it, unless the
\* session it was entered in is over.
WaiterIsPending ==
    \A c \in Callers : call[c].st \in {"entered", "wait"} =>
        (\E r \in pending : r.seq = call[c].seq) \/ call[c].seq \in given

\* The count is never below the pings of this session that were not answered,
\* though it is raised after the write, is set back by a pong that comes
\* in between, and is carried from one session to the next: a dead connection
\* is given up after miss_threshold pings, or sooner.
NeverUndercounts ==
    pc = "loop" => missed >= quiet

\* The inductive invariant behind them.  The count lags by the one ping that
\* is written and not counted yet.
BeatOK ==
    /\ pc \in {"hello", "answer", "setup", "register"} => quiet = 0
    /\ NeverUndercounts
    /\ pc = "count" => missed + 1 >= quiet

\* A sequence number belongs to one call, and the table has its name.
CallsOK ==
    /\ pending # {} => gen > 0
    /\ \A r \in pending : r.seq \in 1..seq
    /\ \A c \in Callers : call[c].st # "idle" =>
          /\ call[c].seq \in 1..seq
          /\ \A e \in Callers : call[e].st # "idle" /\ call[e].seq = call[c].seq => e = c
          /\ \A r \in pending : r.seq = call[c].seq => r.name = call[c].name
          /\ call[c].name = NoName => call[c].id \in 1..Cardinality(assigned)

IsCall(i) == up[i].type = "call"
IsReply(i) == down[i].type \in {"ok", "refused"}

\* A call is on its way at most once, after it was sent, and belongs to a caller
\* who waits for it or has given up.
RequestsOK ==
    \A i \in 1..Len(up) : IsCall(i) =>
        /\ up[i].seq \in 1..seq
        /\ \A c \in Callers : call[c].st # "idle" /\ call[c].seq = up[i].seq =>
              call[c].st # "entered" /\ call[c].name = up[i].name /\ call[c].id = up[i].id
        /\ \A j \in 1..Len(up) : IsCall(j) /\ up[j].seq = up[i].seq => i = j
        /\ \A j \in 1..Len(down) : IsReply(j) => down[j].seq # up[i].seq
        /\ \/ up[i].seq \in given
           \/ \E r \in pending : r.seq = up[i].seq
        /\ \A r \in pending : r.seq = up[i].seq => r.name = up[i].name

\* So is its reply; one that grants a tunnel names the request the server
\* granted.
RepliesOK ==
    \A i \in 1..Len(down) : IsReply(i) =>
        /\ down[i].seq \in 1..seq
        /\ \A c \in Callers : call[c].st = "entered" => call[c].seq # down[i].seq
        /\ \A j \in 1..Len(down) : IsReply(j) /\ down[j].seq = down[i].seq => i = j
        /\ \/ down[i].seq \in given
           \/ \E r \in pending : r.seq = down[i].seq
        /\ \A r \in pending :
              down[i].type = "ok" /\ r.seq = down[i].seq /\ r.name # NoName =>
                 [id |-> down[i].id, name |-> r.name, seq |-> r.seq] \in assigned

\* The ids of the server are numbered from 1 on; a grant is for a call that was
\* sent, under the name it has.
AssignedOK ==
    /\ \A a \in assigned :
          /\ a.id \in 1..Cardinality(assigned)
          /\ a.seq \in 1..seq
          /\ \A b \in assigned : b.seq = a.seq => b = a
          /\ \A c \in Callers : call[c].st = "entered" => call[c].seq # a.seq
          /\ \A i \in 1..Len(up) : IsCall(i) /\ up[i].seq = a.seq => up[i].name = a.name
          /\ \A r \in pending : r.seq = a.seq => r.name = a.name
    /\ served \subseteq 1..Cardinality(assigned)

\* A tunnel whose unregister call was granted is not served any more.
RetiredOK ==
    \A c \in Callers : call[c].name = NoName =>
        /\ call[c].st = "replied" /\ call[c].ok => call[c].id \notin served
        /\ call[c].st = "wait" =>
              \A i \in 1..Len(down) : down[i].type = "ok" /\ down[i].seq = call[c].seq =>
                  call[c].id \notin served

CoreInv ==
    /\ CallsOK /\ RequestsOK /\ RepliesOK /\ AssignedOK /\ RetiredOK
    /\ EntryIsGranted /\ ServedIsKnown /\ WaiterIsPending
ClientInv == TypeOK /\ BeatOK /\ CoreInv

\* The process stops in the end when it is told to, wherever it is, unless a
\* handshake hangs for ever.
StopsOnCancel == cancelled ~> (state = "stopped" \/ [](pc = "handshake"))

\* A connection that goes silent does not hold the client: the session ends
\* in the end, by a lost heartbeat, a failed call or the context.
SilenceIsNoticed ==
    \A k \in Sessions : (ses = k /\ conn = "silent") ~> (ses # k \/ conn # "silent")

\* docs/plan/04-protocol-v1.md:71: the connection is given up after
\* miss_threshold pings of it in a row without a pong.
HeartbeatFresh == missed <= quiet

\* docs/conn-manager-state.md:48: the control connection ends and with it
\* every data connection.
DataConnsClosed ==
    [][conn # "off" /\ conn' = "off" => \A o \in Opens : data'[o].st # "open"]_vars

\* docs/conn-manager-state.md:36: after a reconnect every enabled tunnel is
\* registered again, as long as the session lasts.
ReRegistered ==
    \A k \in Sessions, n \in Names :
        (ses = k /\ pc = "loop" /\ \E i \in 1..Len(Conf) : Conf[i] = n)
            ~> ((\E t \in Known(gen) : t.name = n) \/ ses # k \/ pc \notin {"loop", "count"})

\* docs/conn-manager-state.md:37: a session that was replaced, and is sent a
\* fatal error, stops for good.
KickedStops ==
    [][(pc \in {"loop", "count"}) /\ (\E i \in 1..Len(down) : down[i].type = "fatal")
          => pc' # "backoff"]_vars

\* docs/conn-manager-state.md:15 and 49: a manager that connects stops once the
\* context is done, and all IO has a deadline.
CancelStops == cancelled ~> (state = "stopped")

\* internal/clientcore/client.go:404: the tunnel of an open_connection is known.
TunnelKnown ==
    Reading /\ down # <<>> /\ Head(down).type = "open" =>
        \E t \in Known(gen) : t.id = Head(down).id

\* docs/protocol-state.md:21: a control connection starts with client_hello.
HelloFirst == first # "call"

\* docs/conn-manager-state.md:23: the manager is online once its tunnels are
\* registered.
OnlineWhenServing == pc = "loop" /\ conn = "up" => state = "online"
=============================================================================
