----------------------------- MODULE DesktopApi -----------------------------
(***************************************************************************)
(* The desktop application: the facade the user interface calls            *)
(* (internal/coreapi/coreapi.go, cmd/desktop/main.go) with its client      *)
(* goroutine, client.toml, and the files of the device identity.           *)
(*                                                                         *)
(* Every call holds API.mu; an enrollment holds it while it waits for the  *)
(* server.  What the client does while it runs is in ClientConn: here it   *)
(* is in a TLS handshake or not.  A setting is good or bad for             *)
(* config.ValidateClient; a key, a certificate and state.json are known by *)
(* the enrollment they are of.                                             *)
(***************************************************************************)
EXTENDS Naturals

CONSTANTS
    Names,      \* tunnel names
    MaxRuns,    \* bound: clients started
    MaxEnrolls, \* bound: enrollments
    Cut         \* a file that is truncated and not, or not fully, written

ASSUME DesktopApiAssumption == MaxRuns \in Nat /\ MaxEnrolls \in Nat /\ Cut \notin Nat

VARIABLES
    app,        \* the process
    toml,       \* client.toml
    cfg,        \* API.cfg
    client,     \* API.client, by the run it is of; 0 is nil
    run,        \* the goroutine of each Start
    cancelled,  \* runs whose context is done
    enr,        \* the enrollment under way and how far it is
    keyOf, certOf, caOf, stateOf    \* the identity: the enrollment each is of

runVars == <<client, run, cancelled>>
identVars == <<enr, keyOf, certOf, caOf, stateOf>>
desktopVars == <<app, toml, cfg, runVars, identVars>>

Runs == 1..MaxRuns
Setting == {"good", "bad"}
ClientConfig == [addr : Setting, tunnels : [Names -> Setting \cup {"none"}]]
Default == [addr |-> "bad", tunnels |-> [n \in Names |-> "none"]]
Missing == [Default EXCEPT !.addr = "missing"]

DesktopInit ==
    /\ app = "off" /\ toml = Missing /\ cfg = Default
    /\ client = 0 /\ run = [k \in Runs |-> "none"] /\ cancelled = {}
    /\ enr = [n |-> 0, step |-> "no"] /\ keyOf = 0 /\ certOf = 0 /\ caOf = 0 /\ stateOf = 0

\* A call gets API.mu: the application is open and no enrollment holds it.
Call == app = "open" /\ enr.step = "no"

ValidClientConfig(c) == c.addr = "good" /\ \A n \in Names : c.tunnels[n] # "bad"

-----------------------------------------------------------------------------
\* The process.

\* main writes the default configuration, without an address, when there is
\* none, and New refuses a file that is not valid.
Launch ==
    /\ app = "off"
    /\ toml' = IF toml = Missing THEN Default ELSE toml
    /\ IF ValidClientConfig(toml')
       THEN app' = "open" /\ cfg' = toml'
       ELSE app' = "failed" /\ UNCHANGED cfg
    /\ UNCHANGED <<runVars, identVars>>

\* The configuration is written by hand or by the command line client.
EditFile ==
    /\ app \in {"off", "failed"} /\ toml # Missing
    /\ toml' = [toml EXCEPT !.addr = "good"]
    /\ app' = "off"
    /\ UNCHANGED <<cfg, runVars, identVars>>

Quit ==
    /\ app = "open"
    /\ app' = "off" /\ cfg' = Default
    /\ client' = 0 /\ cancelled' = {}
    /\ run' = [k \in Runs |-> IF run[k] = "none" THEN "none" ELSE "ended"]
    /\ enr' = [enr EXCEPT !.step = "no"]
    /\ UNCHANGED <<toml, keyOf, certOf, caOf, stateOf>>

-----------------------------------------------------------------------------
\* Start and Stop.

\* Start: the CA and the key are parsed, the certificate is only read.
Start(k) ==
    /\ Call /\ client = 0
    /\ run[k] = "none" /\ \A j \in 1..k - 1 : run[j] # "none"
    /\ stateOf # 0 /\ caOf \notin {0, Cut} /\ certOf # 0 /\ keyOf # 0
    /\ client' = k /\ run' = [run EXCEPT ![k] = "running"]
    /\ UNCHANGED <<app, toml, cfg, cancelled, identVars>>

\* client.Run dials: the handshake ends when the server lets it, and is not
\* begun once the context is done.
Handshake(k) ==
    /\ \/ run[k] = "running" /\ k \notin cancelled /\ run' = [run EXCEPT ![k] = "handshake"]
       \/ run[k] = "handshake" /\ run' = [run EXCEPT ![k] = "running"]
    /\ UNCHANGED <<app, toml, cfg, client, cancelled, identVars>>

\* client.Run returns: the context is done, or a permanent error.
RunReturns(k) ==
    /\ run[k] = "running"
    /\ run' = [run EXCEPT ![k] = "returned"]
    /\ UNCHANGED <<app, toml, cfg, client, cancelled, identVars>>

\* Mutant: the goroutine leaves the client in place.
FinishKeepsClient(k) ==
    /\ Call /\ run[k] = "returned"
    /\ run' = [run EXCEPT ![k] = "ended"]
    /\ UNCHANGED <<app, toml, cfg, client, cancelled, identVars>>

\* Mutant: the result is sent though nobody has taken the one before.
FinishBlocks(k) ==
    /\ Call /\ run[k] = "returned"
    /\ \A j \in Runs : run[j] # "ended"
    /\ run' = [run EXCEPT ![k] = "ended"]
    /\ client' = 0
    /\ UNCHANGED <<app, toml, cfg, cancelled, identVars>>

\* What the goroutine does then, under the lock.
Finish(k) ==
    /\ Call /\ run[k] = "returned"
    /\ run' = [run EXCEPT ![k] = "ended"]
    /\ client' = 0
    /\ UNCHANGED <<app, toml, cfg, cancelled, identVars>>

Stop ==
    /\ Call /\ client # 0
    /\ cancelled' = cancelled \cup {client} /\ client' = 0
    /\ UNCHANGED <<app, toml, cfg, run, identVars>>

-----------------------------------------------------------------------------
\* The configuration.

\* persistConfig, or the error of the write
Persist == toml' \in {cfg', toml}

\* UpdateConfig: the settings are applied, then validated.
UpdateConfig(c) ==
    /\ Call
    /\ cfg' = c
    /\ IF ValidClientConfig(c) THEN Persist ELSE UNCHANGED toml
    /\ UNCHANGED <<app, runVars, identVars>>

\* UpsertTunnel: the tunnel is validated alone, then entered, then all of it
\* is validated.
UpsertTunnel(n, s) ==
    /\ Call
    /\ cfg.addr = "good" /\ s = "good"
    /\ cfg' = [cfg EXCEPT !.tunnels[n] = s]
    /\ IF ValidClientConfig(cfg') THEN Persist ELSE UNCHANGED toml
    /\ UNCHANGED <<app, runVars, identVars>>

DeleteTunnel(n) ==
    /\ Call /\ cfg.tunnels[n] # "none"
    /\ cfg' = [cfg EXCEPT !.tunnels[n] = "none"]
    /\ Persist
    /\ UNCHANGED <<app, runVars, identVars>>

-----------------------------------------------------------------------------
\* Enroll: the request is sent and its answer awaited, for as long as it takes;
\* then the parts are stored one after the other.  The key and state.json are
\* written at once, the certificate and the CA are truncated first.

Enroll ==
    /\ Call /\ enr.n < MaxEnrolls
    /\ enr' = [n |-> enr.n + 1, step |-> "ask"]
    /\ UNCHANGED <<app, toml, cfg, runVars, keyOf, certOf, caOf, stateOf>>

\* The server has issued the certificate.
Answer ==
    /\ enr.step = "ask"
    /\ enr' = [enr EXCEPT !.step = "key"]
    /\ UNCHANGED <<app, toml, cfg, runVars, keyOf, certOf, caOf, stateOf>>

NextStep == [key |-> "cert1", cert1 |-> "cert2", cert2 |-> "ca1", ca1 |-> "ca2",
             ca2 |-> "state", state |-> "no"]

\* os.WriteFile: what the file is after the step, of its two
Written(first, second, file) ==
    CASE enr.step = first -> Cut
      [] enr.step = second -> enr.n
      [] OTHER -> file

\* Mutant: the state is written before what it names.
StoreEarly ==
    /\ enr.step \in DOMAIN NextStep
    /\ stateOf' = enr.n
    /\ keyOf' = IF enr.step = "key" THEN enr.n ELSE keyOf
    /\ certOf' = Written("cert1", "cert2", certOf)
    /\ caOf' = Written("ca1", "ca2", caOf)
    /\ enr' = [enr EXCEPT !.step = NextStep[@]]
    /\ UNCHANGED <<app, toml, cfg, runVars>>

Store ==
    /\ enr.step \in DOMAIN NextStep
    /\ keyOf' = IF enr.step = "key" THEN enr.n ELSE keyOf
    /\ certOf' = Written("cert1", "cert2", certOf)
    /\ caOf' = Written("ca1", "ca2", caOf)
    /\ stateOf' = IF enr.step = "state" THEN enr.n ELSE stateOf
    /\ enr' = [enr EXCEPT !.step = NextStep[@]]
    /\ UNCHANGED <<app, toml, cfg, runVars>>

\* The server refuses, the connection fails, or a write does: the call ends.
EnrollFails ==
    /\ enr.step # "no"
    /\ enr' = [enr EXCEPT !.step = "no"]
    /\ UNCHANGED <<app, toml, cfg, runVars, keyOf, certOf, caOf, stateOf>>

-----------------------------------------------------------------------------
DesktopNext ==
    \/ Launch \/ EditFile \/ Quit
    \/ \E k \in Runs : Start(k) \/ Handshake(k) \/ RunReturns(k) \/ Finish(k)
    \/ Stop
    \/ \E c \in ClientConfig : UpdateConfig(c)
    \/ \E n \in Names, s \in Setting : UpsertTunnel(n, s)
    \/ \E n \in Names : DeleteTunnel(n)
    \/ Enroll \/ Answer \/ Store \/ EnrollFails

DesktopSpec == DesktopInit /\ [][DesktopNext]_desktopVars

\* A goroutine whose context is done returns, unless it is in a handshake, and
\* gets the lock in the end when it is given back time and again (a sync.Mutex
\* starves nobody).  The writes of an enrollment end; nothing makes the server
\* answer.
DesktopFairSpec ==
    /\ DesktopSpec
    /\ \A k \in Runs : WF_desktopVars(k \in cancelled /\ RunReturns(k)) /\ SF_desktopVars(Finish(k))
    /\ WF_desktopVars(enr.step # "ask" /\ (Store \/ EnrollFails))

-----------------------------------------------------------------------------
\* Properties.

\* Types: the process, the configuration and the identity.
DesktopTypeOK ==
    /\ app \in {"off", "open", "failed"}
    /\ toml \in ClientConfig \cup {Missing} /\ cfg \in ClientConfig
    /\ client \in 0..MaxRuns /\ cancelled \subseteq Runs
    /\ run \in [Runs -> {"none", "running", "handshake", "returned", "ended"}]
    /\ {keyOf, stateOf} \subseteq 0..MaxEnrolls
    /\ {certOf, caOf} \subseteq 0..MaxEnrolls \cup {Cut}
    /\ enr \in [n : 0..MaxEnrolls, step : {"no", "ask"} \cup DOMAIN NextStep]

\* A client that Start has left in place has not ended: a user interface that
\* is told it runs can stop it.
ClientIsLive == client # 0 => run[client] \in {"running", "handshake", "returned"}

\* Wherever an enrollment is refused, fails or is cut off, and however often it
\* is repeated: when the stored key is that of the enrollment state.json names,
\* certificate and CA are of that enrollment too, and whole.  Start loads the
\* four without comparing them; an identity of two enrollments, or a truncated
\* one, shows in the key.
IdentityMatches ==
    stateOf # 0 /\ keyOf = stateOf => certOf = stateOf /\ caOf = stateOf

\* Nothing is of an enrollment to come, state.json is the last part written, and
\* an enrollment under way has stored what comes before its step.
StoreOK ==
    /\ keyOf <= enr.n /\ stateOf <= keyOf
    /\ enr.step # "no" => enr.n # 0 /\ stateOf < enr.n
    /\ enr.step \in {"ask", "key"} => keyOf < enr.n
    /\ enr.step \in DOMAIN NextStep \ {"key"} => keyOf = enr.n
    /\ enr.step \in {"ca1", "ca2", "state"} => certOf = enr.n
    /\ enr.step = "state" => caOf = enr.n

\* The inductive invariant behind the two.
DesktopInv == DesktopTypeOK /\ ClientIsLive /\ StoreOK /\ IdentityMatches

\* A client that was told to stop does, unless a handshake, or an enrollment
\* that holds the lock, waits for ever for its server.
StopTakesEffect ==
    \A k \in Runs :
        k \in cancelled ~> (run[k] = "ended" \/ [](run[k] = "handshake") \/ [](enr.step = "ask"))

\* internal/coreapi/coreapi.go:183: Stop stops the client.
StopEnds == \A k \in Runs : k \in cancelled ~> run[k] = "ended"

\* internal/coreapi/coreapi.go:42: the client is nil while stopped: while a
\* run goes on that nobody has stopped it is not nil.
NilWhileStopped ==
    client = 0 => \A k \in Runs : run[k] \in {"running", "handshake"} => k \in cancelled

\* internal/coreapi/coreapi.go:29: all methods validate: what is in client.toml
\* after a call has been validated.
FileIsValid == app = "open" => ValidClientConfig(toml)

\* docs/desktop/user-guide.md:5: the first start creates a configuration the
\* application can be used with.
Opens == app # "failed"
=============================================================================
