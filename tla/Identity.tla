------------------------------ MODULE Identity ------------------------------
(***************************************************************************)
(* The identity of a device as the command line client keeps it: the key   *)
(* in the keystore, the CSR, the certificate, the CA and state.json        *)
(* (cmd/client/main.go, cmd/client/enroll.go, internal/enroll/client.go,   *)
(* internal/platform/keystore).                                            *)
(*                                                                         *)
(* cert init, enroll and renew run one at a time and can be killed between *)
(* any two steps; a client that starts reads the same files meanwhile.     *)
(* `cert init' makes a key and a client id together, so one number stands  *)
(* for both.  A certificate is known by its key and its issuer; that it has *)
(* run out or was revoked is a refusal that can come at any time.          *)
(***************************************************************************)
EXTENDS Naturals

CONSTANTS
    Servers,    \* servers, each with a CA of its own
    Prefs,      \* values of --keystore-backend
    MaxKeys,    \* bound: keys generated
    MaxLeaf     \* bound: certificates a server has had for its own name

ASSUME IdentityAssumption ==
    Prefs \subseteq {"auto", "keyring", "file"} /\ {MaxKeys, MaxLeaf} \subseteq Nat

VARIABLES
    keyring,    \* whether the keyring of the system answers
    store,      \* "client-key" in each backend
    csr, cert, ca, state,   \* the files
    made,       \* keys generated so far
    leaf,       \* which certificate a server presents
    clients,    \* clients.json of each server
    cmd,        \* the command that is running
    last,       \* how the last one ended
    rd          \* a starting client: what it has read

files == <<csr, cert, ca, state>>
Ident == <<cert, ca, state>>
server == <<leaf, clients>>
vars == <<keyring, store, files, made, server, cmd, last, rd>>

Backends == {"keyring", "file"}
None == [is |-> "none"]
Torn == [is |-> "torn"]     \* truncated and not, or not fully, written
Whole(f) == f.is = "whole"

Csr(k) == [is |-> "whole", id |-> k]
Cert(k, s) == [is |-> "whole", id |-> k, srv |-> s]
CA(s) == [is |-> "whole", srv |-> s]
State(k, s, v) == [is |-> "whole", id |-> k, srv |-> s, leaf |-> v]

NoCmd == [op |-> "none"]
NoRun == [at |-> "no"]

Init ==
    /\ keyring \in BOOLEAN /\ store = [b \in Backends |-> 0]
    /\ csr = None /\ cert = None /\ ca = None /\ state = None
    /\ made = 0 /\ leaf = [s \in Servers |-> 1] /\ clients = [s \in Servers |-> {}]
    /\ cmd = NoCmd /\ last = [op |-> "none", res |-> "ok", b |-> "file", kept |-> TRUE]
    /\ rd = NoRun

-----------------------------------------------------------------------------
\* Helpers.

\* The backends OpenWithPref may return: none when the keyring is asked for
\* and does not answer.
Opened(pref) ==
    CASE pref = "file" -> {"file"}
      [] pref = "keyring" -> IF keyring THEN {"keyring"} ELSE {}
      [] pref = "auto" -> IF keyring THEN {"keyring"} ELSE {"file"}

\* The command ends: "ok", "refused" (before Save) or "broken" (a write failed,
\* or the process was killed).  `kept': the identity is the one it began with.
End(res) ==
    /\ cmd' = NoCmd
    /\ last' = [op |-> cmd.op, res |-> res, b |-> cmd.b,
                kept |-> cmd.before = Ident']

\* What a client needs to get through the handshake and the hello: the key of
\* the certificate, the CA that issued it, and the id in it.
Usable(st, a, c, k) ==
    /\ Whole(st) /\ Whole(a) /\ Whole(c)
    /\ c.id = k /\ a.srv = c.srv /\ st.id = c.id

-----------------------------------------------------------------------------
\* cert init.

\* Key and client id are generated and the key stored, in one rename or one
\* call to the keyring.
InitKey(pref) ==
    /\ cmd = NoCmd /\ made < MaxKeys
    /\ \E b \in Opened(pref) :
         /\ store' = [store EXCEPT ![b] = made + 1]
         /\ cmd' = [op |-> "init", before |-> Ident, at |-> "truncate", b |-> b,
                    key |-> made + 1]
    /\ made' = made + 1
    /\ rd' = NoRun
    /\ UNCHANGED <<keyring, files, server, last>>

\* os.WriteFile of the CSR: the file is truncated, then written.
InitTruncate ==
    /\ cmd.op = "init" /\ cmd.at = "truncate"
    /\ csr' = Torn /\ cmd' = [cmd EXCEPT !.at = "write"]
    /\ UNCHANGED <<keyring, store, cert, ca, state, made, server, last, rd>>

InitWrite ==
    /\ cmd.op = "init" /\ cmd.at = "write"
    /\ UNCHANGED <<keyring, store, cert, ca, state, made, server, rd>>
    /\ csr' = Csr(cmd.key) /\ End("ok")

-----------------------------------------------------------------------------
\* enroll and renew.

\* Everything is loaded before anything is sent.  The CSR goes out as it is
\* read; the key has to parse.  `pin' is --ca-fingerprint, "" to trust on
\* first use; `out' says whether --state-out is given.
EnrollLoad(s, pref, pin, out) ==
    /\ cmd = NoCmd /\ csr # None
    /\ \E b \in Opened(pref) :
         /\ store[b] # 0
         /\ cmd' = [op |-> "enroll", before |-> Ident, at |-> "send", b |-> b, key |-> store[b],
                    csr |-> csr, srv |-> s, pin |-> pin, seen |-> 0, out |-> out]
    /\ UNCHANGED <<keyring, store, files, made, server, last, rd>>

\* Mutant: a renewal makes a key of its own and stores it first.
RenewLoadRotates(s, pref) ==
    /\ cmd = NoCmd /\ Whole(state) /\ Whole(cert) /\ made < MaxKeys
    /\ \E b \in Opened(pref) :
         /\ store[b] = cert.id
         /\ store' = [store EXCEPT ![b] = made + 1]
         /\ cmd' = [op |-> "renew", before |-> Ident, at |-> "send", b |-> b, key |-> made + 1,
                    csr |-> Csr(made + 1), srv |-> s, pin |-> <<state.srv, state.leaf>>,
                    seen |-> 0, out |-> TRUE, old |-> cert, st |-> state]
    /\ made' = made + 1
    /\ UNCHANGED <<keyring, files, server, last, rd>>

\* The state gives the pin and, unless --server does, the server; the key has
\* to fit the certificate (tls.X509KeyPair).
RenewLoad(s, pref) ==
    /\ cmd = NoCmd /\ Whole(state) /\ Whole(cert) /\ csr # None
    /\ \E b \in Opened(pref) :
         /\ store[b] = cert.id
         /\ cmd' = [op |-> "renew", before |-> Ident, at |-> "send", b |-> b, key |-> store[b],
                    csr |-> csr, srv |-> s, pin |-> <<state.srv, state.leaf>>, seen |-> 0,
                    out |-> TRUE, old |-> cert, st |-> state]
    /\ UNCHANGED <<keyring, store, files, made, server, last, rd>>

\* VerifyConnection: the fingerprint is the one of the server's certificate.
Trusted == cmd.pin \in {<<>>, <<cmd.srv, leaf[cmd.srv]>>}

\* What the server checks: the CSR, that the id is free or, for a renewal, that
\* the certificate presented is its own and of the client in the CSR.
Accepts ==
    /\ Trusted /\ Whole(cmd.csr)
    /\ IF cmd.op = "enroll"
       THEN cmd.csr.id \notin clients[cmd.srv]
       ELSE cmd.old.srv = cmd.srv /\ cmd.csr.id = cmd.old.id

\* The dial or the handshake fails, or the server refuses: also for the token,
\* or because the certificate has run out or was revoked.
Refused ==
    /\ cmd.op \in {"enroll", "renew"} /\ cmd.at = "send"
    /\ UNCHANGED <<keyring, store, files, made, server, rd>>
    /\ End("refused")

\* The server registers the client and signs.
Signed ==
    /\ cmd.op \in {"enroll", "renew"} /\ cmd.at = "send"
    /\ Accepts
    /\ clients' = IF cmd.op = "enroll"
                  THEN [clients EXCEPT ![cmd.srv] = @ \cup {cmd.csr.id}] ELSE clients
    /\ cmd' = [cmd EXCEPT !.at = "reply", !.seen = leaf[cmd.srv]]
    /\ UNCHANGED <<keyring, store, files, made, leaf, last, rd>>

\* The reply does not arrive in time.
ReplyLost ==
    /\ cmd.op \in {"enroll", "renew"} /\ cmd.at = "reply"
    /\ UNCHANGED <<keyring, store, files, made, server, rd>>
    /\ End("refused")

\* Mutant: the certificate is not compared with the key.
KeyMatchesAny == TRUE

\* The check of the certificate against the local key.
KeyMatches == cmd.csr.id = cmd.key

\* Mutant: the certificate is stored before it is verified.
ReplyStored ==
    /\ cmd.op \in {"enroll", "renew"} /\ cmd.at = "reply"
    /\ cert' = Cert(cmd.csr.id, cmd.srv)
    /\ UNCHANGED <<keyring, store, csr, ca, state, made, server, rd>>
    /\ IF KeyMatches
       THEN cmd' = [cmd EXCEPT !.at = "cert1"] /\ UNCHANGED last
       ELSE End("refused")

\* The chain is that of the server that answered; the id is only checked not
\* to be empty.
Reply ==
    /\ cmd.op \in {"enroll", "renew"} /\ cmd.at = "reply"
    /\ UNCHANGED <<keyring, store, files, made, server, rd>>
    /\ IF KeyMatches
       THEN cmd' = [cmd EXCEPT !.at = "cert1"] /\ UNCHANGED last
       ELSE End("refused")

-----------------------------------------------------------------------------
\* Result.Save: three plain writes, each of which truncates first.

SaveOrder == [cert1 |-> "cert2", cert2 |-> "ca1", ca1 |-> "ca2", ca2 |-> "state1",
              state1 |-> "state2", state2 |-> "end"]
Saving == cmd.op \in {"enroll", "renew"} /\ cmd.at \in DOMAIN SaveOrder

\* Renew keeps the record it has loaded; enroll notes what it has seen.
NewState ==
    IF cmd.op = "renew" THEN cmd.st ELSE State(cmd.csr.id, cmd.srv, cmd.seen)

\* Without --state-out the path is empty, and the write fails after the
\* certificate and the CA are there.
Save ==
    /\ Saving /\ (cmd.at = "state1" => cmd.out)
    /\ cert' = CASE cmd.at = "cert1" -> Torn
                 [] cmd.at = "cert2" -> Cert(cmd.csr.id, cmd.srv)
                 [] OTHER -> cert
    /\ ca' = CASE cmd.at = "ca1" -> Torn [] cmd.at = "ca2" -> CA(cmd.srv) [] OTHER -> ca
    /\ state' = CASE cmd.at = "state1" -> Torn
                  [] cmd.at = "state2" -> NewState
                  [] OTHER -> state
    /\ UNCHANGED <<keyring, store, csr, made, server>>
    /\ IF cmd.at = "state2" THEN End("ok")
       ELSE cmd' = [cmd EXCEPT !.at = SaveOrder[@]] /\ UNCHANGED last
    /\ rd' = IF cmd.op = "enroll" THEN NoRun ELSE rd

\* A write fails, or the process is killed.
Breaks ==
    /\ cmd # NoCmd
    /\ UNCHANGED <<keyring, store, files, made, server, rd>>
    /\ End("broken")

-----------------------------------------------------------------------------
\* run: state, CA, certificate and key, one after the other.

\* The client is followed from a time when it finds an identity it can use, for
\* as long as nothing but renewals touches the files and the keyring stays.
RunBegins(pref) ==
    /\ rd = NoRun /\ cmd.op \in {"none", "renew"}
    /\ \A b \in Opened(pref) : Usable(state, ca, cert, store[b])
    /\ rd' = [at |-> "state", pref |-> pref, st |-> None, ca |-> None, cert |-> None, key |-> 0]
    /\ UNCHANGED <<keyring, store, files, made, server, cmd, last>>

\* What a read finds in the file it is at; the certificate is parsed
\* once the key is there.
RunReads ==
    /\ \/ rd.at = "state" /\ Whole(state) /\ rd' = [rd EXCEPT !.at = "ca", !.st = state]
       \/ rd.at = "ca" /\ Whole(ca) /\ rd' = [rd EXCEPT !.at = "cert", !.ca = ca]
       \/ rd.at = "cert" /\ cert # None /\ rd' = [rd EXCEPT !.at = "key", !.cert = cert]
       \/ /\ rd.at = "key" /\ Whole(rd.cert)
          /\ \E b \in Opened(rd.pref) :
               store[b] # 0 /\ rd' = [rd EXCEPT !.at = "loaded", !.key = store[b]]
    /\ UNCHANGED <<keyring, store, files, made, server, cmd, last>>

\* It stops, or cannot start: a file is missing or torn, the key not there.
RunEnds ==
    /\ rd # NoRun /\ rd' = NoRun
    /\ UNCHANGED <<keyring, store, files, made, server, cmd, last>>

-----------------------------------------------------------------------------
\* The surroundings.

KeyringTurns ==
    /\ keyring' = ~keyring /\ rd' = NoRun
    /\ UNCHANGED <<store, files, made, server, cmd, last>>

RotateLeaf(s) ==
    /\ leaf[s] < MaxLeaf /\ leaf' = [leaf EXCEPT ![s] = @ + 1]
    /\ UNCHANGED <<keyring, store, files, made, clients, cmd, last, rd>>

Next ==
    \/ \E p \in Prefs : InitKey(p) \/ RunBegins(p)
    \/ InitTruncate \/ InitWrite
    \/ \E s \in Servers, p \in Prefs, o \in BOOLEAN :
         \E pin \in {<<>>, <<s, 1>>} : EnrollLoad(s, p, pin, o)
    \/ \E s \in Servers, p \in Prefs : RenewLoad(s, p)
    \/ Refused \/ Signed \/ ReplyLost \/ Reply \/ Save \/ Breaks
    \/ RunReads \/ RunEnds
    \/ KeyringTurns \/ \E s \in Servers : RotateLeaf(s)

Spec == Init /\ [][Next]_vars

-----------------------------------------------------------------------------
\* Properties.

\* After an enrollment or a renewal that reports success the certificate is of
\* the key it was asked for with, the CA is its issuer and state.json pins a
\* certificate of that issuer's server, however many commands were cut off
\* before; after an enrollment state.json names the client of the certificate.
SuccessIsPaired ==
    cmd = NoCmd /\ last.res = "ok" /\ last.op \in {"enroll", "renew"} =>
        /\ Whole(cert) /\ Whole(ca) /\ Whole(state)
        /\ cert.id = store[last.b] /\ ca.srv = cert.srv /\ state.srv = cert.srv
        /\ last.op = "enroll" => state.id = cert.id

\* An exchange that is refused, lost or fails the checks of the answer leaves
\* the identity the device had: Save comes after everything that can fail.
RefusalIsHarmless ==
    cmd = NoCmd /\ last.res = "refused" => last.kept

\* A client that starts while a certificate is being renewed reads a set of
\* files that fits together, or cannot start: a renewal changes neither key
\* nor id nor issuer, and a torn file does not parse.
RunReadsOneIdentity ==
    rd.at = "loaded" => Usable(rd.st, rd.ca, rd.cert, rd.key)

-----------------------------------------------------------------------------
\* The inductive invariant behind them.

Partial == {None, Torn}
CsrFile == Partial \cup [is : {"whole"}, id : Nat]
CertFile == Partial \cup [is : {"whole"}, id : Nat, srv : Servers]
CAFile == Partial \cup [is : {"whole"}, srv : Servers]
StateFile == Partial \cup [is : {"whole"}, id : Nat, srv : Servers, leaf : Nat]

InitCmd ==
    [op : {"init"}, before : CertFile \X CAFile \X StateFile, at : {"truncate", "write"},
     b : Backends, key : Nat]
ExchangeAt == {"send", "reply"} \cup DOMAIN SaveOrder
EnrollCmd ==
    [op : {"enroll"}, before : CertFile \X CAFile \X StateFile, at : ExchangeAt,
     b : Backends, key : Nat, csr : CsrFile, srv : Servers,
     pin : {<<>>} \cup (Servers \X Nat), seen : Nat, out : BOOLEAN]
RenewCmd ==
    [op : {"renew"}, before : CertFile \X CAFile \X StateFile, at : ExchangeAt,
     b : Backends, key : Nat, csr : CsrFile, srv : Servers, pin : Servers \X Nat,
     seen : Nat, out : BOOLEAN, old : CertFile \ Partial, st : StateFile \ Partial]

\* Types: the files, the running command with what it has loaded, the client
\* that starts.
TypeOK ==
    /\ keyring \in BOOLEAN /\ store \in [Backends -> Nat]
    /\ csr \in CsrFile /\ cert \in CertFile /\ ca \in CAFile /\ state \in StateFile
    /\ made \in Nat /\ leaf \in [Servers -> Nat]
    /\ cmd \in {NoCmd} \cup InitCmd \cup EnrollCmd \cup RenewCmd
    /\ rd \in {NoRun} \cup
          [at : {"state", "ca", "cert", "key", "loaded"}, pref : Prefs, st : StateFile,
           ca : CAFile, cert : CertFile, key : Nat]

\* An exchange works with the stored key; it has not touched the identity
\* before Save, and then leaves behind it what the later parts have to fit.
\* A renewal finds and leaves the certificate and the record it has loaded.
ExchangeOK ==
    cmd.op \in {"enroll", "renew"} =>
        /\ cmd.key = store[cmd.b]
        /\ cmd.at \in {"send", "reply"} => cmd.before = Ident
        /\ cmd.at # "send" => Whole(cmd.csr)
        /\ cmd.at \in DOMAIN SaveOrder => cmd.csr.id = cmd.key
        /\ cmd.at \in {"ca1", "ca2", "state1", "state2"} => cert = Cert(cmd.csr.id, cmd.srv)
        /\ cmd.at \in {"state1", "state2"} => ca = CA(cmd.srv)
        /\ cmd.op = "renew" =>
              /\ cert \in {cmd.old, Torn} /\ state \in {cmd.st, Torn}
              /\ cmd.pin = <<cmd.st.srv, cmd.st.leaf>>
              /\ cmd.at # "send" =>
                    cmd.st.srv = cmd.srv /\ cmd.old = Cert(cmd.csr.id, cmd.srv)

\* While a client starts, all there is belongs to one key and one issuer, or is
\* torn: the files, the stored key, what it has read, and what a renewal has
\* loaded and will write.
OneIdentity(k, s) ==
    /\ cert \in {Torn, Cert(k, s)} /\ ca \in {Torn, CA(s)}
    /\ state = Torn \/ (Whole(state) /\ state.id = k)
    /\ cmd.op = "renew" => cmd.old = Cert(k, s) /\ cmd.st.id = k
    /\ rd.at # "state" => Whole(rd.st) /\ rd.st.id = k
    /\ rd.at \in {"cert", "key", "loaded"} => rd.ca = CA(s)
    /\ rd.at \in {"key", "loaded"} => rd.cert \in {Torn, Cert(k, s)}
    /\ rd.at = "loaded" => Whole(rd.cert) /\ rd.key = k

RunOK ==
    /\ rd # NoRun => \A b \in Opened(rd.pref) : \E s \in Servers : OneIdentity(store[b], s)
    /\ rd.at = "loaded" => Opened(rd.pref) # {}

IdentityInv ==
    TypeOK /\ ExchangeOK /\ RunOK /\ SuccessIsPaired /\ RefusalIsHarmless

-----------------------------------------------------------------------------
\* Statements of the repository that the code does not keep.

\* internal/enroll/client.go:55-57 has the CN of a certificate verified to be
\* our client id.  It is only checked not to be empty: after a second identity
\* whose enrollment was cut off before state.json, a renewal accepts its
\* certificate and keeps the record of the first.
VerifiedId ==
    cmd = NoCmd /\ last.op = "renew" /\ last.res = "ok" => state.id = cert.id

\* cmd/client/main.go:227 and cmd/client/enroll.go:153 tell the user to enroll
\* again.  With the CSR there is, the server has the id already
\* (enroll/server.go:194) and refuses every token.
ReEnrolls ==
    cmd.op = "enroll" /\ cmd.at = "send" /\ Trusted /\ Whole(cmd.csr) /\ cmd.csr.id = cmd.key
        => Accepts

\* internal/platform/atomicfile/atomicfile.go:1-2 says its atomic writes are
\* "used by every sensitive state file".  Result.Save uses os.WriteFile.
StateWhole == state # Torn
=============================================================================
