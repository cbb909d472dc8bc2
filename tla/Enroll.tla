------------------------------- MODULE Enroll -------------------------------
(***************************************************************************)
(* Enrollment: the process of `server enroll serve` with its handlers, the *)
(* commands that run beside it as processes of their own, and the files    *)
(* they share, tokens.json, clients.json and revoked.json                  *)
(* (internal/enroll/server.go, internal/auth/store.go,                     *)
(* internal/pki/registry.go and revoked.go, cmd/server/enroll.go).  The    *)
(* control plane is here as a reader of the revocation list.               *)
(*                                                                         *)
(* A token is its hash, a certificate its serial and client id, and a file *)
(* changes at once (platform/atomicfile).  tokens.json exists: it holds no *)
(* token at first, as after a purge.  Rate limits are in Limiter.          *)
(***************************************************************************)
EXTENDS Naturals, FiniteSets

CONSTANTS
    Tokens,
    Ids,        \* client ids
    Handlers,   \* connections handled at the same time
    MaxCommands,\* bound: token commands
    MaxSerial,  \* bound: certificates signed
    MaxRevoked, \* bound: certificates revoked
    NoToken, NoId, NoHandler

ASSUME EnrollAssumption ==
    /\ NoToken \notin Tokens /\ NoId \notin Ids /\ NoHandler \notin Handlers
    /\ {MaxCommands, MaxSerial, MaxRevoked} \subseteq Nat

VARIABLES
    tokens,     \* tokens.json: the state of each token
    mem,        \* TokenStore.byID of the process
    stale,      \* the file has another mtime or size than TokenStore has seen
    expired,    \* tokens past their ExpiresAt
    lock,       \* who holds TokenStore.mu
    cmd,        \* a token command: what it does and what it has read
    undone,     \* tokens whose consumption a command has written over
    serve,      \* the enroll process
    hand,       \* the handlers
    serial,     \* certificates signed
    issued,     \* certificates sent to clients
    reg,        \* ClientRegistry.byID: client id -> serial, 0 for none
    clients,    \* clients.json
    revoked,    \* revoked.json
    revServe,   \* RevocationList of the enroll process
    revCtl      \* RevocationList of the control plane

tokenVars == <<tokens, mem, stale, expired, lock, cmd, undone>>
certVars == <<serial, issued, reg, clients>>
revVars == <<revoked, revServe, revCtl>>
vars == <<tokenVars, serve, hand, certVars, revVars>>

TokenState == {"none", "fresh", "used", "revoked", "usedRevoked"}
Used == {"used", "usedRevoked"}
NoCmd(n) == [op |-> "idle", tok |-> NoToken, read |-> [t \in Tokens |-> "none"], n |-> n]
Table == [Ids -> 0..MaxSerial]
Signed == {"exists", "add", "save", "write", "reply"}
Idle == [st |-> "idle", tok |-> NoToken, id |-> NoId, serial |-> 0,
         read |-> [i \in Ids |-> 0]]
Cert == [serial : 1..MaxSerial, id : Ids, tok : Tokens \cup {NoToken}]

Init ==
    /\ tokens = [t \in Tokens |-> "none"] /\ mem = tokens
    /\ stale = FALSE /\ expired = {} /\ lock = NoHandler /\ cmd = NoCmd(0)
    /\ undone = {}
    /\ serve = "down" /\ hand = [h \in Handlers |-> Idle]
    /\ serial = 0 /\ issued = {}
    /\ reg = [i \in Ids |-> 0] /\ clients = reg
    /\ revoked = {} /\ revServe = {} /\ revCtl = {}

Set(h, r) == hand' = [hand EXCEPT ![h] = r]
Go(h, st) == Set(h, [hand[h] EXCEPT !.st = st])

-----------------------------------------------------------------------------
\* The enroll process starts and ends.

\* LoadTokenStore reads the file ...
StartRead ==
    /\ serve = "down"
    /\ mem' = tokens /\ serve' = "stat"
    /\ UNCHANGED <<tokens, stale, expired, lock, cmd, undone, hand, certVars, revVars>>

\* ... and then notes its mtime and size.  The other files are loaded once.
StartStat ==
    /\ serve = "stat"
    /\ stale' = FALSE /\ serve' = "up"
    /\ reg' = clients /\ revServe' = revoked
    /\ UNCHANGED <<tokens, mem, expired, lock, cmd, undone, hand, serial, issued, clients,
                   revoked, revCtl>>

Crash ==
    /\ serve = "up"
    /\ serve' = "down" /\ lock' = NoHandler
    /\ hand' = [h \in Handlers |-> Idle]
    /\ mem' = [t \in Tokens |-> "none"] /\ stale' = FALSE
    /\ reg' = [i \in Ids |-> 0] /\ revServe' = {}
    /\ UNCHANGED <<tokens, expired, cmd, undone, serial, issued, clients, revoked, revCtl>>

-----------------------------------------------------------------------------
\* create-token and revoke-token, one at a time: load the file, change it, save
\* it.  Nothing keeps the enroll process from writing it in between.

Command(op, t) ==
    /\ cmd.op = "idle" /\ cmd.n < MaxCommands
    /\ IF op = "create" THEN tokens[t] = "none" /\ t \notin expired
                        ELSE tokens[t] # "none"
    /\ cmd' = [op |-> op, tok |-> t, read |-> tokens, n |-> cmd.n + 1]
    /\ UNCHANGED <<tokens, mem, stale, expired, lock, undone, serve, hand, certVars, revVars>>

Revoked(s) == IF s \in Used THEN "usedRevoked" ELSE "revoked"

CommandSaves ==
    /\ cmd.op # "idle"
    /\ \/ /\ tokens' = [cmd.read EXCEPT ![cmd.tok] =
                          IF cmd.op = "create" THEN "fresh" ELSE Revoked(@)]
          /\ stale' = TRUE
          /\ undone' = undone \cup {t \in Tokens : tokens[t] \in Used /\ tokens'[t] \notin Used}
       \/ UNCHANGED <<tokens, stale, undone>>
    /\ cmd' = NoCmd(cmd.n)
    /\ UNCHANGED <<mem, expired, lock, serve, hand, certVars, revVars>>

Expire(t) ==
    /\ tokens[t] # "none" /\ t \notin expired
    /\ expired' = expired \cup {t}
    /\ UNCHANGED <<tokens, mem, stale, lock, cmd, undone, serve, hand, certVars, revVars>>

-----------------------------------------------------------------------------
\* TokenStore.Consume.

Enroll(h, t, i) ==
    /\ serve = "up" /\ hand[h].st = "idle"
    /\ Set(h, [Idle EXCEPT !.st = "consume", !.tok = t, !.id = i])
    /\ UNCHANGED <<tokenVars, serve, certVars, revVars>>

\* mu.Lock and reloadIfChanged.  A file that cannot be read or parsed leaves the
\* table as it is; one that changes after the stat is read again the next time.
Reload(h) ==
    /\ hand[h].st = "consume" /\ lock = NoHandler
    /\ lock' = h
    /\ \/ stale /\ mem' = tokens /\ stale' \in BOOLEAN
       \/ UNCHANGED <<mem, stale>>
    /\ Go(h, "check")
    /\ UNCHANGED <<tokens, expired, cmd, undone, serve, certVars, revVars>>

\* purgeExpiredLocked
Purged(m) == [t \in Tokens |-> IF t \in expired /\ m[t] \in {"fresh", "revoked"}
                               THEN "none" ELSE m[t]]

\* saveLocked: what is written is newer than what TokenStore has seen.
Save(m) == tokens' = m /\ stale' = TRUE

\* An unknown or an expired token is refused and the store cleaned.
RefuseAndPurge(h) ==
    /\ hand[h].st = "check"
    /\ \/ mem[hand[h].tok] = "none"
       \/ mem[hand[h].tok] \in {"fresh", "used"} /\ hand[h].tok \in expired
    /\ mem' = Purged(mem)
    /\ (Save(mem') \/ UNCHANGED <<tokens, stale>>)
    /\ lock' = NoHandler /\ Set(h, Idle)
    /\ UNCHANGED <<expired, cmd, undone, serve, certVars, revVars>>

Refuse(h) ==
    /\ hand[h].st = "check"
    /\ LET s == mem[hand[h].tok] IN
       \/ s \in {"revoked", "usedRevoked"}
       \/ s = "used" /\ hand[h].tok \notin expired
    /\ lock' = NoHandler /\ Set(h, Idle)
    /\ UNCHANGED <<tokens, mem, stale, expired, cmd, undone, serve, certVars, revVars>>

\* Mutant: the consumption is not saved.
ConsumeUnsaved(h) ==
    /\ hand[h].st = "check"
    /\ mem[hand[h].tok] = "fresh" /\ hand[h].tok \notin expired
    /\ mem' = [mem EXCEPT ![hand[h].tok] = "used"]
    /\ Go(h, "sign")
    /\ lock' = NoHandler
    /\ UNCHANGED <<tokens, stale, expired, cmd, undone, serve, certVars, revVars>>

\* The token is marked as used, saved, and the lock released; a save that
\* fails is an error of the request.
Consume(h) ==
    /\ hand[h].st = "check"
    /\ mem[hand[h].tok] = "fresh" /\ hand[h].tok \notin expired
    /\ mem' = [mem EXCEPT ![hand[h].tok] = "used"]
    /\ \/ Save(mem') /\ Go(h, "sign")
       \/ UNCHANGED <<tokens, stale>> /\ Set(h, Idle)
    /\ lock' = NoHandler
    /\ UNCHANGED <<expired, cmd, undone, serve, certVars, revVars>>

-----------------------------------------------------------------------------
\* The rest of handleEnroll, and handleRenew.

\* A client certificate that is presented is checked against the list.
Renew(h, c) ==
    /\ serve = "up" /\ hand[h].st = "idle"
    /\ c.serial \notin revServe
    /\ Set(h, [Idle EXCEPT !.st = "sign", !.id = c.id])
    /\ UNCHANGED <<tokenVars, serve, certVars, revVars>>

\* signFromCSR; a CSR that is refused, one that is not of the client that
\* renews included, costs the token.
Sign(h) ==
    /\ hand[h].st = "sign"
    /\ \/ /\ serial < MaxSerial
          /\ serial' = serial + 1
          /\ Set(h, [hand[h] EXCEPT !.serial = serial', !.st = "exists"])
       \/ Set(h, Idle) /\ UNCHANGED serial
    /\ UNCHANGED <<tokenVars, serve, issued, reg, clients, revVars>>

\* An enrollment needs a client id that is free; a renewal updates the record
\* of its client, if there is one.
Exists(h) ==
    /\ hand[h].st = "exists"
    /\ LET known == reg[hand[h].id] # 0  renewal == hand[h].tok = NoToken IN
       \/ known = renewal /\ Go(h, "add")
       \/ renewal /\ ~known /\ Go(h, "reply")
       \/ ~renewal /\ known /\ Set(h, Idle)
    /\ UNCHANGED <<tokenVars, serve, certVars, revVars>>

\* ClientRegistry.Add: the table under the lock ...
Add(h) ==
    /\ hand[h].st = "add"
    /\ reg' = [reg EXCEPT ![hand[h].id] = hand[h].serial]
    /\ Go(h, "save")
    /\ UNCHANGED <<tokenVars, serve, serial, issued, clients, revVars>>

\* ... what is to be saved under the lock again ...
Snapshot(h) ==
    /\ hand[h].st = "save"
    /\ Set(h, [hand[h] EXCEPT !.read = reg, !.st = "write"])
    /\ UNCHANGED <<tokenVars, serve, certVars, revVars>>

\* ... and the file without it.  A renewal goes on when that fails.
WriteClients(h) ==
    /\ hand[h].st = "write"
    /\ \/ clients' = hand[h].read /\ Go(h, "reply")
       \/ /\ UNCHANGED clients
          /\ IF hand[h].tok = NoToken THEN Go(h, "reply") ELSE Set(h, Idle)
    /\ UNCHANGED <<tokenVars, serve, serial, issued, reg, revVars>>

Reply(h) ==
    /\ hand[h].st = "reply"
    /\ issued' = issued \cup
          {[serial |-> hand[h].serial, id |-> hand[h].id, tok |-> hand[h].tok]}
    /\ Set(h, Idle)
    /\ UNCHANGED <<tokenVars, serve, serial, reg, clients, revVars>>

-----------------------------------------------------------------------------
\* Revocation.

\* `cert revoke`, a process of its own
RevokeCert(c) ==
    /\ c.serial \notin revoked /\ Cardinality(revoked) < MaxRevoked
    /\ revoked' = revoked \cup {c.serial}
    /\ UNCHANGED <<tokenVars, serve, hand, certVars, revServe, revCtl>>

\* runServer loads the list when the control plane starts.
RestartControl ==
    /\ revCtl # revoked
    /\ revCtl' = revoked
    /\ UNCHANGED <<tokenVars, serve, hand, certVars, revoked, revServe>>

\* verifyPeer, in a handshake with the control plane
Admits(c) == c.serial \notin revCtl

-----------------------------------------------------------------------------
Handler(h) ==
    \/ Reload(h) \/ RefuseAndPurge(h) \/ Refuse(h) \/ Consume(h)
    \/ Sign(h) \/ Exists(h) \/ Add(h) \/ Snapshot(h) \/ WriteClients(h) \/ Reply(h)

Next ==
    \/ StartRead \/ StartStat \/ Crash
    \/ \E op \in {"create", "revoke"}, t \in Tokens : Command(op, t)
    \/ CommandSaves
    \/ \E t \in Tokens : Expire(t)
    \/ \E h \in Handlers, t \in Tokens, i \in Ids : Enroll(h, t, i)
    \/ \E h \in Handlers, c \in issued : Renew(h, c)
    \/ \E h \in Handlers : Handler(h)
    \/ \E c \in issued : RevokeCert(c)
    \/ RestartControl

Spec == Init /\ [][Next]_vars

-----------------------------------------------------------------------------
\* Properties.

\* Types: the token file and table, the handlers and the certificates.
TypeOK ==
    /\ tokens \in [Tokens -> TokenState] /\ mem \in [Tokens -> TokenState]
    /\ stale \in BOOLEAN /\ expired \subseteq Tokens
    /\ lock \in Handlers \cup {NoHandler} /\ undone \subseteq Tokens
    /\ cmd \in [op : {"idle", "create", "revoke"}, tok : Tokens \cup {NoToken},
                read : [Tokens -> TokenState], n : Nat]
    /\ serve \in {"down", "stat", "up"}
    /\ hand \in [Handlers ->
                   [st : {"idle", "consume", "check", "sign"} \cup Signed,
                    tok : Tokens \cup {NoToken}, id : Ids \cup {NoId},
                    serial : 0..MaxSerial, read : Table]]
    /\ serial \in 0..MaxSerial /\ issued \subseteq Cert
    /\ reg \in Table /\ clients \in Table
    /\ revoked \subseteq 1..MaxSerial /\ revServe \subseteq revoked /\ revCtl \subseteq revoked

Enrolling(h) == hand[h].tok # NoToken /\ hand[h].st \in {"sign"} \cup Signed

\* A token buys one enrollment: over concurrent requests, failed saves and
\* reloads, crashes, expiry, purges and token commands at any time, no two
\* certificates come from one token, and no request is past Consume with a
\* token that has bought one (store.go:128: "concurrent requests can never
\* double-spend a token").  The exception is a consumption that a command has
\* written over with the older file it had read (store.go:187).
OneCertPerToken ==
    /\ \A c, d \in issued : c.tok = d.tok /\ c.tok # NoToken => c = d \/ c.tok \in undone
    /\ \A g, h \in Handlers : Enrolling(g) /\ Enrolling(h) /\ hand[g].tok = hand[h].tok =>
          g = h \/ hand[g].tok \in undone
    /\ \A h \in Handlers, c \in issued : Enrolling(h) /\ hand[h].tok = c.tok =>
          c.tok \in undone

\* The inductive invariant behind it.  Handlers live in a process that is up,
\* one in the lock.
HandOK ==
    \A h \in Handlers :
        /\ (lock = h) <=> (hand[h].st = "check")
        /\ hand[h].st # "idle" => serve = "up" /\ hand[h].id # NoId
        /\ hand[h].st \in {"consume", "check"} => hand[h].tok # NoToken
        /\ hand[h].st \in Signed => hand[h].serial > 0

Spent(t) ==
    \/ \E c \in issued : c.tok = t
    \/ \E h \in Handlers : Enrolling(h) /\ hand[h].tok = t

\* What the enroll process may load or save next has every token that has
\* bought something, unless a command has written over it: the file, and the
\* table of a process that is up.
SpentOK ==
    \A t \in Tokens \ undone : Spent(t) =>
        /\ tokens[t] \in Used
        /\ serve # "down" => mem[t] \in Used

EnrollInv == TypeOK /\ HandOK /\ SpentOK /\ OneCertPerToken

\* docs/operations/enrollment.md:19: a token is void once it is consumed.
NoDoubleSpend == \A c, d \in issued : c.tok = d.tok /\ c.tok # NoToken => c = d

\* internal/pki/registry.go:54: Add "persists atomically": a client that was
\* sent its first certificate is in clients.json.
RegistryDurable == \A c \in issued : c.tok # NoToken => clients[c.id] # 0

\* docs/plan/03-pki-enrollment.md:49: a client id that exists is refused.
OneEnrollmentPerId ==
    \A c, d \in issued : c.tok # NoToken /\ d.tok # NoToken /\ c.id = d.id => c = d

\* docs/operations/enrollment.md:21: serve notices that the token file has
\* changed: a token the file has as revoked is not consumed.
RevokedNotSpent ==
    [][\A h \in Handlers : hand[h].st = "check" /\ hand'[h].st = "sign"
          => tokens[hand[h].tok] \notin {"revoked", "usedRevoked"}]_vars

\* docs/operations/enrollment.md:63: a revocation holds for the next handshake.
RevocationImmediate == \A c \in issued : c.serial \in revoked => ~Admits(c)
=============================================================================
