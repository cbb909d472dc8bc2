--------------------------- MODULE Enroll_proofs ---------------------------
(***************************************************************************)
(* Proofs about Enroll: a one-time token buys one certificate, unless a    *)
(* token command has written over its consumption.                         *)
(***************************************************************************)
EXTENDS Enroll, TLAPS

RequestType ==
    [st : {"idle", "consume", "check", "sign"} \cup Signed,
     tok : Tokens \cup {NoToken}, id : Ids \cup {NoId},
     serial : 0..MaxSerial, read : Table]

LEMMA IdleIsRequest == Idle \in RequestType /\ Idle.st = "idle" /\ Idle.tok = NoToken
<1>1. 0 \in 0..MaxSerial
  BY EnrollAssumption
<1>2. [i \in Ids |-> 0] \in Table
  BY <1>1 DEF Table
<1> QED
  BY <1>1, <1>2 DEF Idle, RequestType

LEMMA EnrollInit == Init => EnrollInv
<1> SUFFICES ASSUME Init PROVE EnrollInv
  OBVIOUS
<1>0. 0 \in 0..MaxSerial
  BY EnrollAssumption
<1>1. TypeOK
  <2>1. hand \in [Handlers -> RequestType]
    BY IdleIsRequest DEF Init
  <2>2. reg \in Table /\ clients \in Table
    BY <1>0 DEF Init, Table
  <2>3. cmd \in [op : {"idle", "create", "revoke"}, tok : Tokens \cup {NoToken},
                 read : [Tokens -> TokenState], n : Nat]
    BY DEF Init, NoCmd, TokenState
  <2>4. tokens \in [Tokens -> TokenState] /\ mem \in [Tokens -> TokenState]
    BY DEF Init, TokenState
  <2> QED
    BY <1>0, <2>1, <2>2, <2>3, <2>4 DEF Init, TypeOK, RequestType
<1>2. HandOK
  BY IdleIsRequest, EnrollAssumption DEF Init, HandOK, Signed
<1>4. \A h \in Handlers : ~Enrolling(h)
  BY IdleIsRequest DEF Init, Enrolling
<1>5. SpentOK /\ OneCertPerToken
  BY <1>4 DEF Init, SpentOK, Spent, OneCertPerToken
<1> QED
  BY <1>1, <1>2, <1>5 DEF EnrollInv

-----------------------------------------------------------------------------
\* Types.

LEMMA TokenTypes ==
    ASSUME TypeOK, [Next]_vars
    PROVE  tokens' \in [Tokens -> TokenState] /\ mem' \in [Tokens -> TokenState]
<1>0. /\ tokens \in [Tokens -> TokenState] /\ mem \in [Tokens -> TokenState]
      /\ cmd.read \in [Tokens -> TokenState]
  BY DEF TypeOK
<1>1. Purged(mem) \in [Tokens -> TokenState]
  BY <1>0 DEF Purged, TokenState
<1>2. CASE StartRead \/ Crash \/ \E h \in Handlers : Reload(h)
  BY <1>0, <1>2 DEF StartRead, Crash, Reload, TokenState, Used
<1>3. CASE CommandSaves
  <2>1. [cmd.read EXCEPT ![cmd.tok] = IF cmd.op = "create" THEN "fresh" ELSE Revoked(@)]
          \in [Tokens -> TokenState]
    BY <1>0 DEF TokenState, Revoked, Used
  <2> QED
    BY <1>0, <1>3, <2>1 DEF CommandSaves
<1>4. CASE \E h \in Handlers : RefuseAndPurge(h)
  BY <1>0, <1>1, <1>4 DEF RefuseAndPurge, Save
<1>5. CASE \E h \in Handlers : Consume(h)
  <2>1. PICK h \in Handlers : Consume(h)
    BY <1>5
  <2>2. [mem EXCEPT ![hand[h].tok] = "used"] \in [Tokens -> TokenState]
    BY <1>0 DEF TokenState
  <2> QED
    BY <1>0, <2>1, <2>2 DEF Consume, Save
<1>6. CASE UNCHANGED <<tokens, mem>>
  BY <1>0, <1>6
<1>7. \/ UNCHANGED <<tokens, mem>>
      \/ StartRead \/ Crash \/ CommandSaves
      \/ \E h \in Handlers : Reload(h) \/ RefuseAndPurge(h) \/ Consume(h)
  BY Zenon DEF Next, vars, tokenVars, StartStat, Command, Expire, Enroll, Renew, Handler, Refuse, Sign,
     Exists, Add, Snapshot, WriteClients, Reply, RevokeCert, RestartControl
<1> QED
  BY <1>2, <1>3, <1>4, <1>5, <1>6, <1>7, Zenon

LEMMA OtherTypes ==
    ASSUME TypeOK, [Next]_vars
    PROVE  /\ stale' \in BOOLEAN /\ expired' \subseteq Tokens
           /\ lock' \in Handlers \cup {NoHandler}
           /\ undone \subseteq undone' /\ undone' \subseteq Tokens
           /\ cmd' \in [op : {"idle", "create", "revoke"}, tok : Tokens \cup {NoToken},
                        read : [Tokens -> TokenState], n : Nat]
           /\ serve' \in {"down", "stat", "up"}
<1>1. stale' \in BOOLEAN
  <2>1. UNCHANGED stale \/ stale' = TRUE \/ stale' = FALSE \/ stale' \in BOOLEAN
    BY Zenon DEF Next, vars, tokenVars, StartRead, StartStat, Crash, Command, CommandSaves, Expire, Enroll,
       Renew, Handler, Reload, RefuseAndPurge, Refuse, Consume, Save, Sign, Exists, Add, Snapshot,
       WriteClients, Reply, RevokeCert, RestartControl
  <2> QED
    BY <2>1, Zenon DEF TypeOK
<1>2. expired' \subseteq Tokens
  <2>1. UNCHANGED expired \/ \E t \in Tokens : expired' = expired \cup {t}
    BY Zenon DEF Next, vars, tokenVars, StartRead, StartStat, Crash, Command, CommandSaves, Expire, Enroll,
       Renew, Handler, Reload, RefuseAndPurge, Refuse, Consume, Save, Sign, Exists, Add, Snapshot,
       WriteClients, Reply, RevokeCert, RestartControl
  <2> QED
    BY <2>1 DEF TypeOK
<1>3. lock' \in Handlers \cup {NoHandler}
  <2>1. UNCHANGED lock \/ lock' = NoHandler \/ lock' \in Handlers
    BY Zenon DEF Next, vars, tokenVars, StartRead, StartStat, Crash, Command, CommandSaves, Expire, Enroll,
       Renew, Handler, Reload, RefuseAndPurge, Refuse, Consume, Save, Sign, Exists, Add, Snapshot,
       WriteClients, Reply, RevokeCert, RestartControl
  <2> QED
    BY <2>1 DEF TypeOK
<1>4. cmd' \in [op : {"idle", "create", "revoke"}, tok : Tokens \cup {NoToken},
                read : [Tokens -> TokenState], n : Nat]
  <2>1. \/ UNCHANGED cmd \/ cmd' = NoCmd(cmd.n)
        \/ \E op \in {"create", "revoke"}, t \in Tokens :
              cmd' = [op |-> op, tok |-> t, read |-> tokens, n |-> cmd.n + 1]
    BY Zenon DEF Next, vars, tokenVars, StartRead, StartStat, Crash, Command, CommandSaves, Expire, Enroll,
       Renew, Handler, Reload, RefuseAndPurge, Refuse, Consume, Save, Sign, Exists, Add, Snapshot,
       WriteClients, Reply, RevokeCert, RestartControl
  <2> QED
    BY <2>1 DEF TypeOK, NoCmd, TokenState
<1>5. serve' \in {"down", "stat", "up"}
  <2>1. UNCHANGED serve \/ serve' \in {"down", "stat", "up"}
    BY Zenon DEF Next, vars, tokenVars, StartRead, StartStat, Crash, Command, CommandSaves, Expire, Enroll,
       Renew, Handler, Reload, RefuseAndPurge, Refuse, Consume, Save, Sign, Exists, Add, Snapshot,
       WriteClients, Reply, RevokeCert, RestartControl
  <2> QED
    BY <2>1 DEF TypeOK
<1>6. undone \subseteq undone' /\ undone' \subseteq Tokens
  <2>1. \/ UNCHANGED undone
        \/ undone' = undone \cup {t \in Tokens : tokens[t] \in Used /\ tokens'[t] \notin Used}
    BY Zenon DEF Next, vars, tokenVars, StartRead, StartStat, Crash, Command, CommandSaves, Expire, Enroll,
       Renew, Handler, Reload, RefuseAndPurge, Refuse, Consume, Save, Sign, Exists, Add, Snapshot,
       WriteClients, Reply, RevokeCert, RestartControl
  <2> QED
    BY <2>1 DEF TypeOK
<1> QED
  BY <1>1, <1>2, <1>3, <1>4, <1>5, <1>6

-----------------------------------------------------------------------------
\* What a handler does: it takes a new record, at most one of them is in the
\* lock, and only Consume lets it claim a token.

Fits(h, r) ==
    /\ r.st # "idle" => serve = "up" /\ r.id # NoId
    /\ r.st \in {"consume", "check"} => r.tok # NoToken
    /\ r.st \in Signed => r.serial > 0
    /\ lock' = h <=> r.st = "check"
    /\ \A g \in Handlers \ {h} : lock' = g <=> lock = g

Claims(r) == r.tok # NoToken /\ r.st \in {"sign"} \cup Signed

Spends(h) ==
    /\ hand[h].st = "check" /\ mem[hand[h].tok] = "fresh"
    /\ mem' = [mem EXCEPT ![hand[h].tok] = "used"] /\ tokens' = mem'
    /\ UNCHANGED <<cmd, issued>>

Becomes(h, r) ==
    /\ hand' = [hand EXCEPT ![h] = r] /\ UNCHANGED serve
    /\ Fits(h, r)
    /\ Claims(r) => r.tok = hand[h].tok /\ (Claims(hand[h]) \/ Spends(h))

Moves(h) == \E r \in RequestType : Becomes(h, r)

LEMMA HandlerFacts ==
    ASSUME TypeOK, HandOK, NEW h \in Handlers
    PROVE  /\ hand[h] \in RequestType /\ hand \in [Handlers -> RequestType]
           /\ lock = h <=> hand[h].st = "check"
           /\ hand[h].st # "idle" => serve = "up" /\ hand[h].id # NoId
           /\ hand[h].st \in {"consume", "check"} => hand[h].tok # NoToken
           /\ hand[h].st \in Signed => hand[h].serial > 0
BY DEF TypeOK, HandOK, RequestType

\* A handler that gives up is free again, and out of the lock.
LEMMA GivesUp ==
    ASSUME NEW h \in Handlers, hand' = [hand EXCEPT ![h] = Idle], UNCHANGED serve,
           lock' # h, \A g \in Handlers \ {h} : lock' = g <=> lock = g
    PROVE  Moves(h)
<1>1. Fits(h, Idle)
  BY IdleIsRequest DEF Fits, Signed
<1>2. ~Claims(Idle)
  BY IdleIsRequest DEF Claims
<1> QED
  BY <1>1, <1>2, IdleIsRequest DEF Moves, Becomes

\* A handler that goes on with the request it has.
LEMMA GoesOn ==
    ASSUME TypeOK, HandOK, NEW h \in Handlers, NEW st \in {"sign"} \cup Signed,
           hand' = [hand EXCEPT ![h] = [hand[h] EXCEPT !.st = st]], UNCHANGED <<serve, lock>>,
           hand[h].st \in {"sign"} \cup Signed, st \in Signed => hand[h].st \in Signed
    PROVE  Moves(h)
<1> DEFINE r == [hand[h] EXCEPT !.st = st]
<1>1. r \in RequestType /\ r.st = st /\ r.tok = hand[h].tok /\ r.id = hand[h].id
      /\ r.serial = hand[h].serial
  BY HandlerFacts DEF RequestType
<1>2. st # "idle" /\ st # "consume" /\ st # "check" /\ hand[h].st # "idle" /\ hand[h].st # "check"
  BY DEF Signed
<1> HIDE DEF r
<1>3. Fits(h, r)
  BY <1>1, <1>2, HandlerFacts DEF Fits
<1>4. Claims(r) => r.tok = hand[h].tok /\ Claims(hand[h])
  BY <1>1 DEF Claims
<1> QED
  BY <1>1, <1>3, <1>4 DEF Moves, Becomes, r

LEMMA HandlerMoves ==
    ASSUME TypeOK, HandOK, NEW h \in Handlers,
           \/ Handler(h)
           \/ \E t \in Tokens, i \in Ids : Enroll(h, t, i)
           \/ \E c \in issued : Renew(h, c)
    PROVE  Moves(h)
<1> USE DEF Set, Go
<1>0. h # NoHandler /\ lock \in Handlers \cup {NoHandler}
  BY EnrollAssumption DEF TypeOK
<1>1. ASSUME NEW t \in Tokens, NEW i \in Ids, Enroll(h, t, i) PROVE Moves(h)
  <2> DEFINE r == [Idle EXCEPT !.st = "consume", !.tok = t, !.id = i]
  <2>1. r \in RequestType /\ r.st = "consume" /\ r.tok = t /\ r.id = i
    BY IdleIsRequest DEF RequestType
  <2>2. hand' = [hand EXCEPT ![h] = r] /\ UNCHANGED <<serve, lock>> /\ serve = "up" /\ lock # h
    BY <1>1, HandlerFacts DEF Enroll, tokenVars
  <2> HIDE DEF r
  <2>3. Fits(h, r) /\ ~Claims(r)
    BY <2>1, <2>2, EnrollAssumption DEF Fits, Claims, Signed
  <2> QED
    BY <2>1, <2>2, <2>3 DEF Moves, Becomes
<1>2. ASSUME NEW c \in issued, Renew(h, c) PROVE Moves(h)
  <2> DEFINE r == [Idle EXCEPT !.st = "sign", !.id = c.id]
  <2>0. c.id \in Ids
    BY DEF TypeOK, Cert
  <2>1. r \in RequestType /\ r.st = "sign" /\ r.tok = NoToken /\ r.id = c.id
    BY <2>0, IdleIsRequest DEF RequestType
  <2>2. hand' = [hand EXCEPT ![h] = r] /\ UNCHANGED <<serve, lock>> /\ serve = "up" /\ lock # h
    BY <1>2, HandlerFacts DEF Renew, tokenVars
  <2> HIDE DEF r
  <2>3. Fits(h, r) /\ ~Claims(r)
    BY <2>0, <2>1, <2>2, EnrollAssumption DEF Fits, Claims, Signed
  <2> QED
    BY <2>1, <2>2, <2>3 DEF Moves, Becomes
<1>3. CASE Reload(h)
  <2> DEFINE r == [hand[h] EXCEPT !.st = "check"]
  <2>1. r \in RequestType /\ r.st = "check" /\ r.tok = hand[h].tok /\ r.id = hand[h].id
    BY HandlerFacts DEF RequestType
  <2>2. hand' = [hand EXCEPT ![h] = r] /\ UNCHANGED serve /\ lock = NoHandler /\ lock' = h
        /\ hand[h].st = "consume"
    BY <1>3 DEF Reload
  <2> HIDE DEF r
  <2>3. Fits(h, r) /\ ~Claims(r)
    BY <2>1, <2>2, HandlerFacts, EnrollAssumption DEF Fits, Claims, Signed
  <2> QED
    BY <2>1, <2>2, <2>3 DEF Moves, Becomes
<1>4. ASSUME hand' = [hand EXCEPT ![h] = Idle], UNCHANGED serve, lock' = NoHandler, hand[h].st = "check"
      PROVE  Moves(h)
  <2>1. lock = h
    BY <1>4, HandlerFacts
  <2>2. lock' # h /\ \A g \in Handlers \ {h} : lock' = g <=> lock = g
    BY <1>0, <1>4, <2>1, EnrollAssumption
  <2> QED
    BY <1>4, <2>2, GivesUp
<1>5. CASE RefuseAndPurge(h) \/ Refuse(h)
  BY <1>4, <1>5 DEF RefuseAndPurge, Refuse
<1>6. CASE Consume(h)
  <2>1. CASE hand' = [hand EXCEPT ![h] = Idle]
    BY <1>4, <1>6, <2>1 DEF Consume
  <2>2. CASE Save(mem') /\ hand' = [hand EXCEPT ![h] = [hand[h] EXCEPT !.st = "sign"]]
    <3> DEFINE r == [hand[h] EXCEPT !.st = "sign"]
    <3>1. r \in RequestType /\ r.st = "sign" /\ r.tok = hand[h].tok /\ r.id = hand[h].id
      BY HandlerFacts DEF RequestType
    <3>2. UNCHANGED serve /\ lock' = NoHandler /\ hand[h].st = "check" /\ lock = h
      BY <1>6, HandlerFacts DEF Consume
    <3>3. Spends(h)
      BY <1>6, <2>2 DEF Consume, Save, Spends, certVars
    <3>4. hand' = [hand EXCEPT ![h] = r]
      BY <2>2
    <3> HIDE DEF r
    <3>5. Fits(h, r)
      BY <3>1, <3>2, HandlerFacts, EnrollAssumption DEF Fits, Signed
    <3> QED
      BY <3>1, <3>2, <3>3, <3>4, <3>5 DEF Moves, Becomes
  <2> QED
    BY <1>6, <2>1, <2>2 DEF Consume
<1>7. ASSUME hand' = [hand EXCEPT ![h] = Idle], UNCHANGED <<serve, lock>>, hand[h].st # "check"
      PROVE  Moves(h)
  <2>1. lock' # h
    BY <1>7, HandlerFacts
  <2> QED
    BY <1>7, <2>1, GivesUp
<1>8. CASE Sign(h)
  <2>1. CASE hand' = [hand EXCEPT ![h] = Idle]
    BY <1>7, <1>8, <2>1 DEF Sign, tokenVars
  <2>2. CASE serial < MaxSerial /\ hand' = [hand EXCEPT ![h] =
                                              [hand[h] EXCEPT !.serial = serial + 1, !.st = "exists"]]
    <3> DEFINE r == [hand[h] EXCEPT !.serial = serial + 1, !.st = "exists"]
    <3>0. serial + 1 \in 0..MaxSerial /\ serial + 1 > 0
      BY <2>2, EnrollAssumption DEF TypeOK
    <3>1. r \in RequestType /\ r.st = "exists" /\ r.tok = hand[h].tok /\ r.id = hand[h].id
          /\ r.serial = serial + 1
      BY <3>0, HandlerFacts DEF RequestType, Signed
    <3>2. UNCHANGED <<serve, lock>> /\ hand[h].st = "sign" /\ lock # h
      BY <1>8, HandlerFacts DEF Sign, tokenVars
    <3>4. hand' = [hand EXCEPT ![h] = r]
      BY <2>2
    <3> HIDE DEF r
    <3>5. Fits(h, r)
      BY <3>0, <3>1, <3>2, HandlerFacts DEF Fits
    <3>6. Claims(r) => Claims(hand[h])
      BY <3>1, <3>2 DEF Claims
    <3> QED
      BY <3>1, <3>2, <3>4, <3>5, <3>6 DEF Moves, Becomes
  <2> QED
    BY <1>8, <2>1, <2>2 DEF Sign
<1>9. CASE Exists(h)
  <2>1. UNCHANGED <<serve, lock>> /\ hand[h].st = "exists"
    BY <1>9 DEF Exists, tokenVars
  <2>2. \/ hand' = [hand EXCEPT ![h] = Idle]
        \/ \E st \in {"add", "reply"} : hand' = [hand EXCEPT ![h] = [hand[h] EXCEPT !.st = st]]
    BY <1>9, Zenon DEF Exists
  <2> QED
    BY <1>7, <2>1, <2>2, GoesOn DEF Signed
<1>10. CASE Add(h)
  BY <1>10, GoesOn DEF Add, tokenVars, Signed
<1>11. CASE Snapshot(h)
  <2> DEFINE r == [hand[h] EXCEPT !.read = reg, !.st = "write"]
  <2>1. r \in RequestType /\ r.st = "write" /\ r.tok = hand[h].tok /\ r.id = hand[h].id
        /\ r.serial = hand[h].serial
    <3>1. reg \in Table /\ "write" \in Signed
      BY DEF TypeOK, Signed
    <3> QED
      BY <3>1, HandlerFacts DEF RequestType
  <2>2. hand' = [hand EXCEPT ![h] = r] /\ UNCHANGED <<serve, lock>> /\ hand[h].st = "save" /\ lock # h
    BY <1>11, HandlerFacts DEF Snapshot, tokenVars
  <2> HIDE DEF r
  <2>3. Fits(h, r) /\ (Claims(r) => Claims(hand[h]))
    BY <2>1, <2>2, HandlerFacts DEF Fits, Claims, Signed
  <2> QED
    BY <2>1, <2>2, <2>3 DEF Moves, Becomes
<1>12. CASE WriteClients(h)
  <2>1. UNCHANGED <<serve, lock>> /\ hand[h].st = "write"
    BY <1>12 DEF WriteClients, tokenVars
  <2>2. \/ hand' = [hand EXCEPT ![h] = Idle]
        \/ hand' = [hand EXCEPT ![h] = [hand[h] EXCEPT !.st = "reply"]]
    BY <1>12, Zenon DEF WriteClients
  <2> QED
    BY <1>7, <2>1, <2>2, GoesOn DEF Signed
<1>13. CASE Reply(h)
  BY <1>7, <1>13 DEF Reply, tokenVars
<1> QED
  BY <1>1, <1>2, <1>3, <1>5, <1>6, <1>8, <1>9, <1>10, <1>11, <1>12, <1>13 DEF Handler

\* Every step, seen from the handlers.
HandCases ==
    \/ UNCHANGED <<hand, lock, issued>> /\ (serve' = serve \/ serve # "up")
    \/ Crash
    \/ \E h \in Handlers : Moves(h) /\ (UNCHANGED issued \/ Reply(h))

LEMMA EnrollCases ==
    ASSUME TypeOK, HandOK, [Next]_vars
    PROVE  HandCases
<1>1. ASSUME NEW h \in Handlers,
             \/ Handler(h)
             \/ \E t \in Tokens, i \in Ids : Enroll(h, t, i)
             \/ \E c \in issued : Renew(h, c)
      PROVE  HandCases
  <2>1. Moves(h)
    BY <1>1, HandlerMoves
  <2>2. UNCHANGED issued \/ Reply(h)
    BY <1>1, Zenon DEF Handler, certVars, Enroll, Renew, Reload, RefuseAndPurge, Refuse, Consume, Sign,
       Exists, Add, Snapshot, WriteClients
  <2> QED
    BY <2>1, <2>2 DEF HandCases
<1>2. CASE StartRead \/ StartStat
  BY <1>2 DEF HandCases, StartRead, StartStat, certVars
<1>3. CASE \/ UNCHANGED vars \/ CommandSaves \/ RestartControl
           \/ \E op \in {"create", "revoke"}, t \in Tokens : Command(op, t)
           \/ \E t \in Tokens : Expire(t)
           \/ \E c \in issued : RevokeCert(c)
  BY <1>3, Zenon DEF HandCases, vars, tokenVars, certVars, CommandSaves, RestartControl, Command, Expire,
     RevokeCert
<1> QED
  BY <1>1, <1>2, <1>3, Zenon DEF Next, HandCases

LEMMA EnrollHands ==
    ASSUME TypeOK, HandOK, HandCases
    PROVE  hand' \in [Handlers -> RequestType] /\ HandOK'
<1>1. CASE UNCHANGED <<hand, lock>> /\ (serve' = serve \/ serve # "up")
  <2>1. \A h \in Handlers : hand'[h] = hand[h] /\ (hand[h].st # "idle" => serve' = serve)
    BY <1>1, HandlerFacts
  <2> QED
    BY <1>1, <2>1, HandlerFacts DEF HandOK, TypeOK, RequestType
<1>2. CASE Crash
  <2>1. \A h \in Handlers : hand'[h] = Idle /\ lock' # h
    BY <1>2, EnrollAssumption DEF Crash
  <2>2. hand' \in [Handlers -> RequestType]
    BY <1>2, IdleIsRequest DEF Crash
  <2> QED
    BY <2>1, <2>2, IdleIsRequest DEF HandOK, Signed
<1>3. ASSUME NEW h \in Handlers, NEW r \in RequestType, Becomes(h, r)
      PROVE  hand' \in [Handlers -> RequestType] /\ HandOK'
  <2>1. hand' \in [Handlers -> RequestType] /\ hand'[h] = r
        /\ \A g \in Handlers \ {h} : hand'[g] = hand[g]
    BY <1>3, HandlerFacts DEF Becomes
  <2>2. UNCHANGED serve /\ Fits(h, r)
    BY <1>3 DEF Becomes
  <2>3. ASSUME NEW g \in Handlers
        PROVE  /\ (lock' = g) <=> (hand'[g].st = "check")
               /\ hand'[g].st # "idle" => serve' = "up" /\ hand'[g].id # NoId
               /\ hand'[g].st \in {"consume", "check"} => hand'[g].tok # NoToken
               /\ hand'[g].st \in Signed => hand'[g].serial > 0
    <3>1. CASE g = h
      BY <2>1, <2>2, <3>1 DEF Fits
    <3>2. CASE g # h
      <4>1. hand'[g] = hand[g] /\ (lock' = g <=> lock = g)
        BY <2>1, <2>2, <3>2 DEF Fits
      <4> QED
        BY <2>2, <4>1, HandlerFacts
    <3> QED
      BY <3>1, <3>2
  <2> QED
    BY <2>1, <2>3 DEF HandOK, Signed
<1> QED
  BY <1>1, <1>2, <1>3 DEF HandCases, Moves

LEMMA CertTypes ==
    ASSUME TypeOK, HandOK, [Next]_vars
    PROVE  /\ serial' \in 0..MaxSerial /\ issued' \subseteq Cert
           /\ reg' \in Table /\ clients' \in Table
<1> USE DEF Set, Go
<1>0. 0 \in 0..MaxSerial /\ [i \in Ids |-> 0] \in Table
  BY EnrollAssumption DEF Table
<1>1. serial' \in 0..MaxSerial
  <2>1. UNCHANGED serial \/ (serial < MaxSerial /\ serial' = serial + 1)
    BY Zenon DEF Crash, Next, vars, tokenVars, certVars, StartRead, StartStat, Command, CommandSaves, Expire, Enroll,
     Renew, Handler, Reload, RefuseAndPurge, Refuse, Consume, Sign, Exists, Add, Snapshot, WriteClients,
     Reply, RevokeCert, RestartControl
  <2> QED
    BY <2>1, EnrollAssumption DEF TypeOK
<1>2. issued' \subseteq Cert
  <2>1. UNCHANGED issued \/ \E h \in Handlers : Reply(h)
    BY Zenon DEF Crash, Next, vars, tokenVars, certVars, StartRead, StartStat, Command, CommandSaves, Expire, Enroll,
     Renew, Handler, Reload, RefuseAndPurge, Refuse, Consume, Sign, Exists, Add, Snapshot, WriteClients,
     RevokeCert, RestartControl
  <2>2. ASSUME NEW h \in Handlers, Reply(h) PROVE issued' \subseteq Cert
    <3>1. hand[h].st = "reply" /\ hand[h].st \in Signed
      BY <2>2 DEF Reply, Signed
    <3>2. hand[h].serial \in 1..MaxSerial /\ hand[h].id \in Ids /\ hand[h].tok \in Tokens \cup {NoToken}
      BY <3>1, HandlerFacts, EnrollAssumption DEF RequestType
    <3>3. [serial |-> hand[h].serial, id |-> hand[h].id, tok |-> hand[h].tok] \in Cert
      BY <3>2 DEF Cert
    <3> QED
      BY <2>2, <3>3 DEF Reply, TypeOK
  <2> QED
    BY <2>1, <2>2 DEF TypeOK
<1>3. reg' \in Table
  <2>1. \/ UNCHANGED reg \/ reg' = clients \/ reg' = [i \in Ids |-> 0]
        \/ \E h \in Handlers : reg' = [reg EXCEPT ![hand[h].id] = hand[h].serial]
    BY Zenon DEF Crash, Next, vars, tokenVars, certVars, StartRead, StartStat, Command, CommandSaves, Expire, Enroll,
     Renew, Handler, Reload, RefuseAndPurge, Refuse, Consume, Sign, Exists, Add, Snapshot, WriteClients,
     Reply, RevokeCert, RestartControl
  <2>2. ASSUME NEW h \in Handlers PROVE [reg EXCEPT ![hand[h].id] = hand[h].serial] \in Table
    <3>1. hand[h].serial \in 0..MaxSerial /\ reg \in [Ids -> 0..MaxSerial]
      BY HandlerFacts DEF TypeOK, RequestType, Table
    <3> QED
      BY <3>1 DEF Table
  <2> QED
    BY <1>0, <2>1, <2>2 DEF TypeOK
<1>4. clients' \in Table
  <2>1. UNCHANGED clients \/ \E h \in Handlers : clients' = hand[h].read
    BY Zenon DEF Crash, Next, vars, tokenVars, certVars, StartRead, StartStat, Command, CommandSaves, Expire, Enroll,
     Renew, Handler, Reload, RefuseAndPurge, Refuse, Consume, Sign, Exists, Add, Snapshot, WriteClients,
     Reply, RevokeCert, RestartControl
  <2> QED
    BY <2>1, HandlerFacts DEF TypeOK, RequestType
<1> QED
  BY <1>1, <1>2, <1>3, <1>4

LEMMA EnrollTypes ==
    ASSUME TypeOK, HandOK, [Next]_vars
    PROVE  TypeOK' /\ HandOK'
<1>1. hand' \in [Handlers -> RequestType] /\ HandOK'
  BY EnrollCases, EnrollHands
<1>2. revoked' \subseteq 1..MaxSerial /\ revServe' \subseteq revoked' /\ revCtl' \subseteq revoked'
  <2>1. \/ UNCHANGED revoked /\ revServe' \in {revServe, revoked, {}} /\ revCtl' \in {revCtl, revoked}
        \/ \E c \in issued : revoked' = revoked \cup {c.serial} /\ UNCHANGED <<revServe, revCtl>>
    BY Zenon DEF Crash, revVars, Next, vars, tokenVars, certVars, StartRead, StartStat, Command, CommandSaves, Expire, Enroll,
     Renew, Handler, Reload, RefuseAndPurge, Refuse, Consume, Sign, Exists, Add, Snapshot, WriteClients,
     Reply, RevokeCert, RestartControl
  <2>2. \A c \in issued : c.serial \in 1..MaxSerial
    BY DEF TypeOK, Cert
  <2> QED
    BY <2>1, <2>2 DEF TypeOK
<1> QED
  BY <1>1, <1>2, TokenTypes, OtherTypes, CertTypes DEF TypeOK, RequestType

-----------------------------------------------------------------------------
\* Spent tokens.

LEMMA WhatSpends ==
    ASSUME NEW t
    PROVE  /\ \A c \in issued : c.tok = t => Spent(t)
           /\ \A h \in Handlers : Enrolling(h) /\ hand[h].tok = t => Spent(t)
BY DEF Spent

\* Only a consumption that is saved spends a token.
LEMMA SpentBefore ==
    ASSUME TypeOK, HandOK, HandCases, NEW t \in Tokens, Spent(t)'
    PROVE  Spent(t) \/ \E h \in Handlers : Spends(h) /\ hand[h].tok = t
<1>0. t # NoToken
  BY EnrollAssumption
<1>1. CASE UNCHANGED <<hand, issued>>
  BY <1>1 DEF Spent, Enrolling
<1>2. CASE Crash
  <2>1. \A h \in Handlers : ~Enrolling(h)'
    BY <1>2, IdleIsRequest DEF Crash, Enrolling
  <2> QED
    BY <1>2, <2>1 DEF Crash, Spent
<1>3. ASSUME NEW h \in Handlers, NEW r \in RequestType, Becomes(h, r), UNCHANGED issued \/ Reply(h)
      PROVE  Spent(t) \/ (Spends(h) /\ hand[h].tok = t)
  <2>1. CASE \E c \in issued' : c.tok = t
    <3>1. PICK c \in issued' : c.tok = t
      BY <2>1
    <3>2. CASE c \in issued
      BY <3>1, <3>2, WhatSpends
    <3>3. CASE c \notin issued
      <4>1. hand[h].st = "reply" /\ hand[h].tok = t
        BY <1>3, <3>1, <3>3 DEF Reply
      <4> QED
        BY <1>0, <4>1, WhatSpends DEF Enrolling, Signed
    <3> QED
      BY <3>2, <3>3
  <2>2. ASSUME NEW g \in Handlers, Enrolling(g)', hand'[g].tok = t
        PROVE  Spent(t) \/ (Spends(h) /\ hand[h].tok = t)
    <3>1. CASE g = h
      <4>1. hand'[h] = r /\ Claims(r)
        BY <1>3, <2>2, <3>1, HandlerFacts DEF Becomes, Enrolling, Claims, Signed
      <4> QED
        BY <1>3, <2>2, <3>1, <4>1 DEF Becomes, Claims, Spent, Enrolling
    <3>2. CASE g # h
      <4>1. hand'[g] = hand[g]
        BY <1>3, <3>2, HandlerFacts DEF Becomes
      <4> QED
        BY <2>2, <4>1, WhatSpends DEF Enrolling, Signed
    <3> QED
      BY <3>1, <3>2
  <2> QED
    BY <2>1, <2>2 DEF Spent
<1> QED
  BY <1>1, <1>2, <1>3 DEF HandCases, Moves

\* A token that is spent is not fresh for a handler in the lock, unless a
\* command has written over it.
LEMMA FreshIsUnspent ==
    ASSUME TypeOK, HandOK, SpentOK, NEW h \in Handlers, hand[h].st = "check",
           mem[hand[h].tok] = "fresh", hand[h].tok \notin undone
    PROVE  ~Spent(hand[h].tok)
<1>1. hand[h].tok \in Tokens /\ serve = "up"
  BY HandlerFacts DEF RequestType
<1> QED
  BY <1>1 DEF SpentOK, Used

LEMMA EnrollSpent ==
    ASSUME TypeOK, HandOK, SpentOK, HandCases, [Next]_vars
    PROVE  SpentOK'
<1>1. ASSUME NEW h \in Handlers, Spends(h)
      PROVE  tokens'[hand[h].tok] = "used" /\ mem'[hand[h].tok] = "used"
  <2>1. hand[h].tok \in Tokens
    BY <1>1, HandlerFacts DEF Spends, RequestType
  <2> QED
    BY <1>1, <2>1 DEF Spends, TypeOK
<1>2. ASSUME NEW t \in Tokens, t \notin undone', Spent(t)
      PROVE  tokens'[t] \in Used /\ (serve' # "down" => mem'[t] \in Used)
  <2>0. tokens[t] \in Used /\ (serve # "down" => mem[t] \in Used)
    BY <1>2, OtherTypes DEF SpentOK
  <2>1. CASE StartRead \/ StartStat \/ Crash
    BY <2>0, <2>1 DEF StartRead, StartStat, Crash
  <2>2. CASE CommandSaves
    BY <1>2, <2>0, <2>2 DEF CommandSaves
  <2>3. CASE \E h \in Handlers : Reload(h)
    BY <2>0, <2>3 DEF Reload
  <2>4. ASSUME NEW h \in Handlers, RefuseAndPurge(h) PROVE tokens'[t] \in Used /\ mem'[t] \in Used
    <3>1. mem[t] \in Used
      BY <2>0, <2>4, HandlerFacts DEF RefuseAndPurge
    <3>2. Purged(mem)[t] = mem[t]
      BY <3>1 DEF Purged, Used
    <3> QED
      BY <2>0, <2>4, <3>1, <3>2 DEF RefuseAndPurge, Save
  <2>5. ASSUME NEW h \in Handlers, Consume(h) PROVE tokens'[t] \in Used /\ mem'[t] \in Used
    <3>1. mem[t] \in Used
      BY <2>0, <2>5, HandlerFacts DEF Consume
    <3>2. mem'[t] \in Used
      BY <2>5, <3>1 DEF Consume, Used, TypeOK
    <3> QED
      BY <2>0, <2>5, <3>2 DEF Consume, Save
  <2>6. CASE UNCHANGED <<tokens, mem, serve>>
    BY <2>0, <2>6
  <2>7. \/ UNCHANGED <<tokens, mem, serve>>
        \/ StartRead \/ StartStat \/ Crash \/ CommandSaves
        \/ \E h \in Handlers : Reload(h) \/ RefuseAndPurge(h) \/ Consume(h)
    BY Zenon DEF Next, vars, tokenVars, Command, Expire, Enroll, Renew, Handler, Refuse, Sign, Exists,
       Add, Snapshot, WriteClients, Reply, RevokeCert, RestartControl
  <2> QED
    BY <2>1, <2>2, <2>3, <2>4, <2>5, <2>6, <2>7, Zenon
<1> SUFFICES ASSUME NEW t \in Tokens, t \notin undone', Spent(t)'
             PROVE  tokens'[t] \in Used /\ (serve' # "down" => mem'[t] \in Used)
  BY DEF SpentOK
<1> QED
  BY <1>1, <1>2, SpentBefore DEF Used

LEMMA EnrollOneCert ==
    ASSUME TypeOK, HandOK, SpentOK, OneCertPerToken, HandCases, undone \subseteq undone'
    PROVE  OneCertPerToken'
<1>0. /\ \A c, d \in issued : c.tok = d.tok /\ c.tok # NoToken => c = d \/ c.tok \in undone'
      /\ \A g, h \in Handlers : Enrolling(g) /\ Enrolling(h) /\ hand[g].tok = hand[h].tok =>
            g = h \/ hand[g].tok \in undone'
      /\ \A h \in Handlers, c \in issued : Enrolling(h) /\ hand[h].tok = c.tok => c.tok \in undone'
  BY DEF OneCertPerToken
<1>1. CASE UNCHANGED <<hand, issued>>
  BY <1>0, <1>1 DEF OneCertPerToken, Enrolling, Signed
<1>2. CASE Crash
  <2>1. \A h \in Handlers : ~Enrolling(h)'
    BY <1>2, IdleIsRequest DEF Crash, Enrolling
  <2> QED
    BY <1>0, <1>2, <2>1 DEF Crash, OneCertPerToken
<1>3. ASSUME NEW h \in Handlers, NEW r \in RequestType, Becomes(h, r), UNCHANGED issued \/ Reply(h)
      PROVE  OneCertPerToken'
  <2>1. hand'[h] = r /\ \A g \in Handlers \ {h} : hand'[g] = hand[g]
    BY <1>3, HandlerFacts DEF Becomes
  <2>2. \A g \in Handlers \ {h} : Enrolling(g)' => Enrolling(g) /\ hand'[g].tok = hand[g].tok
    BY <2>1 DEF Enrolling, Signed
  <2>3. Enrolling(h)' => /\ hand'[h].tok = hand[h].tok
                         /\ Enrolling(h) \/ hand[h].tok \in undone' \/ ~Spent(hand[h].tok)
    <3> SUFFICES ASSUME Enrolling(h)'
                 PROVE  /\ hand'[h].tok = hand[h].tok
                        /\ Enrolling(h) \/ hand[h].tok \in undone' \/ ~Spent(hand[h].tok)
      OBVIOUS
    <3>1. Claims(r)
      BY <2>1 DEF Enrolling, Claims, Signed
    <3>2. r.tok = hand[h].tok /\ (Claims(hand[h]) \/ Spends(h))
      BY <1>3, <3>1 DEF Becomes
    <3>3. Claims(hand[h]) => Enrolling(h)
      BY DEF Claims, Enrolling
    <3>4. Spends(h) => hand[h].tok \in undone' \/ ~Spent(hand[h].tok)
      BY FreshIsUnspent DEF Spends
    <3> QED
      BY <2>1, <3>2, <3>3, <3>4
  <2>4. \A f, g \in Handlers : Enrolling(f)' /\ Enrolling(g)' /\ hand'[f].tok = hand'[g].tok =>
           f = g \/ hand'[f].tok \in undone'
    <3>1. ASSUME NEW g \in Handlers \ {h}, Enrolling(g)', Enrolling(h)', hand'[g].tok = hand'[h].tok
          PROVE  hand'[g].tok \in undone'
      <4>1. Enrolling(g) /\ hand[g].tok = hand[h].tok /\ hand'[g].tok = hand[h].tok
        BY <2>2, <2>3, <3>1
      <4>2. CASE Enrolling(h)
        BY <1>0, <4>1, <4>2
      <4>3. CASE ~Spent(hand[h].tok)
        BY <4>1, <4>3 DEF Spent
      <4> QED
        BY <2>3, <3>1, <4>1, <4>2, <4>3
    <3> QED
      BY <1>0, <2>2, <3>1
  <2>5. CASE UNCHANGED issued
    <3>1. ASSUME NEW g \in Handlers, NEW c \in issued, Enrolling(g)', hand'[g].tok = c.tok
          PROVE  c.tok \in undone'
      <4>1. CASE Enrolling(g) /\ hand[g].tok = c.tok
        BY <1>0, <4>1
      <4>2. CASE g = h /\ ~Spent(c.tok)
        BY <4>2 DEF Spent
      <4> QED
        BY <2>2, <2>3, <3>1, <4>1, <4>2
    <3> QED
      BY <1>0, <2>4, <2>5, <3>1 DEF OneCertPerToken
  <2>6. CASE Reply(h)
    <3> DEFINE n == [serial |-> hand[h].serial, id |-> hand[h].id, tok |-> hand[h].tok]
    <3>1. issued' = issued \cup {n} /\ n.tok = hand[h].tok /\ hand[h].st = "reply" /\ hand'[h] = Idle
      BY <2>6, HandlerFacts DEF Reply, Set
    <3> HIDE DEF n
    <3>2. ~Enrolling(h)'
      BY <3>1, IdleIsRequest DEF Enrolling
    <3>3. hand[h].tok # NoToken => Enrolling(h)
      BY <3>1 DEF Enrolling, Signed
    <3>4. \A c, d \in issued' : c.tok = d.tok /\ c.tok # NoToken => c = d \/ c.tok \in undone'
      BY <1>0, <3>1, <3>3
    <3>5. ASSUME NEW g \in Handlers, NEW c \in issued', Enrolling(g)', hand'[g].tok = c.tok
          PROVE  c.tok \in undone'
      <4>1. g # h /\ Enrolling(g) /\ hand[g].tok = c.tok
        BY <2>2, <3>2, <3>5
      <4>2. CASE c \in issued
        BY <1>0, <4>1, <4>2
      <4>3. CASE c = n
        <5>1. hand[g].tok = hand[h].tok /\ hand[h].tok # NoToken
          BY <3>1, <4>1, <4>3 DEF Enrolling
        <5> QED
          BY <1>0, <3>3, <4>1, <5>1
      <4> QED
        BY <3>1, <4>2, <4>3
    <3> QED
      BY <2>4, <3>4, <3>5 DEF OneCertPerToken
  <2> QED
    BY <1>3, <2>5, <2>6
<1> QED
  BY <1>1, <1>2, <1>3 DEF HandCases, Moves

-----------------------------------------------------------------------------
\* The theorems.

\* The inductive invariant of the enrollment: the file, and the table of a
\* process that is up, have every token that has bought something as used,
\* unless a token command has written over its consumption.
THEOREM EnrollInvariant == Spec => []EnrollInv
<1>1. Init => EnrollInv
  BY EnrollInit
<1>2. EnrollInv /\ [Next]_vars => EnrollInv'
  <2> SUFFICES ASSUME EnrollInv, [Next]_vars PROVE EnrollInv'
    OBVIOUS
  <2>1. TypeOK /\ HandOK /\ SpentOK /\ OneCertPerToken
    BY DEF EnrollInv
  <2>2. HandCases
    BY <2>1, EnrollCases
  <2>3. TypeOK' /\ HandOK'
    BY <2>1, EnrollTypes
  <2>4. SpentOK'
    BY <2>1, <2>2, EnrollSpent
  <2>5. OneCertPerToken'
    BY <2>1, <2>2, EnrollOneCert, OtherTypes
  <2> QED
    BY <2>3, <2>4, <2>5 DEF EnrollInv
<1> QED
  BY <1>1, <1>2, PTL DEF Spec

\* TokenStore.Consume and the handlers after it: over concurrent requests,
\* failed saves and reloads, crashes and restarts, expiry, purges and commands
\* at any time, no token buys two certificates unless a command has written
\* over its consumption (store.go:128, 187).
THEOREM EnrollOneCertPerToken == Spec => []OneCertPerToken
<1>1. EnrollInv => OneCertPerToken
  BY DEF EnrollInv
<1> QED
  BY <1>1, EnrollInvariant, PTL
=============================================================================
