------------------------- MODULE LocalState_proofs -------------------------
(***************************************************************************)
(* Theorems about the parts that keep their state in files of the device   *)
(* or the host: Identity, DesktopApi and Config.  DesktopApi and Config    *)
(* name specification and types after themselves, so that the three can be *)
(* extended together.                                                      *)
(***************************************************************************)
EXTENDS Identity, DesktopApi, Config, TLAPS

-----------------------------------------------------------------------------
\* Identity: records.

\* A file that is whole is the record its constructor makes.
LEMMA WholeFiles ==
    /\ \A x \in CsrFile : Whole(x) => x.id \in Nat /\ x = Csr(x.id)
    /\ \A x \in CertFile : Whole(x) => x.id \in Nat /\ x.srv \in Servers /\ x = Cert(x.id, x.srv)
    /\ \A x \in CAFile : Whole(x) => x.srv \in Servers /\ x = CA(x.srv)
    /\ \A x \in StateFile : Whole(x) => x.id \in Nat /\ x.srv \in Servers /\ x.leaf \in Nat
    /\ ~Whole(None) /\ ~Whole(Torn) /\ None # Torn
  BY DEF CsrFile, CertFile, CAFile, StateFile, Partial, None, Torn, Whole, Csr, Cert, CA

\* What the constructors make is whole and of the type of its file.
LEMMA MadeFiles ==
    ASSUME NEW i \in Nat, NEW s \in Servers, NEW v \in Nat
    PROVE  /\ Csr(i) \in CsrFile /\ Csr(i).id = i /\ Whole(Csr(i))
           /\ Cert(i, s) \in CertFile /\ Cert(i, s).id = i /\ Cert(i, s).srv = s
           /\ Whole(Cert(i, s))
           /\ CA(s) \in CAFile /\ CA(s).srv = s /\ Whole(CA(s))
           /\ State(i, s, v) \in StateFile \ Partial /\ State(i, s, v).id = i
           /\ State(i, s, v).srv = s /\ Whole(State(i, s, v))
           /\ Torn \in CsrFile \cap CertFile \cap CAFile \cap StateFile
  BY DEF CsrFile, CertFile, CAFile, StateFile, Partial, None, Torn, Whole, Csr, Cert, CA, State

\* A certificate is known by its key and its issuer.
LEMMA CertInjective ==
    ASSUME NEW i, NEW j, NEW s, NEW t, Cert(i, s) = Cert(j, t)
    PROVE  i = j /\ s = t
  <1>1. Cert(i, s).id = i /\ Cert(j, t).id = j /\ Cert(i, s).srv = s /\ Cert(j, t).srv = t
    BY DEF Cert
  <1> QED BY <1>1

\* An enrollment or a renewal moves on: only `at' changes.
LEMMA ExchangeMoves ==
    ASSUME NEW c \in EnrollCmd \cup RenewCmd, NEW a \in ExchangeAt,
           NEW d, d = [c EXCEPT !.at = a]
    PROVE  /\ d \in EnrollCmd \cup RenewCmd /\ d.at = a
           /\ d.op = c.op /\ d.before = c.before /\ d.b = c.b /\ d.key = c.key
           /\ d.csr = c.csr /\ d.srv = c.srv /\ d.pin = c.pin /\ d.seen = c.seen
           /\ d.out = c.out
           /\ c.op = "renew" => d.old = c.old /\ d.st = c.st
  <1>1. CASE c \in EnrollCmd
    BY <1>1 DEF EnrollCmd
  <1>2. CASE c \in RenewCmd
    BY <1>2 DEF RenewCmd
  <1> QED BY <1>1, <1>2

\* The same for the step that also notes the server's certificate.
LEMMA ExchangeSees ==
    ASSUME NEW c \in EnrollCmd \cup RenewCmd, NEW a \in ExchangeAt, NEW v \in Nat,
           NEW d, d = [c EXCEPT !.at = a, !.seen = v]
    PROVE  /\ d \in EnrollCmd \cup RenewCmd /\ d.at = a
           /\ d.op = c.op /\ d.before = c.before /\ d.b = c.b /\ d.key = c.key
           /\ d.csr = c.csr /\ d.srv = c.srv /\ d.pin = c.pin /\ d.out = c.out
           /\ c.op = "renew" => d.old = c.old /\ d.st = c.st
  <1>1. CASE c \in EnrollCmd
    BY <1>1 DEF EnrollCmd
  <1>2. CASE c \in RenewCmd
    BY <1>2 DEF RenewCmd
  <1> QED BY <1>1, <1>2

\* The kind of a command is in its op.
LEMMA CmdKinds ==
    ASSUME TypeOK
    PROVE  /\ cmd = NoCmd <=> cmd.op = "none"
           /\ cmd.op = "init" <=> cmd \in InitCmd
           /\ cmd.op = "enroll" <=> cmd \in EnrollCmd
           /\ cmd.op = "renew" <=> cmd \in RenewCmd
           /\ cmd.op \in {"none", "init", "enroll", "renew"}
  BY DEF TypeOK, NoCmd, InitCmd, EnrollCmd, RenewCmd

\* What an enrollment or a renewal carries.
LEMMA ExchangeFields ==
    ASSUME TypeOK, cmd.op \in {"enroll", "renew"}
    PROVE  /\ cmd \in EnrollCmd \cup RenewCmd /\ cmd.at \in ExchangeAt
           /\ cmd.b \in Backends /\ cmd.key \in Nat /\ cmd.csr \in CsrFile
           /\ cmd.srv \in Servers /\ cmd.seen \in Nat
           /\ cmd.op = "renew" => cmd.old \in CertFile \ Partial /\ cmd.st \in StateFile \ Partial
  <1>1. CASE cmd.op = "enroll"
    BY <1>1, CmdKinds DEF EnrollCmd
  <1>2. CASE cmd.op = "renew"
    BY <1>2, CmdKinds DEF RenewCmd
  <1> QED BY <1>1, <1>2

\* OpenWithPref returns at most one backend.
LEMMA OpenedOne ==
    ASSUME NEW p \in Prefs
    PROVE  Opened(p) \subseteq Backends /\ \A b, d \in Opened(p) : b = d
  BY IdentityAssumption DEF Opened, Backends

\* What is not partly there is whole.
LEMMA NotPartial ==
    /\ \A x \in CertFile \ Partial : Whole(x)
    /\ \A x \in StateFile \ Partial : Whole(x)
    /\ \A x \in CertFile : Whole(x) => x \in CertFile \ Partial
    /\ \A x \in StateFile : Whole(x) => x \in StateFile \ Partial
  BY DEF CertFile, StateFile, Partial, None, Torn, Whole

\* The positions of Save.
LEMMA SavePositions ==
    /\ DOMAIN SaveOrder = {"cert1", "cert2", "ca1", "ca2", "state1", "state2"}
    /\ SaveOrder["cert1"] = "cert2" /\ SaveOrder["cert2"] = "ca1" /\ SaveOrder["ca1"] = "ca2"
    /\ SaveOrder["ca2"] = "state1" /\ SaveOrder["state1"] = "state2"
    /\ SaveOrder["state2"] = "end"
    /\ ExchangeAt = {"send", "reply", "cert1", "cert2", "ca1", "ca2", "state1", "state2"}
  BY DEF SaveOrder, ExchangeAt

-----------------------------------------------------------------------------
\* Identity: types.

\* Every step keeps the types of the files, the command and the starting client.
LEMMA IdentityTypeStep ==
    ASSUME TypeOK, ExchangeOK, [Next]_vars
    PROVE  TypeOK'
  <1>1. keyring' \in BOOLEAN /\ made' \in Nat /\ leaf' \in [Servers -> Nat]
    <2>1. keyring' \in BOOLEAN
      BY Zenon DEF TypeOK, Next, vars, files, server, InitKey, RunBegins, InitTruncate, InitWrite,
         EnrollLoad, RenewLoad, Refused, Signed, ReplyLost, Reply, Save, Breaks, RunReads, RunEnds,
         KeyringTurns, RotateLeaf
    <2>2. made' = made \/ made' = made + 1
      BY Zenon DEF Next, vars, files, server, InitKey, RunBegins, InitTruncate, InitWrite,
         EnrollLoad, RenewLoad, Refused, Signed, ReplyLost, Reply, Save, Breaks, RunReads, RunEnds,
         KeyringTurns, RotateLeaf
    <2>3. leaf' = leaf \/ \E s \in Servers : leaf' = [leaf EXCEPT ![s] = @ + 1]
      BY Zenon DEF Next, vars, files, server, InitKey, RunBegins, InitTruncate, InitWrite,
         EnrollLoad, RenewLoad, Refused, Signed, ReplyLost, Reply, Save, Breaks, RunReads, RunEnds,
         KeyringTurns, RotateLeaf
    <2> QED BY <2>1, <2>2, <2>3 DEF TypeOK
  <1>2. store' \in [Backends -> Nat]
    <2>1. store' = store \/ \E p \in Prefs : InitKey(p)
      BY Zenon DEF Next, vars, files, server, RunBegins, InitTruncate, InitWrite, EnrollLoad,
         RenewLoad, Refused, Signed, ReplyLost, Reply, Save, Breaks, RunReads, RunEnds,
         KeyringTurns, RotateLeaf
    <2> QED BY <2>1, OpenedOne DEF InitKey, TypeOK
  <1>3. csr' \in CsrFile
    <2>1. csr' = csr \/ csr' = Torn \/ InitWrite
      BY Zenon DEF Next, vars, files, server, InitKey, RunBegins, InitTruncate, EnrollLoad,
         RenewLoad, Refused, Signed, ReplyLost, Reply, Save, Breaks, RunReads, RunEnds,
         KeyringTurns, RotateLeaf
    <2>2. InitWrite => cmd.key \in Nat /\ csr' = Csr(cmd.key)
      BY CmdKinds DEF InitWrite, InitCmd
    <2>3. \A i \in Nat : Csr(i) \in CsrFile
      BY DEF Csr, CsrFile
    <2> QED BY <2>1, <2>2, <2>3 DEF TypeOK, CsrFile, Partial
  <1>4. cert' \in CertFile /\ ca' \in CAFile /\ state' \in StateFile
    <2>1. UNCHANGED <<cert, ca, state>> \/ Save
      BY Zenon DEF Next, vars, files, server, InitKey, RunBegins, InitTruncate, InitWrite,
         EnrollLoad, RenewLoad, Refused, Signed, ReplyLost, Reply, Breaks, RunReads, RunEnds,
         KeyringTurns, RotateLeaf
    <2>2. CASE UNCHANGED <<cert, ca, state>>
      BY <2>2 DEF TypeOK
    <2>3. CASE Save
      <3>1. /\ cert' \in {Torn, Cert(cmd.csr.id, cmd.srv), cert}
            /\ ca' \in {Torn, CA(cmd.srv), ca}
            /\ state' \in {Torn, NewState, state}
        BY <2>3 DEF Save
      <3>2. cmd.op \in {"enroll", "renew"} /\ cmd.at \in DOMAIN SaveOrder
        BY <2>3 DEF Save, Saving
      <3>3. cmd.csr.id \in Nat /\ cmd.srv \in Servers /\ cmd.seen \in Nat
        BY <3>2, ExchangeFields, WholeFiles, SavePositions DEF ExchangeOK
      <3>4. cmd.op = "renew" => cmd.st \in StateFile
        BY <3>2, ExchangeFields
      <3>5. NewState \in StateFile
        BY <3>3, <3>4, MadeFiles DEF NewState
      <3> QED
        BY <3>1, <3>3, <3>5, MadeFiles DEF TypeOK
    <2> QED BY <2>1, <2>2, <2>3
  <1>5. cmd' \in {NoCmd} \cup InitCmd \cup EnrollCmd \cup RenewCmd
    <2>1. \/ cmd' = cmd \/ cmd' = NoCmd
          \/ \E p \in Prefs : InitKey(p)
          \/ InitTruncate
          \/ \E s \in Servers, p \in Prefs, o \in BOOLEAN :
               \E pin \in {<<>>, <<s, 1>>} : EnrollLoad(s, p, pin, o)
          \/ \E s \in Servers, p \in Prefs : RenewLoad(s, p)
          \/ Signed
          \/ /\ cmd.op \in {"enroll", "renew"} /\ cmd.at = "reply"
             /\ cmd' = [cmd EXCEPT !.at = "cert1"]
          \/ Saving /\ cmd.at # "state2" /\ cmd' = [cmd EXCEPT !.at = SaveOrder[@]]
      BY Zenon DEF Next, vars, files, server, RunBegins, InitWrite, End, Refused, ReplyLost, Reply,
         Save, Breaks, RunReads, RunEnds, KeyringTurns, RotateLeaf
    <2>2. ASSUME NEW p \in Prefs, InitKey(p)
          PROVE  cmd' \in InitCmd
      BY <2>2, OpenedOne DEF InitKey, InitCmd, TypeOK, Ident
    <2>3. CASE InitTruncate
      <3>1. cmd \in InitCmd /\ cmd' = [cmd EXCEPT !.at = "write"]
        BY <2>3, CmdKinds DEF InitTruncate
      <3> QED BY <3>1 DEF InitCmd
    <2>4. ASSUME NEW s \in Servers, NEW p \in Prefs, NEW o \in BOOLEAN,
                 NEW pin \in {<<>>, <<s, 1>>}, EnrollLoad(s, p, pin, o)
          PROVE  cmd' \in EnrollCmd
      <3>1. pin \in {<<>>} \cup (Servers \X Nat)
        OBVIOUS
      <3>2. Ident \in CertFile \X CAFile \X StateFile
        BY DEF TypeOK, Ident
      <3>3. PICK b \in Opened(p) :
              cmd' = [op |-> "enroll", before |-> Ident, at |-> "send", b |-> b,
                      key |-> store[b], csr |-> csr, srv |-> s, pin |-> pin, seen |-> 0,
                      out |-> o]
        BY <2>4 DEF EnrollLoad
      <3>4. b \in Backends /\ store[b] \in Nat /\ csr \in CsrFile /\ "send" \in ExchangeAt
        BY OpenedOne, SavePositions DEF TypeOK
      <3> QED BY <3>1, <3>2, <3>3, <3>4 DEF EnrollCmd
    <2>5. ASSUME NEW s \in Servers, NEW p \in Prefs, RenewLoad(s, p)
          PROVE  cmd' \in RenewCmd
      <3>1. PICK b \in Opened(p) :
              cmd' = [op |-> "renew", before |-> Ident, at |-> "send", b |-> b,
                      key |-> store[b], csr |-> csr, srv |-> s,
                      pin |-> <<state.srv, state.leaf>>, seen |-> 0, out |-> TRUE,
                      old |-> cert, st |-> state]
        BY <2>5 DEF RenewLoad
      <3>2. Ident \in CertFile \X CAFile \X StateFile
        BY DEF TypeOK, Ident
      <3>3. /\ cert \in CertFile \ Partial /\ state \in StateFile \ Partial
            /\ <<state.srv, state.leaf>> \in Servers \X Nat
        BY <2>5, NotPartial, WholeFiles DEF RenewLoad, TypeOK
      <3>4. b \in Backends /\ store[b] \in Nat /\ csr \in CsrFile /\ "send" \in ExchangeAt
        BY OpenedOne, SavePositions DEF TypeOK
      <3> QED BY <3>1, <3>2, <3>3, <3>4 DEF RenewCmd
    <2>6. CASE Signed
      <3>1. cmd \in EnrollCmd \cup RenewCmd /\ leaf[cmd.srv] \in Nat /\ "reply" \in ExchangeAt
        BY <2>6, ExchangeFields, SavePositions DEF Signed, TypeOK
      <3> QED BY <2>6, <3>1, ExchangeSees DEF Signed
    <2>7. CASE /\ cmd.op \in {"enroll", "renew"} /\ cmd.at = "reply"
               /\ cmd' = [cmd EXCEPT !.at = "cert1"]
      BY <2>7, ExchangeFields, ExchangeMoves, SavePositions
    <2>8. CASE Saving /\ cmd.at # "state2" /\ cmd' = [cmd EXCEPT !.at = SaveOrder[@]]
      <3>1. cmd \in EnrollCmd \cup RenewCmd /\ SaveOrder[cmd.at] \in ExchangeAt
        BY <2>8, ExchangeFields, SavePositions DEF Saving
      <3>2. cmd' = [cmd EXCEPT !.at = SaveOrder[cmd.at]]
        BY <2>8, <3>1 DEF EnrollCmd, RenewCmd
      <3> QED BY <3>1, <3>2, ExchangeMoves
    <2>9. CASE cmd' = cmd \/ cmd' = NoCmd
      BY <2>9 DEF TypeOK
    <2> QED BY <2>1, <2>2, <2>3, <2>4, <2>5, <2>6, <2>7, <2>8, <2>9, Zenon
  <1>6. rd' \in {NoRun} \cup
          [at : {"state", "ca", "cert", "key", "loaded"}, pref : Prefs, st : StateFile,
           ca : CAFile, cert : CertFile, key : Nat]
    <2>1. \/ rd' = rd \/ rd' = NoRun
          \/ \E p \in Prefs : RunBegins(p)
          \/ RunReads
      BY Zenon DEF Next, vars, files, server, InitKey, InitTruncate, InitWrite, EnrollLoad,
         RenewLoad, Refused, Signed, ReplyLost, Reply, Save, Breaks, RunEnds, KeyringTurns,
         RotateLeaf
    <2>2. ASSUME NEW p \in Prefs, RunBegins(p)
          PROVE  rd' \in [at : {"state"}, pref : Prefs, st : StateFile, ca : CAFile,
                          cert : CertFile, key : Nat]
      BY <2>2 DEF RunBegins, StateFile, CAFile, CertFile, Partial
    <2>3. CASE RunReads
      <3>0. rd.at \in {"state", "ca", "cert", "key"}
        BY <2>3, Zenon DEF RunReads
      <3>1. rd # NoRun
        BY <3>0 DEF NoRun
      <3>2. rd \in [at : {"state", "ca", "cert", "key", "loaded"}, pref : Prefs, st : StateFile,
                    ca : CAFile, cert : CertFile, key : Nat]
        BY <3>1 DEF TypeOK
      <3>3. \A b \in Opened(rd.pref) : store[b] \in Nat
        BY <3>2, OpenedOne DEF TypeOK
      <3>8. state \in StateFile /\ ca \in CAFile /\ cert \in CertFile
        BY DEF TypeOK
      <3>4. CASE rd.at = "state" /\ rd' = [rd EXCEPT !.at = "ca", !.st = state]
        BY <3>2, <3>4, <3>8
      <3>5. CASE rd.at = "ca" /\ rd' = [rd EXCEPT !.at = "cert", !.ca = ca]
        BY <3>2, <3>5, <3>8
      <3>6. CASE rd.at = "cert" /\ rd' = [rd EXCEPT !.at = "key", !.cert = cert]
        BY <3>2, <3>6, <3>8
      <3>7. ASSUME NEW b \in Opened(rd.pref), rd' = [rd EXCEPT !.at = "loaded", !.key = store[b]]
            PROVE  rd' \in [at : {"loaded"}, pref : Prefs, st : StateFile,
                            ca : CAFile, cert : CertFile, key : Nat]
        BY <3>2, <3>3, <3>7
      <3> QED
        BY <2>3, <3>4, <3>5, <3>6, <3>7 DEF RunReads
    <2> QED BY <2>1, <2>2, <2>3 DEF TypeOK
  <1> QED
    BY <1>1, <1>2, <1>3, <1>4, <1>5, <1>6 DEF TypeOK

-----------------------------------------------------------------------------
\* Identity: an exchange.

\* One step of Save, with what it leaves of the files.
LEMMA SaveMoves ==
    ASSUME TypeOK, ExchangeOK, Save, cmd.at # "state2"
    PROVE  ExchangeOK'
  <1>1. /\ cmd.op \in {"enroll", "renew"} /\ cmd.at \in DOMAIN SaveOrder
        /\ cmd' = [cmd EXCEPT !.at = SaveOrder[@]]
        /\ cert' = CASE cmd.at = "cert1" -> Torn
                     [] cmd.at = "cert2" -> Cert(cmd.csr.id, cmd.srv)
                     [] OTHER -> cert
        /\ ca' = CASE cmd.at = "ca1" -> Torn [] cmd.at = "ca2" -> CA(cmd.srv) [] OTHER -> ca
        /\ state' = IF cmd.at = "state1" THEN Torn ELSE state
        /\ store' = store
    BY DEF Save, Saving
  <1>2. /\ cmd \in EnrollCmd \cup RenewCmd /\ SaveOrder[cmd.at] \in ExchangeAt
        /\ cmd' = [cmd EXCEPT !.at = SaveOrder[cmd.at]]
    BY <1>1, ExchangeFields, SavePositions DEF EnrollCmd, RenewCmd
  <1>3. /\ cmd'.at = SaveOrder[cmd.at] /\ cmd'.op = cmd.op /\ cmd'.b = cmd.b /\ cmd'.key = cmd.key
        /\ cmd'.csr = cmd.csr /\ cmd'.srv = cmd.srv /\ cmd'.pin = cmd.pin
        /\ cmd.op = "renew" => cmd'.old = cmd.old /\ cmd'.st = cmd.st
    BY <1>2, ExchangeMoves
  <1>4. /\ cmd'.key = store'[cmd'.b] /\ Whole(cmd'.csr) /\ cmd'.csr.id = cmd'.key
        /\ cmd'.at \notin {"send", "reply", "cert1"}
    BY <1>1, <1>3, SavePositions DEF ExchangeOK
  <1>5. cmd'.at \in {"ca1", "ca2", "state1", "state2"} => cert' = Cert(cmd'.csr.id, cmd'.srv)
    BY <1>1, <1>3, SavePositions DEF ExchangeOK
  <1>6. cmd'.at \in {"state1", "state2"} => ca' = CA(cmd'.srv)
    BY <1>1, <1>3, SavePositions DEF ExchangeOK
  <1>7. cmd'.op = "renew" =>
              /\ cert' \in {cmd'.old, Torn} /\ state' \in {cmd'.st, Torn}
              /\ cmd'.pin = <<cmd'.st.srv, cmd'.st.leaf>>
              /\ cmd'.st.srv = cmd'.srv /\ cmd'.old = Cert(cmd'.csr.id, cmd'.srv)
    BY <1>1, <1>3, SavePositions DEF ExchangeOK
  <1> QED
    BY <1>4, <1>5, <1>6, <1>7 DEF ExchangeOK

\* Every step keeps what an exchange relies on.
LEMMA ExchangeStep ==
    ASSUME TypeOK, ExchangeOK, [Next]_vars
    PROVE  ExchangeOK'
  <1>1. \/ UNCHANGED <<store, cmd, cert, ca, state>>
        \/ cmd' = NoCmd
        \/ \E p \in Prefs : InitKey(p)
        \/ InitTruncate
        \/ \E s \in Servers, p \in Prefs, o \in BOOLEAN :
             \E pin \in {<<>>, <<s, 1>>} : EnrollLoad(s, p, pin, o)
        \/ \E s \in Servers, p \in Prefs : RenewLoad(s, p)
        \/ Signed
        \/ /\ cmd.op \in {"enroll", "renew"} /\ cmd.at = "reply" /\ KeyMatches
           /\ cmd' = [cmd EXCEPT !.at = "cert1"]
           /\ UNCHANGED <<store, cert, ca, state>>
        \/ Save /\ cmd.at # "state2"
    BY Zenon DEF Next, vars, files, server, RunBegins, InitWrite, End, Refused, ReplyLost, Reply,
       Save, Breaks, RunReads, RunEnds, KeyringTurns, RotateLeaf
  <1>2. CASE UNCHANGED <<store, cmd, cert, ca, state>>
    BY <1>2 DEF ExchangeOK, Ident
  <1>3. CASE cmd' = NoCmd
    BY <1>3 DEF ExchangeOK, NoCmd
  <1>4. ASSUME NEW p \in Prefs, InitKey(p)
        PROVE  ExchangeOK'
    BY <1>4 DEF InitKey, ExchangeOK
  <1>5. CASE InitTruncate
    <2>1. cmd'.op = "init"
      BY <1>5, CmdKinds DEF InitTruncate, InitCmd
    <2> QED BY <2>1 DEF ExchangeOK
  <1>6. ASSUME NEW s \in Servers, NEW p \in Prefs, NEW o \in BOOLEAN,
               NEW pin \in {<<>>, <<s, 1>>}, EnrollLoad(s, p, pin, o)
        PROVE  ExchangeOK'
    <2>1. /\ cmd'.op = "enroll" /\ cmd'.at = "send" /\ cmd'.before = Ident
          /\ cmd'.key = store[cmd'.b] /\ store' = store /\ Ident' = Ident
      BY <1>6 DEF EnrollLoad, files, Ident
    <2> QED BY <2>1, SavePositions DEF ExchangeOK
  <1>7. ASSUME NEW s \in Servers, NEW p \in Prefs, RenewLoad(s, p)
        PROVE  ExchangeOK'
    <2>1. /\ cmd'.op = "renew" /\ cmd'.at = "send" /\ cmd'.before = Ident
          /\ cmd'.key = store[cmd'.b] /\ store' = store /\ Ident' = Ident
          /\ cmd'.old = cert /\ cmd'.st = state /\ cmd'.pin = <<state.srv, state.leaf>>
          /\ cert' = cert /\ state' = state
      BY <1>7 DEF RenewLoad, files, Ident
    <2> QED BY <2>1, SavePositions DEF ExchangeOK
  <1>8. CASE Signed
    <2>1. /\ cmd.op \in {"enroll", "renew"} /\ cmd.at = "send" /\ Accepts
          /\ cmd' = [cmd EXCEPT !.at = "reply", !.seen = leaf[cmd.srv]]
          /\ UNCHANGED <<store, cert, ca, state>>
      BY <1>8 DEF Signed, files
    <2>2. cmd \in EnrollCmd \cup RenewCmd /\ leaf[cmd.srv] \in Nat /\ "reply" \in ExchangeAt
      BY <2>1, ExchangeFields, SavePositions DEF TypeOK
    <2>3. /\ cmd'.at = "reply" /\ cmd'.op = cmd.op /\ cmd'.before = cmd.before /\ cmd'.b = cmd.b
          /\ cmd'.key = cmd.key /\ cmd'.csr = cmd.csr /\ cmd'.srv = cmd.srv /\ cmd'.pin = cmd.pin
          /\ cmd.op = "renew" => cmd'.old = cmd.old /\ cmd'.st = cmd.st
      <3>1. CASE cmd \in EnrollCmd
        BY <2>1, <3>1 DEF EnrollCmd
      <3>2. CASE cmd \in RenewCmd
        BY <2>1, <3>2 DEF RenewCmd
      <3> QED BY <2>2, <3>1, <3>2
    <2>4. Whole(cmd.csr)
      BY <2>1 DEF Accepts
    <2>5. ASSUME cmd.op = "renew"
          PROVE  cmd.st.srv = cmd.srv /\ cmd.old = Cert(cmd.csr.id, cmd.srv)
      <3>1. cmd.pin = <<cmd.st.srv, cmd.st.leaf>>
        BY <2>5, <2>1 DEF ExchangeOK
      <3>2. cmd.pin = <<cmd.srv, leaf[cmd.srv]>>
        BY <2>1, <3>1 DEF Accepts, Trusted
      <3>3. cmd.old.srv = cmd.srv /\ cmd.csr.id = cmd.old.id
        BY <2>1, <2>5 DEF Accepts
      <3>4. cmd.old = Cert(cmd.old.id, cmd.old.srv)
        BY <2>5, ExchangeFields, NotPartial, WholeFiles
      <3> QED BY <3>1, <3>2, <3>3, <3>4
    <2> QED
      BY <2>1, <2>3, <2>4, <2>5, SavePositions DEF ExchangeOK, Ident
  <1>9. CASE /\ cmd.op \in {"enroll", "renew"} /\ cmd.at = "reply" /\ KeyMatches
             /\ cmd' = [cmd EXCEPT !.at = "cert1"]
             /\ UNCHANGED <<store, cert, ca, state>>
    <2>1. /\ cmd'.at = "cert1" /\ cmd'.op = cmd.op /\ cmd'.b = cmd.b
          /\ cmd'.key = cmd.key /\ cmd'.csr = cmd.csr /\ cmd'.srv = cmd.srv /\ cmd'.pin = cmd.pin
          /\ cmd.op = "renew" => cmd'.old = cmd.old /\ cmd'.st = cmd.st
      BY <1>9, ExchangeFields, ExchangeMoves, SavePositions
    <2> QED
      BY <1>9, <2>1, SavePositions DEF ExchangeOK, KeyMatches
  <1>10. CASE Save /\ cmd.at # "state2"
    BY <1>10, SaveMoves
  <1> QED
    BY <1>1, <1>2, <1>3, <1>4, <1>5, <1>6, <1>7, <1>8, <1>9, <1>10, Zenon

-----------------------------------------------------------------------------
\* Identity: how a command ends.

\* A step leaves a command running, or ends one, or concerns none.
LEMMA CommandSteps ==
    ASSUME TypeOK, [Next]_vars
    PROVE  \/ UNCHANGED <<store, cmd, last, cert, ca, state>>
           \/ cmd' # NoCmd
           \/ InitWrite \/ Refused \/ ReplyLost \/ Breaks
           \/ Reply /\ End("refused")
           \/ Save /\ cmd.at = "state2"
  <1>1. \/ UNCHANGED <<store, cmd, last, cert, ca, state>>
        \/ \E p \in Prefs : InitKey(p)
        \/ \E s \in Servers, p \in Prefs, o \in BOOLEAN :
             \E pin \in {<<>>, <<s, 1>>} : EnrollLoad(s, p, pin, o)
        \/ \E s \in Servers, p \in Prefs : RenewLoad(s, p)
        \/ InitTruncate
        \/ Signed
        \/ /\ cmd.op \in {"enroll", "renew"} /\ cmd.at = "reply"
           /\ cmd' = [cmd EXCEPT !.at = "cert1"]
        \/ Saving /\ cmd' = [cmd EXCEPT !.at = SaveOrder[@]]
        \/ InitWrite \/ Refused \/ ReplyLost \/ Breaks
        \/ Reply /\ End("refused")
        \/ Save /\ cmd.at = "state2"
    BY Zenon DEF Next, vars, files, server, RunBegins, Reply, Save, RunReads, RunEnds, KeyringTurns,
       RotateLeaf
  <1>2. ASSUME NEW p \in Prefs, InitKey(p)
        PROVE  cmd' # NoCmd
    BY <1>2 DEF InitKey, NoCmd
  <1>3. ASSUME NEW s \in Servers, NEW p \in Prefs, NEW o \in BOOLEAN,
               NEW pin \in {<<>>, <<s, 1>>}, EnrollLoad(s, p, pin, o)
        PROVE  cmd' # NoCmd
    BY <1>3 DEF EnrollLoad, NoCmd
  <1>4. ASSUME NEW s \in Servers, NEW p \in Prefs, RenewLoad(s, p)
        PROVE  cmd' # NoCmd
    BY <1>4 DEF RenewLoad, NoCmd
  <1>5. CASE InitTruncate
    BY <1>5, CmdKinds DEF InitTruncate, InitCmd, NoCmd
  <1>6. CASE Signed
    <2>1. cmd.op \in {"enroll", "renew"} /\ DOMAIN cmd' = DOMAIN cmd
      BY <1>6 DEF Signed
    <2>2. DOMAIN cmd # DOMAIN NoCmd
      BY <2>1, ExchangeFields DEF EnrollCmd, RenewCmd, NoCmd
    <2> QED BY <2>1, <2>2
  <1>7. CASE cmd.op \in {"enroll", "renew"} /\ cmd' = [cmd EXCEPT !.at = "cert1"]
    <2>2. DOMAIN cmd # DOMAIN NoCmd
      BY <1>7, ExchangeFields DEF EnrollCmd, RenewCmd, NoCmd
    <2> QED BY <1>7, <2>2
  <1>8. CASE Saving /\ cmd' = [cmd EXCEPT !.at = SaveOrder[@]]
    <2>2. DOMAIN cmd # DOMAIN NoCmd
      BY <1>8, ExchangeFields DEF EnrollCmd, RenewCmd, NoCmd, Saving
    <2> QED BY <1>8, <2>2
  <1> QED
    BY <1>1, <1>2, <1>3, <1>4, <1>5, <1>6, <1>7, <1>8, Zenon

\* The end of Save leaves files that fit; nothing else ends in a success of an
\* exchange.
LEMMA PairedStep ==
    ASSUME TypeOK, ExchangeOK, SuccessIsPaired, [Next]_vars
    PROVE  SuccessIsPaired'
  <1>1. CASE UNCHANGED <<store, cmd, last, cert, ca, state>>
    BY <1>1 DEF SuccessIsPaired
  <1>2. CASE cmd' # NoCmd
    BY <1>2 DEF SuccessIsPaired
  <1>3. CASE InitWrite
    <2>1. last'.op = "init"
      BY <1>3 DEF InitWrite, End
    <2> QED BY <2>1 DEF SuccessIsPaired
  <1>4. CASE Refused \/ ReplyLost \/ Breaks \/ (Reply /\ End("refused"))
    <2>1. last'.res \in {"refused", "broken"}
      BY <1>4 DEF Refused, ReplyLost, Breaks, End
    <2> QED BY <2>1 DEF SuccessIsPaired
  <1>5. CASE Save /\ cmd.at = "state2"
    <2>1. /\ cmd.op \in {"enroll", "renew"} /\ cmd.at = "state2"
          /\ cert' = cert /\ ca' = ca /\ state' = NewState /\ store' = store
          /\ last'.op = cmd.op /\ last'.b = cmd.b
      BY <1>5 DEF Save, Saving, End
    <2>2. /\ cmd.key = store[cmd.b] /\ Whole(cmd.csr) /\ cmd.csr.id = cmd.key
          /\ cert = Cert(cmd.csr.id, cmd.srv) /\ ca = CA(cmd.srv)
          /\ cmd.op = "renew" => cmd.st.srv = cmd.srv
      BY <2>1, SavePositions DEF ExchangeOK
    <2>3. cmd.csr.id \in Nat /\ cmd.srv \in Servers /\ cmd.seen \in Nat
      BY <2>1, <2>2, ExchangeFields, WholeFiles
    <2>4. /\ Whole(cert) /\ cert.id = cmd.csr.id /\ cert.srv = cmd.srv
          /\ Whole(ca) /\ ca.srv = cmd.srv
      BY <2>2, <2>3, MadeFiles
    <2>5. /\ Whole(NewState) /\ NewState.srv = cmd.srv
          /\ cmd.op = "enroll" => NewState.id = cmd.csr.id
      BY <2>1, <2>2, <2>3, ExchangeFields, NotPartial, MadeFiles DEF NewState
    <2> QED
      BY <2>1, <2>2, <2>4, <2>5 DEF SuccessIsPaired
  <1> QED
    BY <1>1, <1>2, <1>3, <1>4, <1>5, CommandSteps, Zenon

\* A refusal comes before Save, when the identity is the one the command began
\* with.
LEMMA HarmlessStep ==
    ASSUME TypeOK, ExchangeOK, RefusalIsHarmless, [Next]_vars
    PROVE  RefusalIsHarmless'
  <1>1. CASE UNCHANGED <<store, cmd, last, cert, ca, state>>
    BY <1>1 DEF RefusalIsHarmless
  <1>2. CASE cmd' # NoCmd
    BY <1>2 DEF RefusalIsHarmless
  <1>3. CASE InitWrite \/ Breaks \/ (Save /\ cmd.at = "state2")
    <2>1. last'.res \in {"ok", "broken"}
      BY <1>3 DEF InitWrite, Breaks, Save, End
    <2> QED BY <2>1 DEF RefusalIsHarmless
  <1>4. CASE Refused \/ ReplyLost \/ (Reply /\ End("refused"))
    <2>1. /\ cmd.op \in {"enroll", "renew"} /\ cmd.at \in {"send", "reply"}
          /\ Ident' = Ident /\ last'.kept = (cmd.before = Ident')
      BY <1>4 DEF Refused, ReplyLost, Reply, End, files, Ident
    <2>2. cmd.before = Ident
      BY <2>1 DEF ExchangeOK
    <2> QED BY <2>1, <2>2 DEF RefusalIsHarmless
  <1> QED
    BY <1>1, <1>2, <1>3, <1>4, CommandSteps, Zenon

-----------------------------------------------------------------------------
\* Identity: a client that starts.

\* What a running client has and finds is left alone by a step that changes
\* none of it, or takes the files of a renewal up as they are.
LEMMA RunUndisturbed ==
    ASSUME TypeOK, RunOK, UNCHANGED <<keyring, store, cert, ca, state, rd>>,
           \/ cmd'.op # "renew"
           \/ cmd.op = "renew" /\ cmd'.old = cmd.old /\ cmd'.st = cmd.st
           \/ cmd'.old = cert /\ cmd'.st = state /\ Whole(cert) /\ Whole(state)
    PROVE  RunOK'
  <1>1. Opened(rd.pref)' = Opened(rd.pref)
    BY DEF Opened
  <1>2. ASSUME NEW k, NEW s, OneIdentity(k, s)
        PROVE  OneIdentity(k, s)'
    BY <1>2, WholeFiles DEF OneIdentity
  <1> QED
    BY <1>1, <1>2 DEF RunOK

\* A client begins with files that fit together.
LEMMA RunBeginsOK ==
    ASSUME TypeOK, ExchangeOK, NEW p \in Prefs, RunBegins(p)
    PROVE  RunOK'
  <1>1. /\ rd'.at = "state" /\ rd'.pref = p
        /\ UNCHANGED <<keyring, store, cert, ca, state, cmd>>
    BY DEF RunBegins, files
  <1>2. Opened(rd.pref)' = Opened(p)
    BY <1>1 DEF Opened
  <1>3. ASSUME NEW b \in Opened(p)
        PROVE  \E s \in Servers : OneIdentity(store[b], s)'
    <2>1. /\ Whole(state) /\ Whole(ca) /\ Whole(cert)
          /\ cert.id = store[b] /\ ca.srv = cert.srv /\ state.id = cert.id
      BY <1>3 DEF RunBegins, Usable
    <2>2. /\ cert.srv \in Servers /\ cert = Cert(store[b], cert.srv) /\ ca = CA(cert.srv)
      BY <2>1, WholeFiles DEF TypeOK
    <2>3. cmd.op = "renew" => cmd.old = cert /\ cmd.st = state
      BY <2>1, WholeFiles DEF ExchangeOK
    <2>4. OneIdentity(store[b], cert.srv)'
      BY <1>1, <2>1, <2>2, <2>3 DEF OneIdentity
    <2> QED BY <2>2, <2>4, <1>1
  <1> QED
    BY <1>1, <1>2, <1>3 DEF RunOK

\* It reads one file after the other.
LEMMA RunReadsOK ==
    ASSUME TypeOK, RunOK, RunReads
    PROVE  RunOK'
  <1>1. UNCHANGED <<keyring, store, cert, ca, state, cmd>>
    BY DEF RunReads, files
  <1>2. rd.at \in {"state", "ca", "cert", "key"}
    BY Zenon DEF RunReads
  <1>3. rd # NoRun
    BY <1>2 DEF NoRun
  <1>4. rd \in [at : {"state", "ca", "cert", "key", "loaded"}, pref : Prefs, st : StateFile,
                ca : CAFile, cert : CertFile, key : Nat]
    BY <1>3 DEF TypeOK
  <1>5. \A b \in Opened(rd.pref) : \E s \in Servers : OneIdentity(store[b], s)
    BY <1>3 DEF RunOK
  <1>6. \A b, d \in Opened(rd.pref) : b = d
    BY <1>4, OpenedOne
  <1>7. CASE rd.at = "state" /\ Whole(state) /\ rd' = [rd EXCEPT !.at = "ca", !.st = state]
    <2>1. rd'.at = "ca" /\ rd'.st = state /\ rd'.pref = rd.pref
      BY <1>4, <1>7
    <2>2. ASSUME NEW k, NEW s, OneIdentity(k, s)
          PROVE  OneIdentity(k, s)'
      BY <1>1, <1>7, <2>1, <2>2, WholeFiles DEF OneIdentity
    <2>3. Opened(rd.pref)' = Opened(rd.pref)
      BY <1>1, <2>1 DEF Opened
    <2> QED BY <1>1, <1>5, <2>1, <2>2, <2>3 DEF RunOK
  <1>8. CASE rd.at = "ca" /\ Whole(ca) /\ rd' = [rd EXCEPT !.at = "cert", !.ca = ca]
    <2>1. rd'.at = "cert" /\ rd'.st = rd.st /\ rd'.ca = ca /\ rd'.pref = rd.pref
      BY <1>4, <1>8
    <2>2. ASSUME NEW k, NEW s, OneIdentity(k, s)
          PROVE  OneIdentity(k, s)'
      BY <1>1, <1>8, <2>1, <2>2, WholeFiles DEF OneIdentity
    <2>3. Opened(rd.pref)' = Opened(rd.pref)
      BY <1>1, <2>1 DEF Opened
    <2> QED BY <1>1, <1>5, <2>1, <2>2, <2>3 DEF RunOK
  <1>9. CASE rd.at = "cert" /\ rd' = [rd EXCEPT !.at = "key", !.cert = cert]
    <2>1. rd'.at = "key" /\ rd'.st = rd.st /\ rd'.ca = rd.ca /\ rd'.cert = cert /\ rd'.pref = rd.pref
      BY <1>4, <1>9
    <2>2. ASSUME NEW k, NEW s, OneIdentity(k, s)
          PROVE  OneIdentity(k, s)'
      BY <1>1, <1>9, <2>1, <2>2, WholeFiles DEF OneIdentity
    <2>3. Opened(rd.pref)' = Opened(rd.pref)
      BY <1>1, <2>1 DEF Opened
    <2> QED BY <1>1, <1>5, <2>1, <2>2, <2>3 DEF RunOK
  <1>10. ASSUME rd.at = "key", Whole(rd.cert),
                NEW b \in Opened(rd.pref), rd' = [rd EXCEPT !.at = "loaded", !.key = store[b]]
         PROVE  RunOK'
    <2>1. /\ rd'.at = "loaded" /\ rd'.st = rd.st /\ rd'.ca = rd.ca /\ rd'.cert = rd.cert
          /\ rd'.key = store[b] /\ rd'.pref = rd.pref
      BY <1>4, <1>10
    <2>2. Opened(rd.pref)' = Opened(rd.pref)
      BY <1>1, <2>1 DEF Opened
    <2>3. PICK s \in Servers : OneIdentity(store[b], s)
      BY <1>5
    <2>4. OneIdentity(store[b], s)'
      BY <1>1, <1>10, <2>1, <2>3 DEF OneIdentity
    <2>5. \A d \in Opened(rd.pref) : d = b
      BY <1>6
    <2> QED BY <1>1, <2>2, <2>4, <2>5 DEF RunOK
  <1> QED
    BY <1>7, <1>8, <1>9, <1>10 DEF RunReads

\* Save of a renewal writes what was there.
LEMMA RunSavesOK ==
    ASSUME TypeOK, ExchangeOK, RunOK, Save, cmd.op = "renew"
    PROVE  RunOK'
  <1>1. /\ cmd.at \in DOMAIN SaveOrder /\ UNCHANGED <<keyring, store, rd>>
        /\ cert' \in {Torn, Cert(cmd.csr.id, cmd.srv), cert}
        /\ ca' \in {Torn, CA(cmd.srv), ca} /\ state' \in {Torn, cmd.st, state}
    BY DEF Save, Saving, NewState
  <1>2. cmd'.op # "renew" \/ (cmd'.old = cmd.old /\ cmd'.st = cmd.st)
    <2>1. CASE cmd.at = "state2"
      BY <2>1 DEF Save, End, NoCmd
    <2>2. CASE cmd.at # "state2"
      <3>1. cmd' = [cmd EXCEPT !.at = SaveOrder[@]] /\ cmd \in RenewCmd
        BY <2>2, CmdKinds DEF Save
      <3> QED BY <3>1 DEF RenewCmd
    <2> QED BY <2>1, <2>2
  <1>3. cmd.old = Cert(cmd.csr.id, cmd.srv) /\ Whole(cmd.st)
    BY <1>1, SavePositions, ExchangeFields, NotPartial DEF ExchangeOK
  <1>4. Opened(rd.pref)' = Opened(rd.pref)
    BY <1>1 DEF Opened
  <1>5. ASSUME NEW k, NEW s, OneIdentity(k, s)
        PROVE  OneIdentity(k, s)'
    <2>1. Cert(k, s) = Cert(cmd.csr.id, cmd.srv) /\ cmd.st.id = k
      BY <1>3, <1>5 DEF OneIdentity
    <2>2. s = cmd.srv
      BY <2>1, CertInjective
    <2>3. cert' \in {Torn, Cert(k, s)} /\ ca' \in {Torn, CA(s)}
      BY <1>1, <1>5, <2>1, <2>2 DEF OneIdentity
    <2>4. state' = Torn \/ (Whole(state') /\ state'.id = k)
      BY <1>1, <1>3, <1>5, <2>1 DEF OneIdentity
    <2>5. cmd'.op = "renew" => cmd'.old = Cert(k, s) /\ cmd'.st.id = k
      BY <1>2, <1>3, <2>1
    <2> QED
      BY <1>1, <1>5, <2>3, <2>4, <2>5 DEF OneIdentity
  <1> QED
    BY <1>1, <1>4, <1>5 DEF RunOK

\* Every step keeps what a starting client has read and still finds of one
\* identity, or gives the client up.
LEMMA RunStep ==
    ASSUME TypeOK, ExchangeOK, RunOK, [Next]_vars
    PROVE  RunOK'
  <1> DEFINE Calm == UNCHANGED <<keyring, store, cert, ca, state, rd>>
  <1>1. \/ rd' = NoRun
        \/ \E p \in Prefs : RunBegins(p)
        \/ RunReads
        \/ Save /\ cmd.op = "renew"
        \/ Calm /\ cmd' = cmd
        \/ Calm /\ cmd' = NoCmd
        \/ Calm /\ InitTruncate
        \/ Calm /\ \E s \in Servers, p \in Prefs, o \in BOOLEAN :
                     \E pin \in {<<>>, <<s, 1>>} : EnrollLoad(s, p, pin, o)
        \/ Calm /\ \E s \in Servers, p \in Prefs : RenewLoad(s, p)
        \/ Calm /\ Signed
        \/ Calm /\ cmd.op \in {"enroll", "renew"} /\ cmd' = [cmd EXCEPT !.at = "cert1"]
    <2>1. Save => rd' = NoRun \/ cmd.op = "renew"
      BY DEF Save, Saving
    <2>2. Signed \/ Refused \/ ReplyLost \/ Reply \/ Breaks \/ InitTruncate \/ InitWrite => Calm
      BY Zenon DEF Signed, Refused, ReplyLost, Reply, Breaks, InitTruncate, InitWrite, files
    <2>3. Refused \/ ReplyLost \/ Breaks \/ InitWrite => cmd' = NoCmd
      BY Zenon DEF Refused, ReplyLost, Breaks, InitWrite, End
    <2>4. Reply => \/ cmd.op \in {"enroll", "renew"} /\ cmd' = [cmd EXCEPT !.at = "cert1"]
                   \/ cmd' = NoCmd
      BY Zenon DEF Reply, End
    <2>5. ASSUME NEW s, NEW p
          PROVE  /\ RenewLoad(s, p) => Calm
                 /\ \A pin, o : EnrollLoad(s, p, pin, o) => Calm
                 /\ InitKey(p) => rd' = NoRun
                 /\ RotateLeaf(s) => Calm /\ cmd' = cmd
      BY Zenon DEF RenewLoad, EnrollLoad, InitKey, RotateLeaf, files
    <2>6. RunEnds \/ KeyringTurns => rd' = NoRun
      BY Zenon DEF RunEnds, KeyringTurns
    <2>7. UNCHANGED vars => Calm /\ cmd' = cmd
      BY DEF vars, files
    <2> HIDE DEF Calm
    <2> QED
      BY <2>1, <2>2, <2>3, <2>4, <2>5, <2>6, <2>7, Zenon DEF Next
  <1>2. CASE rd' = NoRun
    BY <1>2 DEF RunOK, NoRun
  <1>3. CASE \E p \in Prefs : RunBegins(p)
    BY <1>3, RunBeginsOK
  <1>4. CASE RunReads
    BY <1>4, RunReadsOK
  <1>5. CASE Save /\ cmd.op = "renew"
    BY <1>5, RunSavesOK
  <1>6. CASE Calm /\ cmd' = cmd
    BY <1>6, RunUndisturbed
  <1>7. CASE Calm /\ cmd' = NoCmd
    BY <1>7, RunUndisturbed DEF NoCmd
  <1>8. CASE Calm /\ InitTruncate
    <2>1. cmd'.op # "renew"
      BY <1>8, CmdKinds DEF InitTruncate, InitCmd
    <2> QED BY <1>8, <2>1, RunUndisturbed
  <1>9. ASSUME Calm, NEW s \in Servers, NEW p \in Prefs, NEW o \in BOOLEAN,
               NEW pin \in {<<>>, <<s, 1>>}, EnrollLoad(s, p, pin, o)
        PROVE  RunOK'
    <2>1. cmd'.op # "renew"
      BY <1>9 DEF EnrollLoad
    <2> QED BY <1>9, <2>1, RunUndisturbed
  <1>10. ASSUME Calm, NEW s \in Servers, NEW p \in Prefs, RenewLoad(s, p)
         PROVE  RunOK'
    <2>1. cmd'.old = cert /\ cmd'.st = state /\ Whole(cert) /\ Whole(state)
      BY <1>10 DEF RenewLoad
    <2> QED BY <1>10, <2>1, RunUndisturbed
  <1>11. CASE Calm /\ (Signed \/ (/\ cmd.op \in {"enroll", "renew"}
                                  /\ cmd' = [cmd EXCEPT !.at = "cert1"]))
    <2>1. cmd.op \in {"enroll", "renew"} /\ cmd \in EnrollCmd \cup RenewCmd
      BY <1>11, ExchangeFields DEF Signed
    <2>2. cmd'.op # "renew" \/ (cmd.op = "renew" /\ cmd'.old = cmd.old /\ cmd'.st = cmd.st)
      BY <1>11, <2>1 DEF Signed, EnrollCmd, RenewCmd
    <2> QED BY <1>11, <2>2, RunUndisturbed
  <1> QED
    BY <1>1, <1>2, <1>3, <1>4, <1>5, <1>6, <1>7, <1>8, <1>9, <1>10, <1>11, Zenon

-----------------------------------------------------------------------------
\* Identity: theorems.

\* IdentityInv holds in every state the commands, however cut off, and the
\* starting client can reach.
THEOREM IdentityInvariant == Spec => []IdentityInv
  <1>1. Init => IdentityInv
    <2> SUFFICES ASSUME Init PROVE IdentityInv
      OBVIOUS
    <2>1. TypeOK
      BY DEF Init, TypeOK, CsrFile, CertFile, CAFile, StateFile, Partial, None
    <2>2. cmd.op = "none" /\ rd = NoRun /\ rd.at = "no" /\ last.op = "none" /\ last.res = "ok"
      BY DEF Init, NoCmd, NoRun
    <2> QED
      BY <2>1, <2>2 DEF IdentityInv, ExchangeOK, RunOK, SuccessIsPaired, RefusalIsHarmless
  <1>2. IdentityInv /\ [Next]_vars => IdentityInv'
    BY IdentityTypeStep, ExchangeStep, RunStep, PairedStep, HarmlessStep DEF IdentityInv
  <1> QED
    BY <1>1, <1>2, PTL DEF Spec

\* An enrollment or a renewal that reports success leaves a certificate of the
\* stored key, its issuer's CA and a record that pins that issuer's server,
\* whatever commands were cut off before it.
THEOREM IdentitySuccessIsPaired == Spec => []SuccessIsPaired
  <1>1. IdentityInv => SuccessIsPaired
    BY DEF IdentityInv
  <1> QED BY <1>1, IdentityInvariant, PTL

\* An exchange that is refused, lost or fails the checks of its answer leaves
\* certificate, CA and record as they were.
THEOREM IdentityRefusalIsHarmless == Spec => []RefusalIsHarmless
  <1>1. IdentityInv => RefusalIsHarmless
    BY DEF IdentityInv
  <1> QED BY <1>1, IdentityInvariant, PTL

\* A client that starts while a certificate is renewed reads record, CA,
\* certificate and key of one identity, or cannot start.
THEOREM IdentityRunReadsOneIdentity == Spec => []RunReadsOneIdentity
  <1>1. IdentityInv => RunReadsOneIdentity
    <2> SUFFICES ASSUME IdentityInv, rd.at = "loaded"
                 PROVE  Usable(rd.st, rd.ca, rd.cert, rd.key)
      BY DEF RunReadsOneIdentity
    <2>1. rd # NoRun /\ Opened(rd.pref) # {}
      BY DEF IdentityInv, RunOK, NoRun
    <2>2. PICK b \in Opened(rd.pref), s \in Servers : OneIdentity(store[b], s)
      BY <2>1 DEF IdentityInv, RunOK
    <2>3. /\ Whole(rd.st) /\ rd.st.id = store[b] /\ rd.ca = CA(s)
          /\ rd.cert \in {Torn, Cert(store[b], s)} /\ Whole(rd.cert) /\ rd.key = store[b]
      BY <2>2 DEF OneIdentity
    <2>4. rd.cert = Cert(store[b], s)
      BY <2>3, WholeFiles
    <2> QED
      BY <2>3, <2>4 DEF Usable, Whole, CA, Cert
  <1> QED BY <1>1, IdentityInvariant, PTL

-----------------------------------------------------------------------------
\* DesktopApi: the inductive invariant.

\* The configuration keeps its type when a tunnel is entered or deleted.
LEMMA DesktopConfigs ==
    ASSUME NEW c \in ClientConfig, NEW n \in Names, NEW s \in Setting \cup {"none"}
    PROVE  /\ [c EXCEPT !.tunnels[n] = s] \in ClientConfig
           /\ Default \in ClientConfig
           /\ [c EXCEPT !.addr = "good"] \in ClientConfig
  BY DEF ClientConfig, Setting, Default

\* What a step does to the identity and the enrollment under way.
LEMMA DesktopIdentSteps ==
    ASSUME [DesktopNext]_desktopVars
    PROVE  \/ UNCHANGED <<enr, keyOf, certOf, caOf, stateOf>>
           \/ /\ enr' = [enr EXCEPT !.step = "no"]
              /\ UNCHANGED <<keyOf, certOf, caOf, stateOf>>
           \/ Enroll \/ Answer \/ Store
  BY Zenon DEF DesktopNext, desktopVars, identVars, Launch, EditFile, Quit, Start, Handshake,
     RunReturns, Finish, Stop, UpdateConfig, UpsertTunnel, DeleteTunnel, EnrollFails

\* Every step keeps the types of the desktop.
LEMMA DesktopTypeStep ==
    ASSUME DesktopTypeOK, [DesktopNext]_desktopVars
    PROVE  DesktopTypeOK'
  <1>1. /\ app' \in {"off", "open", "failed"} /\ cfg' \in ClientConfig
        /\ toml' \in ClientConfig \cup {Missing}
    <2>1. \/ UNCHANGED <<app, toml, cfg>>
          \/ Launch \/ EditFile \/ Quit
          \/ \E c \in ClientConfig : UpdateConfig(c)
          \/ \E n \in Names, s \in Setting : UpsertTunnel(n, s)
          \/ \E n \in Names : DeleteTunnel(n)
      BY Zenon DEF DesktopNext, desktopVars, Start, Handshake, RunReturns, Finish, Stop, Enroll, Store,
         Answer, EnrollFails
    <2>2. CASE UNCHANGED <<app, toml, cfg>>
      BY <2>2 DEF DesktopTypeOK
    <2>3. CASE Launch
      <3>1. Default \in ClientConfig
        BY DEF Default, ClientConfig, Setting
      <3>2. toml' \in ClientConfig
        BY <2>3, <3>1 DEF Launch, DesktopTypeOK
      <3> QED BY <2>3, <3>2 DEF Launch, DesktopTypeOK
    <2>4. CASE EditFile
      <3>1. toml \in ClientConfig
        BY <2>4 DEF EditFile, DesktopTypeOK
      <3>2. toml' \in ClientConfig
        BY <2>4, <3>1 DEF EditFile, ClientConfig, Setting
      <3> QED BY <2>4, <3>2 DEF EditFile, DesktopTypeOK
    <2>5. CASE Quit
      <3>1. Default \in ClientConfig
        BY DEF Default, ClientConfig, Setting
      <3> QED BY <2>5, <3>1 DEF Quit, DesktopTypeOK
    <2>6. ASSUME NEW c \in ClientConfig, UpdateConfig(c)
          PROVE  cfg' \in ClientConfig /\ toml' \in {cfg', toml} /\ app' = app
      BY <2>6 DEF UpdateConfig, Persist
    <2>7. ASSUME NEW n \in Names, NEW s \in Setting, UpsertTunnel(n, s)
          PROVE  cfg' \in ClientConfig /\ toml' \in {cfg', toml} /\ app' = app
      <3>1. cfg \in ClientConfig /\ cfg' = [cfg EXCEPT !.tunnels[n] = s]
        BY <2>7 DEF UpsertTunnel, DesktopTypeOK
      <3>2. cfg' \in ClientConfig
        BY <3>1, DesktopConfigs
      <3>3. toml' \in {cfg', toml} /\ app' = app
        BY <2>7, Zenon DEF UpsertTunnel, Persist
      <3> QED BY <3>2, <3>3
    <2>8. ASSUME NEW n \in Names, DeleteTunnel(n)
          PROVE  cfg' \in ClientConfig /\ toml' \in {cfg', toml} /\ app' = app
      <3>1. cfg \in ClientConfig /\ cfg' = [cfg EXCEPT !.tunnels[n] = "none"]
        BY <2>8 DEF DeleteTunnel, DesktopTypeOK
      <3>2. cfg' \in ClientConfig
        BY <3>1, DesktopConfigs
      <3>3. toml' \in {cfg', toml} /\ app' = app
        BY <2>8, Zenon DEF DeleteTunnel, Persist
      <3> QED BY <3>2, <3>3
    <2>9. CASE cfg' \in ClientConfig /\ toml' \in {cfg', toml} /\ app' = app
      BY <2>9 DEF DesktopTypeOK
    <2> QED BY <2>1, <2>2, <2>3, <2>4, <2>5, <2>6, <2>7, <2>8, <2>9, Zenon
  <1>2. client' \in 0..MaxRuns /\ cancelled' \subseteq Runs
    <2>1. client' = client \/ client' = 0 \/ \E k \in Runs : client' = k
      BY Zenon DEF DesktopNext, desktopVars, runVars, Launch, EditFile, Quit, Start, Handshake, RunReturns,
         Finish, Stop, UpdateConfig, UpsertTunnel, DeleteTunnel, Enroll, Store,
         Answer, EnrollFails
    <2>2. \/ cancelled' = cancelled \/ cancelled' = {}
          \/ client # 0 /\ cancelled' = cancelled \cup {client}
      BY Zenon DEF DesktopNext, desktopVars, runVars, Launch, EditFile, Quit, Start, Handshake, RunReturns,
         Finish, Stop, UpdateConfig, UpsertTunnel, DeleteTunnel, Enroll, Store,
         Answer, EnrollFails
    <2>3. client \in 0..MaxRuns /\ cancelled \subseteq Runs
      BY DEF DesktopTypeOK
    <2>4. client' \in 0..MaxRuns
      BY DesktopApiAssumption, <2>1, <2>3 DEF Runs
    <2>5. client # 0 => client \in Runs
      BY DesktopApiAssumption, <2>3 DEF Runs
    <2> QED BY <2>2, <2>3, <2>4, <2>5
  <1>3. run' \in [Runs -> {"none", "running", "handshake", "returned", "ended"}]
    <2>1. \/ run' = run \/ Quit
          \/ \E k \in Runs, v \in {"running", "handshake", "returned", "ended"} :
                run' = [run EXCEPT ![k] = v]
      BY Zenon DEF DesktopNext, desktopVars, runVars, Launch, EditFile, Start, Handshake, RunReturns,
         Finish, Stop, UpdateConfig, UpsertTunnel, DeleteTunnel, Enroll, Store,
         Answer, EnrollFails
    <2>2. CASE Quit
      BY <2>2 DEF Quit
    <2> QED BY <2>1, <2>2 DEF DesktopTypeOK
  <1>4. /\ {keyOf', stateOf'} \subseteq 0..MaxEnrolls
        /\ {certOf', caOf'} \subseteq 0..MaxEnrolls \cup {Cut}
        /\ enr' \in [n : 0..MaxEnrolls, step : {"no", "ask"} \cup DOMAIN NextStep]
    <2>1. \/ UNCHANGED <<enr, keyOf, certOf, caOf, stateOf>>
          \/ /\ \E v \in {"no", "key"} : enr' = [enr EXCEPT !.step = v]
             /\ UNCHANGED <<keyOf, certOf, caOf, stateOf>>
          \/ Enroll \/ Store
      BY DesktopIdentSteps, Zenon DEF Answer
    <2>2. /\ enr \in [n : 0..MaxEnrolls, step : {"no", "ask"} \cup DOMAIN NextStep]
          /\ "key" \in DOMAIN NextStep
      BY DEF DesktopTypeOK, NextStep
    <2>3. CASE UNCHANGED <<enr, keyOf, certOf, caOf, stateOf>>
      BY <2>2, <2>3 DEF DesktopTypeOK
    <2>4. CASE /\ \E v \in {"no", "key"} : enr' = [enr EXCEPT !.step = v]
               /\ UNCHANGED <<keyOf, certOf, caOf, stateOf>>
      BY <2>2, <2>4 DEF DesktopTypeOK
    <2>5. CASE Enroll
      <3>1. /\ enr' = [n |-> enr.n + 1, step |-> "ask"] /\ enr.n < MaxEnrolls
            /\ UNCHANGED <<keyOf, certOf, caOf, stateOf>>
        BY <2>5 DEF Enroll
      <3>2. enr.n + 1 \in 0..MaxEnrolls
        BY DesktopApiAssumption, <2>2, <3>1
      <3> QED BY <3>1, <3>2 DEF DesktopTypeOK
    <2>6. CASE Store
      <3>1. enr.step \in DOMAIN NextStep /\ enr' = [enr EXCEPT !.step = NextStep[@]]
        BY <2>2, <2>6 DEF Store
      <3>2. NextStep[enr.step] \in {"no", "ask"} \cup DOMAIN NextStep
        BY <3>1 DEF NextStep
      <3>3. {keyOf', stateOf'} \subseteq {enr.n, keyOf, stateOf}
        BY <2>6, Zenon DEF Store
      <3>4. {certOf', caOf'} \subseteq {Cut, enr.n, certOf, caOf}
        BY <2>6 DEF Store, Written
      <3> QED BY <2>2, <3>1, <3>2, <3>3, <3>4 DEF DesktopTypeOK
    <2> QED BY <2>1, <2>3, <2>4, <2>5, <2>6, Zenon
  <1> QED
    BY <1>1, <1>2, <1>3, <1>4 DEF DesktopTypeOK

\* A client in place is not ended behind the back of the facade: the goroutine
\* that ends takes the client away in the same step.
LEMMA DesktopLiveStep ==
    ASSUME DesktopTypeOK, ClientIsLive, [DesktopNext]_desktopVars
    PROVE  ClientIsLive'
  <1>1. \/ client' = 0
        \/ UNCHANGED <<client, run>>
        \/ \E k \in Runs : client' = k /\ run' = [run EXCEPT ![k] = "running"]
        \/ \E k \in Runs, v \in {"running", "handshake", "returned"} :
              client' = client /\ run' = [run EXCEPT ![k] = v]
    BY Zenon DEF DesktopNext, desktopVars, runVars, Launch, EditFile, Quit, Start, Handshake, RunReturns,
       Finish, Stop, UpdateConfig, UpsertTunnel, DeleteTunnel, Enroll, Store,
       Answer, EnrollFails
  <1>2. client # 0 => client \in Runs
    BY DesktopApiAssumption DEF DesktopTypeOK, Runs
  <1>3. run \in [Runs -> {"none", "running", "handshake", "returned", "ended"}]
    BY DEF DesktopTypeOK
  <1> QED
    BY <1>1, <1>2, <1>3 DEF ClientIsLive

\* The key comes first and state.json last: while certificate and CA are those
\* of neither enrollment, the key is of a later one than state.json.
LEMMA DesktopStoreStep ==
    ASSUME DesktopTypeOK, StoreOK, IdentityMatches, [DesktopNext]_desktopVars
    PROVE  StoreOK' /\ IdentityMatches'
  <1>1. /\ enr \in [n : 0..MaxEnrolls, step : {"no", "ask"} \cup DOMAIN NextStep]
        /\ enr.n \in Nat /\ keyOf \in Nat /\ stateOf \in Nat
    BY DesktopApiAssumption DEF DesktopTypeOK
  <1>2. CASE UNCHANGED <<enr, keyOf, certOf, caOf, stateOf>>
    BY <1>2 DEF StoreOK, IdentityMatches
  <1>3. CASE enr' = [enr EXCEPT !.step = "no"] /\ UNCHANGED <<keyOf, certOf, caOf, stateOf>>
    <2>1. enr'.step = "no" /\ enr'.n = enr.n
      BY <1>1, <1>3
    <2> QED BY <1>3, <2>1 DEF StoreOK, IdentityMatches, NextStep
  <1>4. CASE Enroll
    <2>1. /\ enr'.step = "ask" /\ enr'.n = enr.n + 1
          /\ UNCHANGED <<keyOf, certOf, caOf, stateOf>>
      BY <1>4 DEF Enroll
    <2> QED BY <1>1, <2>1 DEF StoreOK, IdentityMatches, NextStep
  <1>5. CASE Answer
    <2>1. /\ enr.step = "ask" /\ enr'.step = "key" /\ enr'.n = enr.n
          /\ UNCHANGED <<keyOf, certOf, caOf, stateOf>>
      BY <1>1, <1>5 DEF Answer
    <2> QED BY <1>1, <2>1 DEF StoreOK, IdentityMatches, NextStep
  <1>6. CASE Store
    <2>1. /\ enr.step \in {"key", "cert1", "cert2", "ca1", "ca2", "state"}
          /\ enr'.step = NextStep[enr.step] /\ enr'.n = enr.n
      BY <1>1, <1>6 DEF Store, NextStep
    <2>2. /\ keyOf' = IF enr.step = "key" THEN enr.n ELSE keyOf
          /\ certOf' = IF enr.step = "cert1" THEN Cut
                       ELSE IF enr.step = "cert2" THEN enr.n ELSE certOf
          /\ caOf' = IF enr.step = "ca1" THEN Cut
                     ELSE IF enr.step = "ca2" THEN enr.n ELSE caOf
          /\ stateOf' = IF enr.step = "state" THEN enr.n ELSE stateOf
      BY <1>6 DEF Store, Written
    <2>3. CASE enr.step = "key"
      BY <1>1, <2>1, <2>2, <2>3 DEF StoreOK, IdentityMatches, NextStep
    <2>4. CASE enr.step \in {"cert1", "cert2"}
      BY <1>1, <2>1, <2>2, <2>4 DEF StoreOK, IdentityMatches, NextStep
    <2>5. CASE enr.step \in {"ca1", "ca2"}
      BY <1>1, <2>1, <2>2, <2>5 DEF StoreOK, IdentityMatches, NextStep
    <2>6. CASE enr.step = "state"
      BY <1>1, <2>1, <2>2, <2>6 DEF StoreOK, IdentityMatches, NextStep
    <2> QED
      BY <2>1, <2>3, <2>4, <2>5, <2>6
  <1> QED
    BY DesktopIdentSteps, <1>2, <1>3, <1>4, <1>5, <1>6, Zenon

-----------------------------------------------------------------------------
\* DesktopApi: theorems.

\* DesktopInv, its types included, holds in every state the calls of the user
\* interface, the client goroutines and a cut off enrollment can reach.
THEOREM DesktopInvariant == DesktopSpec => []DesktopInv
  <1>1. DesktopInit => DesktopInv
    <2> SUFFICES ASSUME DesktopInit PROVE DesktopInv
      OBVIOUS
    <2>1. Default \in ClientConfig
      BY DEF Default, ClientConfig, Setting
    <2>2. DesktopTypeOK
      BY DesktopApiAssumption, <2>1 DEF DesktopInit, DesktopTypeOK, Runs
    <2> QED
      BY <2>2 DEF DesktopInit, DesktopInv, ClientIsLive, StoreOK, IdentityMatches
  <1>2. DesktopInv /\ [DesktopNext]_desktopVars => DesktopInv'
    BY DesktopTypeStep, DesktopLiveStep, DesktopStoreStep DEF DesktopInv
  <1> QED
    BY <1>1, <1>2, PTL DEF DesktopSpec

\* A client that Start has left in place runs, or waits for the lock to take
\* itself away: no call and no goroutine ends it and leaves it there.
THEOREM DesktopClientIsLive == DesktopSpec => []ClientIsLive
  <1>1. DesktopInv => ClientIsLive
    BY DEF DesktopInv
  <1> QED BY <1>1, DesktopInvariant, PTL

\* Wherever enrollments are refused, fail or are cut off, even inside the write
\* of a file: a key that is of the enrollment state.json names has the whole
\* certificate and the whole CA of that enrollment beside it.
THEOREM DesktopIdentityMatches == DesktopSpec => []IdentityMatches
  <1>1. DesktopInv => IdentityMatches
    BY DEF DesktopInv
  <1> QED BY <1>1, DesktopInvariant, PTL

-----------------------------------------------------------------------------
\* Config: the merge.

\* The ranges of the numbers, as far as the two sides' checks depend on them.
LEMMA NumRanges ==
    /\ DOMAIN Num = {"max_tunnels", "max_conns", "udp_sessions", "udp_packet", "interval",
                       "timeout", "miss"}
    /\ \A f \in DOMAIN Num : Num[f].lo \in Nat /\ Num[f].def \in Int
    /\ Num["max_tunnels"].lo = 1 /\ Num["max_tunnels"].hi = 1024
    /\ Num["max_conns"].lo = 1 /\ Num["max_conns"].hi = 100000
    /\ Num["udp_packet"].hi = 65507
    /\ Num["interval"].lo = 5 /\ Num["interval"].hi = 300
    /\ Num["timeout"].lo = 1 /\ Num["miss"].lo = 1
  BY DEF Num, Range

\* Numbers and lists are fields, with defaults of their types.
LEMMA ServerDefaults ==
    /\ DOMAIN Num \subseteq Fields /\ Arrays \subseteq Fields
    /\ {"state_dir", "control", "enroll", "vhost", "bandwidth"} \subseteq Fields
    /\ DOMAIN Num \cap Arrays = {}
    /\ \A f \in DOMAIN Num : DefaultServerConfig[f] \in Int
    /\ \A f \in Arrays : \A i \in DOMAIN DefaultServerConfig[f] :
          {DefaultServerConfig[f][i].lo, DefaultServerConfig[f][i].hi} \subseteq Int
  <1>1. Fields = {"max_tunnels", "max_conns", "udp_sessions", "udp_packet", "interval",
                    "timeout", "miss", "state_dir", "control", "enroll", "vhost", "bandwidth",
                    "allowed_ports", "allowed_targets"}
    BY DEF Fields, DefaultServerConfig
  <1>2. \A f \in DOMAIN Num : DefaultServerConfig[f] = Num[f].def
    <2>1. /\ DefaultServerConfig["max_tunnels"] = Num["max_tunnels"].def
          /\ DefaultServerConfig["max_conns"] = Num["max_conns"].def
          /\ DefaultServerConfig["udp_sessions"] = Num["udp_sessions"].def
          /\ DefaultServerConfig["udp_packet"] = Num["udp_packet"].def
          /\ DefaultServerConfig["interval"] = Num["interval"].def
          /\ DefaultServerConfig["timeout"] = Num["timeout"].def
          /\ DefaultServerConfig["miss"] = Num["miss"].def
      BY DEF DefaultServerConfig
    <2> QED BY <2>1, NumRanges
  <1>3. /\ DefaultServerConfig["allowed_ports"] = <<[lo |-> 20000, hi |-> 29999, sp |-> "no"]>>
        /\ DefaultServerConfig["allowed_targets"] =
             <<[net |-> {"10.0.0.1"}, lo |-> 1, hi |-> -1, sp |-> "no"]>>
    BY DEF DefaultServerConfig
  <1>4. \A f \in Arrays : \A i \in DOMAIN DefaultServerConfig[f] :
          {DefaultServerConfig[f][i].lo, DefaultServerConfig[f][i].hi} \subseteq Int
    BY <1>3 DEF Arrays
  <1> QED
    BY <1>1, <1>2, <1>4, NumRanges DEF Arrays

\* The value the layers give a field.
Given(fl, ev, f) ==
    IF f \notin Arrays \cup {"tunnels"} /\ IsSet(ev, f) /\ ~IsEmpty(f, ev[f]) THEN ev[f]
    ELSE IF IsSet(fl, f) THEN fl[f] ELSE DefaultServerConfig[f]

\* What ResolveServer merges and fills in, before it is checked.
Merged(fl, ev) ==
    FillServer(ApplyOverlays(ApplyOverlays(DefaultServerConfig, fileOverlays(fl)),
                                 envOverlaysFor(ev)))

\* The merge gives every field the value of the highest layer that sets it,
\* unless that value is one to be filled in.
LEMMA MergedFields ==
    ASSUME NEW fl, NEW ev, DOMAIN fl = Fields, DOMAIN ev = Fields
    PROVE  /\ DOMAIN Merged(fl, ev) = Fields
           /\ \A f \in Fields :
                Merged(fl, ev)[f] = IF Filled(f, Given(fl, ev, f))
                                    THEN DefaultServerConfig[f] ELSE Given(fl, ev, f)
  <1> DEFINE one == ApplyOverlays(DefaultServerConfig, fileOverlays(fl))
             two == ApplyOverlays(one, envOverlaysFor(ev))
  <1>1. /\ DOMAIN one = Fields
        /\ \A f \in Fields :
             one[f] = IF IsSet(fl, f) THEN fl[f] ELSE DefaultServerConfig[f]
    BY DEF ApplyOverlays, fileOverlays, Fields
  <1>2. /\ DOMAIN two = Fields
        /\ \A f \in Fields : two[f] = Given(fl, ev, f)
    <2> HIDE DEF one
    <2> QED BY <1>1 DEF ApplyOverlays, envOverlaysFor, Given
  <1> HIDE DEF two
  <1> QED
    BY <1>2 DEF Merged, FillServer, two

\* A server that runs has merged its layers as they are, and they are valid.
LEMMA ServerResolved ==
    ASSUME ResolvedOK, srv.at = "ok"
    PROVE  /\ srv.c = Merged(file, env) /\ ValidateServer(srv.c)
           /\ Loads(file) /\ Loads(env)
  <1>1. srv = ResolveServer(file, env)
    BY DEF ResolvedOK, Off
  <1>2. ResolveServer(file, env) =
          IF Loads(file) /\ Loads(env) /\ ValidateServer(Merged(file, env))
          THEN Ok(Merged(file, env)) ELSE Error
    BY Zenon DEF ResolveServer, Merged
  <1>3. Error.at # "ok" /\ Ok(Merged(file, env)).c = Merged(file, env)
    BY DEF Error, Ok
  <1> QED
    BY <1>1, <1>2, <1>3, Zenon

\* Its numbers are integers and its lists hold ranges of integers.
LEMMA ServerTyped ==
    ASSUME LayersOK, ResolvedOK, srv.at = "ok"
    PROVE  /\ \A f \in DOMAIN Num : srv.c[f] \in Int
           /\ \A f \in Arrays : \A i \in DOMAIN srv.c[f] :
                srv.c[f][i].lo \in Int /\ srv.c[f][i].hi \in Int
  <1>1. DOMAIN file = Fields /\ DOMAIN env = Fields
    BY DEF LayersOK
  <1>2. \A f \in Fields :
          srv.c[f] = IF Filled(f, Given(file, env, f))
                     THEN DefaultServerConfig[f] ELSE Given(file, env, f)
    BY <1>1, ServerResolved, MergedFields
  <1>3. \A f \in Fields : file[f] # Bad /\ env[f] # Bad
    BY <1>1, ServerResolved DEF Loads
  <1>4. ASSUME NEW f \in DOMAIN Num
        PROVE  srv.c[f] \in Int
    <2>1. (file[f] # Unset => file[f] \in Int) /\ (env[f] # Unset => env[f] \in Int)
      BY <1>3, <1>4, ServerDefaults DEF LayersOK
    <2> QED BY <1>2, <2>1, ServerDefaults DEF Given, IsSet
  <1>5. ASSUME NEW f \in Arrays
        PROVE  \A i \in DOMAIN srv.c[f] : srv.c[f][i].lo \in Int /\ srv.c[f][i].hi \in Int
    <2>1. file[f] # Unset =>
            \A i \in DOMAIN file[f] : file[f][i].lo \in Int /\ file[f][i].hi \in Int
      BY <1>3, <1>5, ServerDefaults DEF LayersOK
    <2>2. srv.c[f] = DefaultServerConfig[f] \/ (file[f] # Unset /\ srv.c[f] = file[f])
      BY <1>2, ServerDefaults DEF Given, IsSet
    <2> QED BY <2>1, <2>2, ServerDefaults
  <1> QED
    BY <1>4, <1>5

-----------------------------------------------------------------------------
\* Config: what the other side makes of it.

\* No port of a listener is in a range a registration can be granted.
LEMMA ListenersFollow ==
    ASSUME ResolvedOK, SessionOK
    PROVE  ListenersPrivate
  <1> SUFFICES ASSUME reg.res = "granted", reg.t.port # 0
               PROVE  reg.t.port # srv.c.control /\ reg.t.port # srv.c.enroll
    BY DEF ListenersPrivate
  <1>1. reg # NoReg
    BY DEF NoReg
  <1>2. sess = "up" /\ reg.res = RegisterResult(reg.t)
    BY <1>1 DEF SessionOK
  <1>3. srv.at = "ok"
    BY <1>2 DEF SessionOK
  <1>4. portAllowed(srv.c.allowed_ports, reg.t.port)
    BY <1>2 DEF RegisterResult
  <1>5. ListenersExcluded(srv.c)
    BY <1>3, ServerResolved DEF ValidateServer
  <1> QED
    BY <1>4, <1>5 DEF portAllowed, ListenersExcluded

\* The client's ranges contain the server's, but for three numbers.
LEMMA RefusedFollows ==
    ASSUME LayersOK, ResolvedOK, SessionOK
    PROVE  RefusedOnlyForMismatch
  <1> DEFINE c == srv.c
  <1> SUFFICES ASSUME sess \in {"refused", "stuck"},
                      ~(c.timeout > 60), ~(c.miss > 10), ~(c.udp_sessions > 65536),
                      \A i \in DOMAIN c.allowed_targets : c.allowed_targets[i].sp = "no"
               PROVE  FALSE
    BY DEF RefusedOnlyForMismatch
  <1>1. srv.at = "ok" /\ sess = HelloResult(c)
    BY DEF SessionOK
  <1>2. /\ c["max_tunnels"] \in Int /\ c["max_conns"] \in Int /\ c["udp_sessions"] \in Int
        /\ c["udp_packet"] \in Int /\ c["interval"] \in Int /\ c["timeout"] \in Int
        /\ c["miss"] \in Int
    BY <1>1, ServerTyped, NumRanges
  <1>3. ValidateServer(c)
    BY <1>1, ServerResolved
  <1> HIDE DEF c
  <1>4. \A f \in DOMAIN Num : Num[f].lo <= c[f] /\ c[f] <= Num[f].hi
    BY <1>3 DEF ValidateServer, Within
  <1>5. ValidateHeartbeat(c)
    BY <1>2, <1>4, NumRanges DEF ValidateHeartbeat, Within, Range
  <1>6. \A i \in DOMAIN c.allowed_targets : validTarget(c.allowed_targets[i])
    BY <1>3 DEF ValidateServer, parseTarget, validTarget
  <1>7. ValidatePolicy(c)
    BY <1>2, <1>3, <1>4, <1>6, NumRanges
       DEF ValidatePolicy, Within, Range, ValidateServer
  <1>8. ParseTargets(c.allowed_targets)
    BY DEF ParseTargets
  <1> QED
    BY <1>1, <1>5, <1>7, <1>8 DEF HelloResult

\* The chain of checks a registration passes through is the one condition.
LEMMA GrantedFollows ==
    ASSUME TypedValues, LayersOK, ResolvedOK, SessionOK
    PROVE  GrantedAsWritten
  <1> DEFINE c == srv.c
             t == reg.t
             origin == \E i \in DOMAIN c.allowed_targets :
                         /\ t.ip \in c.allowed_targets[i].net
                         /\ \/ c.allowed_targets[i].hi = -1
                            \/ t.lport \in c.allowed_targets[i].lo..c.allowed_targets[i].hi
             public == \E i \in DOMAIN c.allowed_ports :
                         /\ c.allowed_ports[i].sp = "no"
                         /\ t.port \in c.allowed_ports[i].lo..c.allowed_ports[i].hi
  <1> SUFFICES ASSUME reg # NoReg
               PROVE  reg.res = "granted" <=>
                        origin /\ t.ip \in Literals /\ (IF t.port = 0 THEN c.vhost # 0 ELSE public)
    BY Zenon DEF GrantedAsWritten
  <1>1. /\ sess = "up" /\ t \in Tunnels /\ ValidTunnel(t) /\ reg.res = RegisterResult(t)
        /\ srv.at = "ok" /\ sess = HelloResult(c)
    BY DEF SessionOK
  <1>2. t.port \in Int /\ t.lport \in Int
    BY <1>1 DEF TypedValues
  <1>3. /\ \A i \in DOMAIN c.allowed_targets :
             c.allowed_targets[i].lo \in Int /\ c.allowed_targets[i].hi \in Int
        /\ \A i \in DOMAIN c.allowed_ports :
             c.allowed_ports[i].lo \in Int /\ c.allowed_ports[i].hi \in Int
    BY <1>1, ServerTyped DEF Arrays
  <1> HIDE DEF c, t
  <1>4. ParseTargets(c.allowed_targets)
    BY <1>1 DEF HelloResult
  <1>10. /\ \/ t.type \in {"tcp", "udp", "https"} /\ IsPort(t.port)
            \/ /\ t.type = "http" /\ (t.port = 0 \/ IsPort(t.port))
               /\ (t.host # "" \/ t.port # 0)
         /\ t.ip \notin BadAddrs /\ IsPort(t.lport)
    BY <1>1, Zenon DEF ValidTunnel, validLocalIP
  <1>11. ~IsPort(0)
    BY DEF IsPort
  <1>5. ValidateRegisterTunnel(t)
    BY <1>10, <1>11 DEF ValidateRegisterTunnel
  <1>6. checkTargetAllowed(c.allowed_targets, t.ip, t.lport) <=> origin /\ t.ip \in Literals
    BY <1>2, <1>3, <1>4 DEF checkTargetAllowed, Allows, AnyPort, Within
  <1>7. portAllowed(c.allowed_ports, t.port) <=> public
    BY <1>2, <1>3 DEF portAllowed, Within
  <1>8. (t.port = 0 => t.type = "http") /\ (t.port # 0 => IsPort(t.port))
    BY <1>10, <1>11
  <1>9. RegisterResult(t) = "granted" <=>
          /\ checkTargetAllowed(c.allowed_targets, t.ip, t.lport)
          /\ t.port = 0 => c.vhost # 0
          /\ t.port # 0 => portAllowed(c.allowed_ports, t.port)
    <2> DEFINE check == checkTargetAllowed(c.allowed_targets, t.ip, t.lport)
               open == portAllowed(c.allowed_ports, t.port)
    <2>1. RegisterResult(t) =
            IF ~check THEN "target"
            ELSE IF t.type = "http" /\ t.port = 0 THEN IF c.vhost = 0 THEN "vhost" ELSE "granted"
            ELSE IF IsPort(t.port) /\ open THEN "granted" ELSE "port"
      BY <1>5, Zenon DEF RegisterResult, c
    <2>2. CASE t.port = 0
      BY <2>1, <2>2, <1>8
    <2>3. CASE t.port # 0
      BY <2>1, <2>3, <1>8
    <2> QED BY <2>2, <2>3
  <1> QED
    BY <1>1, <1>6, <1>7, <1>9, Zenon

-----------------------------------------------------------------------------
\* Config: the desktop.

\* The fields of client.toml and what an empty configuration has in them.
LEMMA ClientFields ==
    /\ CFields = {"addr", "jitter", "heartbeat", "level", "tunnels"}
    /\ DOMAIN DefaultClientConfig = CFields
    /\ ZeroClientConfig["addr"] = 0 /\ ZeroClientConfig["jitter"] = 0
    /\ ZeroClientConfig["heartbeat"] = FALSE /\ ZeroClientConfig["level"] = ""
    /\ ZeroClientConfig["tunnels"] = 0
  BY DEF CFields, DefaultClientConfig, ZeroClientConfig

\* What FillClient does to each field.
LEMMA FillClientFields ==
    ASSUME NEW x, DOMAIN x = CFields
    PROVE  /\ DOMAIN FillClient(x) = CFields
           /\ FillClient(x) = [f \in CFields |-> FillClient(x)[f]]
           /\ FillClient(x).addr = x.addr
           /\ FillClient(x).jitter = IF x.jitter = 0 THEN 2 ELSE x.jitter
           /\ FillClient(x).heartbeat = (x.heartbeat \/ x.level = "")
           /\ FillClient(x).level = IF x.level = "" THEN "info" ELSE x.level
           /\ FillClient(x).tunnels = x.tunnels
  BY ClientFields DEF FillClient

\* A configuration the desktop opens is complete.
LEMMA LoadedComplete ==
    ASSUME TypedValues, LayersOK
    PROVE  LET d == LoadClient(cfile)
           IN  d = Error \/ (d = Ok(d.c) /\ Complete(d.c))
  <1> DEFINE x == [f \in CFields |-> IF IsSet(cfile, f) THEN cfile[f] ELSE ZeroClientConfig[f]]
             y == FillClient(x)
  <1>1. LoadClient(cfile) = IF Loads(cfile) /\ ValidateClient(y) THEN Ok(y) ELSE Error
    BY Zenon DEF LoadClient
  <1>2. Ok(y).c = y
    BY DEF Ok
  <1>3. ASSUME Loads(cfile), ValidateClient(y)
        PROVE  Complete(y)
    <2>1. /\ DOMAIN x = CFields
          /\ \A f \in CFields : x[f] = IF cfile[f] # Unset THEN cfile[f] ELSE ZeroClientConfig[f]
      BY DEF IsSet
    <2>2. \A f \in CFields : cfile[f] # Bad
      BY <1>3 DEF Loads, LayersOK
    <2>3. x.heartbeat \in BOOLEAN
      BY <2>1, <2>2, ClientFields DEF LayersOK
    <2> HIDE DEF x
    <2>4. /\ y = [f \in CFields |-> y[f]] /\ y.addr = x.addr
          /\ y.jitter = (IF x.jitter = 0 THEN 2 ELSE x.jitter)
          /\ y.heartbeat = (x.heartbeat \/ x.level = "")
          /\ y.level = (IF x.level = "" THEN "info" ELSE x.level)
          /\ y.tunnels = x.tunnels
      BY <2>1, FillClientFields, Zenon
    <2>5. y.heartbeat \in BOOLEAN
      BY <2>3, <2>4
    <2> HIDE DEF y
    <2>6. y.jitter # 0 /\ y.level # ""
      <3>1. y.jitter = 2 \/ (x.jitter # 0 /\ y.jitter = x.jitter)
        BY <2>4, Zenon
      <3>2. y.level = "info" \/ (x.level # "" /\ y.level = x.level)
        BY <2>4, Zenon
      <3>3. y.jitter # 0
        BY <3>1
      <3>4. y.level # ""
        BY <3>2
      <3> QED BY <3>3, <3>4
    <2>7. y.heartbeat # Unset /\ y.heartbeat # Bad
      BY <2>5 DEF TypedValues
    <2>8. y.jitter # Unset /\ y.jitter # Bad
      BY <2>1, <2>2, <2>4, ClientFields DEF TypedValues
    <2>9. y.level # Unset /\ y.level # Bad
      BY <2>1, <2>2, <2>4, ClientFields DEF TypedValues
    <2>10. y.addr # Unset /\ y.addr # Bad
      <3>1. y.addr # 0
        BY <1>3 DEF ValidateClient, IsPort
      <3> QED BY <2>1, <2>2, <2>4, <3>1, ClientFields
    <2>11. y.tunnels \in {0, 1} /\ y.tunnels # Unset /\ y.tunnels # Bad
      <3>1. y.tunnels \in {0, 1}
        BY <2>1, <2>4, ClientFields DEF LayersOK
      <3> QED BY <3>1 DEF TypedValues
    <2> QED
      BY <1>3, <2>4, <2>5, <2>6, <2>7, <2>8, <2>9, <2>10, <2>11, ClientFields DEF Complete
  <1> HIDE DEF y
  <1> QED
    BY <1>1, <1>2, <1>3

\* A complete configuration that is written as client.toml is read as it is, or
\* refused for its empty list of tunnels.
LEMMA CompleteReadBack ==
    ASSUME NEW c, Complete(c), TypedValues, NEW ev, DOMAIN ev = CFields,
           \A f \in CFields : ev[f] = Unset
    PROVE  ResolveClient(c, ev) = IF c.tunnels = 0 THEN Error ELSE Ok(c)
  <1> DEFINE one == ApplyOverlays(DefaultClientConfig, fileOverlays(c))
             two == ApplyOverlays(one, envOverlaysFor(ev))
  <1>1. /\ c = [f \in CFields |-> c[f]] /\ c.heartbeat \in BOOLEAN
        /\ \A f \in CFields : c[f] # Unset /\ c[f] # Bad
        /\ c.jitter # 0 /\ c.level # "" /\ ValidateClient(c)
    BY Zenon DEF Complete
  <1>2. DOMAIN c = CFields
    BY <1>1
  <1>3. DOMAIN one = CFields /\ \A f \in CFields : one[f] = c[f]
    BY <1>1, <1>2, ClientFields DEF ApplyOverlays, fileOverlays, IsSet
  <1>4. DOMAIN envOverlaysFor(ev) = {}
    BY DEF envOverlaysFor, IsSet
  <1> HIDE DEF one
  <1>5. two = [f \in CFields |-> c[f]]
    BY <1>3, <1>4 DEF ApplyOverlays
  <1>6. two = c
    BY <1>1, <1>5, Zenon
  <1>7. FillClient(c) = c
    <2>1. /\ FillClient(c) = [f \in CFields |-> FillClient(c)[f]]
          /\ FillClient(c).addr = c.addr
          /\ FillClient(c).jitter = (IF c.jitter = 0 THEN 2 ELSE c.jitter)
          /\ FillClient(c).heartbeat = (c.heartbeat \/ c.level = "")
          /\ FillClient(c).level = (IF c.level = "" THEN "info" ELSE c.level)
          /\ FillClient(c).tunnels = c.tunnels
      BY <1>2, FillClientFields, Zenon
    <2>2. FillClient(c).heartbeat = c.heartbeat
      <3>1. (c.heartbeat \/ c.level = "") = c.heartbeat
        BY <1>1
      <3> QED BY <2>1, <3>1, Zenon
    <2>3. FillClient(c).jitter = c.jitter /\ FillClient(c).level = c.level
      BY <1>1, <2>1, Zenon
    <2>4. \A f \in CFields : FillClient(c)[f] = c[f]
      BY <2>1, <2>2, <2>3, ClientFields
    <2>5. [f \in CFields |-> FillClient(c)[f]] = [f \in CFields |-> c[f]]
      BY <2>4
    <2> QED BY <1>1, <2>1, <2>5, Zenon
  <1>8. Loads(c) /\ Loads(ev)
    BY <1>1, <1>2 DEF Loads, TypedValues
  <1>9. ResolveClient(c, ev) =
          IF /\ Loads(c) /\ Loads(ev) /\ setField(fileOverlays(c))
             /\ ValidateClient(FillClient(two))
          THEN Ok(FillClient(two)) ELSE Error
    BY Zenon DEF ResolveClient, one
  <1>10. setField(fileOverlays(c)) <=> c.tunnels # 0
    BY <1>1, <1>2, ClientFields DEF setField, fileOverlays, IsSet
  <1> HIDE DEF two
  <1> QED
    BY <1>1, <1>6, <1>7, <1>8, <1>9, <1>10, Zenon

\* So what the desktop saves is what the command line client runs with.
LEMMA SavedFollows ==
    ASSUME TypedValues, LayersOK, ResolvedOK, DeskOK
    PROVE  SavedReadsTheSame
  <1> SUFFICES ASSUME saved, cl # Off, \A f \in CFields : cenv[f] = Unset
               PROVE  cl = IF desk.c.tunnels = 0 THEN Error ELSE desk
    BY DEF SavedReadsTheSame
  <1>1. desk.at = "ok" /\ cfile = desk.c
    BY DEF DeskOK
  <1>2. desk = Ok(desk.c) /\ Complete(desk.c)
    BY <1>1 DEF DeskOK, Off, Error
  <1>3. cl = ResolveClient(desk.c, cenv)
    BY <1>1 DEF ResolvedOK
  <1>4. DOMAIN cenv = CFields
    BY DEF LayersOK
  <1>5. ResolveClient(desk.c, cenv) = IF desk.c.tunnels = 0 THEN Error ELSE Ok(desk.c)
    BY <1>2, <1>4, CompleteReadBack
  <1> QED
    BY <1>2, <1>3, <1>5, Zenon

-----------------------------------------------------------------------------
\* Config: the steps.

\* The desktop saves a complete configuration, whatever tunnels were edited.
LEMMA SavedComplete ==
    ASSUME TypedValues, DeskOK, NEW n \in {0, 1}, SaveDesktop(n)
    PROVE  desk'.at = "ok" /\ desk' = Ok(desk'.c) /\ cfile' = desk'.c /\ Complete(desk'.c)
  <1> DEFINE d == [desk.c EXCEPT !.tunnels = n]
  <1>1. desk.at = "ok" /\ desk' = Ok(d) /\ cfile' = desk'.c
    BY DEF SaveDesktop
  <1>2. Complete(desk.c)
    BY <1>1 DEF DeskOK, Off, Error
  <1>3. DOMAIN desk.c = CFields
    BY <1>2 DEF Complete
  <1>4. /\ d = [f \in CFields |-> d[f]]
        /\ d["addr"] = desk.c["addr"] /\ d["jitter"] = desk.c["jitter"]
        /\ d["heartbeat"] = desk.c["heartbeat"] /\ d["level"] = desk.c["level"]
        /\ d["tunnels"] = n
    BY <1>3, ClientFields
  <1>5. n # Unset /\ n # Bad
    BY DEF TypedValues
  <1>6. Ok(d).c = d /\ Ok(d).at = "ok"
    BY DEF Ok
  <1> HIDE DEF d
  <1>7. Complete(d)
    <2>1. /\ desk.c["heartbeat"] \in BOOLEAN /\ ValidateClient(desk.c)
          /\ \A f \in CFields : desk.c[f] # Unset /\ desk.c[f] # Bad
          /\ desk.c["jitter"] # 0 /\ desk.c["level"] # ""
      BY <1>2, Zenon DEF Complete
    <2>2. ValidateClient(d)
      BY <1>4, <2>1 DEF ValidateClient
    <2>3. \A f \in CFields : d[f] # Unset /\ d[f] # Bad
      <3>1. \A f \in CFields : d[f] = desk.c[f] \/ d[f] = n
        BY <1>4, ClientFields, Zenon
      <3> QED BY <1>5, <2>1, <3>1, Zenon
    <2>4. d["heartbeat"] \in BOOLEAN
      BY <1>4, <2>1, Zenon
    <2>5. d["jitter"] # 0 /\ d["level"] # ""
      BY <1>4, <2>1, Zenon
    <2>6. d["tunnels"] \in {0, 1}
      BY <1>4
    <2> QED BY <1>4, <2>2, <2>3, <2>4, <2>5, <2>6, Zenon DEF Complete
  <1> QED
    BY <1>1, <1>6, <1>7, Zenon

\* What is written in a layer is of the type of its field.
LEMMA ConfigLayersStep ==
    ASSUME TypedValues, LayersOK, DeskOK, [ConfigNext]_configVars
    PROVE  LayersOK'
  <1>1. \/ UNCHANGED <<file, env, cfile, cenv>>
        \/ Write
        \/ \E n \in {0, 1} : SaveDesktop(n)
    BY Zenon DEF ConfigNext, configVars, StartServer, StartClient, OpenDesktop, Hello, Register
  <1>2. CASE UNCHANGED <<file, env, cfile, cenv>>
    BY <1>2 DEF LayersOK
  <1>3. ASSUME NEW n \in {0, 1}, SaveDesktop(n)
        PROVE  LayersOK'
    <2>1. Complete(cfile') /\ UNCHANGED <<file, env, cenv>>
      BY <1>3, SavedComplete DEF SaveDesktop
    <2>2. DOMAIN cfile' = CFields /\ cfile'.heartbeat \in BOOLEAN /\ cfile'.tunnels \in {0, 1}
      BY <2>1 DEF Complete
    <2> QED BY <2>1, <2>2 DEF LayersOK
  <1>4. CASE Write
    <2>1. ASSUME NEW f \in Fields, NEW v \in FileValues[f], file' = [file EXCEPT ![f] = v],
                 UNCHANGED <<env, cfile, cenv>>
          PROVE  LayersOK'
      <3>1. DOMAIN file' = Fields /\ \A g \in Fields : file'[g] = IF g = f THEN v ELSE file[g]
        BY <2>1 DEF LayersOK
      <3>2. f \in DOMAIN Num => {v} \ {Unset, Bad} \subseteq Int
        BY <2>1 DEF TypedValues
      <3>3. \A g \in DOMAIN Num : {file'[g], env'[g]} \ {Unset, Bad} \subseteq Int
        BY <2>1, <3>1, <3>2, ServerDefaults DEF LayersOK
      <3>4. f \in Arrays => \A l \in {v} \ {Unset, Bad} :
              \A i \in DOMAIN l : {l[i].lo, l[i].hi} \subseteq Int
        BY <2>1 DEF TypedValues
      <3>5. ASSUME NEW g \in Arrays
            PROVE  \A l \in {file'[g]} \ {Unset, Bad} :
                     \A i \in DOMAIN l : {l[i].lo, l[i].hi} \subseteq Int
        <4>1. CASE g = f
          BY <3>1, <3>4, <4>1, ServerDefaults
        <4>2. CASE g # f
          <5>1. file'[g] = file[g]
            BY <3>1, <4>2, ServerDefaults
          <5> QED BY <5>1 DEF LayersOK
        <4> QED BY <4>1, <4>2
      <3> QED BY <2>1, <3>1, <3>3, <3>5 DEF LayersOK
    <2>2. ASSUME NEW f \in Fields, NEW v \in EnvValues[f], env' = [env EXCEPT ![f] = v],
                 UNCHANGED <<file, cfile, cenv>>
          PROVE  LayersOK'
      <3>1. DOMAIN env' = Fields /\ \A g \in Fields : env'[g] = IF g = f THEN v ELSE env[g]
        BY <2>2 DEF LayersOK
      <3>2. f \in DOMAIN Num => {v} \ {Unset, Bad} \subseteq Int
        BY <2>2 DEF TypedValues
      <3>3. \A g \in DOMAIN Num : {file'[g], env'[g]} \ {Unset, Bad} \subseteq Int
        BY <2>2, <3>1, <3>2, ServerDefaults DEF LayersOK
      <3> QED BY <2>2, <3>1, <3>3 DEF LayersOK
    <2>3. ASSUME NEW f \in CFields, NEW v \in ClientValues[f], cfile' = [cfile EXCEPT ![f] = v],
                 UNCHANGED <<file, env, cenv>>
          PROVE  LayersOK'
      <3>1. /\ DOMAIN cfile' = CFields
            /\ cfile'["heartbeat"] = IF f = "heartbeat" THEN v ELSE cfile["heartbeat"]
            /\ cfile'["tunnels"] = IF f = "tunnels" THEN v ELSE cfile["tunnels"]
        BY <2>3, ClientFields DEF LayersOK
      <3>2. f = "heartbeat" => {v} \ {Unset, Bad} \subseteq BOOLEAN
        BY <2>3 DEF TypedValues
      <3>3. {cfile'.heartbeat} \ {Unset, Bad} \subseteq BOOLEAN
        BY <3>1, <3>2 DEF LayersOK
      <3>4. cfile'.tunnels \in {Unset, 0, 1}
        BY <2>3, <3>1 DEF LayersOK, TypedValues
      <3> QED BY <2>3, <3>1, <3>3, <3>4 DEF LayersOK
    <2>4. ASSUME NEW f \in CFields, NEW v \in ClientEnv[f], cenv' = [cenv EXCEPT ![f] = v],
                 UNCHANGED <<file, env, cfile>>
          PROVE  LayersOK'
      BY <2>4 DEF LayersOK
    <2> QED BY <1>4, <2>1, <2>2, <2>3, <2>4, Zenon DEF Write
  <1> QED
    BY <1>1, <1>2, <1>3, <1>4

\* The layers do not change under what was resolved from them.
LEMMA ConfigResolvedStep ==
    ASSUME ResolvedOK, [ConfigNext]_configVars
    PROVE  ResolvedOK'
  <1>1. (srv' = srv /\ srv = Off) \/ UNCHANGED <<file, env, srv>>
        \/ (UNCHANGED <<file, env>> /\ srv' = ResolveServer(file, env))
    BY Zenon DEF ConfigNext, configVars, Write, SaveDesktop, StartServer, StartClient, OpenDesktop,
       Hello, Register
  <1>2. (cl' = cl /\ cl = Off) \/ UNCHANGED <<cfile, cenv, cl>>
        \/ (UNCHANGED <<cfile, cenv>> /\ cl' = ResolveClient(cfile, cenv))
    BY Zenon DEF ConfigNext, configVars, Write, SaveDesktop, StartServer, StartClient, OpenDesktop,
       Hello, Register
  <1> QED
    BY <1>1, <1>2, Zenon DEF ResolvedOK

\* The desktop has opened a complete configuration, and saves that one.
LEMMA ConfigDeskStep ==
    ASSUME TypedValues, LayersOK, DeskOK, [ConfigNext]_configVars
    PROVE  DeskOK'
  <1>1. \/ desk = Off /\ UNCHANGED <<desk, saved>>
        \/ UNCHANGED <<desk, saved, cfile>>
        \/ desk = Off /\ desk' = LoadClient(cfile) /\ UNCHANGED <<saved, cfile>>
        \/ \E n \in {0, 1} : SaveDesktop(n)
    BY Zenon DEF ConfigNext, configVars, Write, StartServer, StartClient, OpenDesktop,
       Hello, Register
  <1>2. desk = Off => ~saved
    BY DEF DeskOK, Off
  <1>3. CASE desk = Off /\ UNCHANGED <<desk, saved>>
    BY <1>2, <1>3, Zenon DEF DeskOK
  <1>4. CASE UNCHANGED <<desk, saved, cfile>>
    BY <1>4, Zenon DEF DeskOK
  <1>5. CASE desk = Off /\ desk' = LoadClient(cfile) /\ UNCHANGED <<saved, cfile>>
    BY <1>2, <1>5, LoadedComplete, Zenon DEF DeskOK
  <1>6. ASSUME NEW n \in {0, 1}, SaveDesktop(n)
        PROVE  DeskOK'
    BY <1>6, SavedComplete, Zenon DEF DeskOK
  <1> QED
    BY <1>1, <1>3, <1>4, <1>5, <1>6, Zenon

\* Once there is a session the configuration of its server stays.
LEMMA ConfigSessionStep ==
    ASSUME SessionOK, [ConfigNext]_configVars
    PROVE  SessionOK'
  <1>1. \/ UNCHANGED <<srv, sess, reg>>
        \/ StartServer \/ Hello
        \/ \E t \in Tunnels : Register(t)
    BY Zenon DEF ConfigNext, configVars, Write, SaveDesktop, StartClient, OpenDesktop
  <1>2. CASE UNCHANGED <<srv, sess, reg>>
    BY <1>2 DEF SessionOK, RegisterResult
  <1>3. CASE StartServer
    <2>1. srv.at # "ok" /\ UNCHANGED <<sess, reg>>
      BY <1>3 DEF StartServer, Off
    <2>2. sess = "none" /\ reg = NoReg
      BY <2>1 DEF SessionOK
    <2> QED BY <2>1, <2>2 DEF SessionOK
  <1>4. CASE Hello
    <2>1. sess = "none" /\ srv.at = "ok" /\ sess' = HelloResult(srv.c) /\ UNCHANGED <<srv, reg>>
      BY <1>4 DEF Hello
    <2>2. reg = NoReg
      BY <2>1 DEF SessionOK
    <2> QED BY <2>1, <2>2 DEF SessionOK
  <1>5. ASSUME NEW t \in Tunnels, Register(t)
        PROVE  SessionOK'
    <2>1. /\ sess = "up" /\ ValidTunnel(t) /\ UNCHANGED <<srv, sess>>
          /\ reg' = [res |-> RegisterResult(t), t |-> t]
      BY <1>5 DEF Register
    <2>3. reg'.t = t /\ reg'.res = RegisterResult(t)
      BY <2>1
    <2>4. RegisterResult(reg.t)' = RegisterResult(t)
      BY <2>1, <2>3 DEF RegisterResult
    <2> QED BY <2>1, <2>3, <2>4 DEF SessionOK
  <1> QED
    BY <1>1, <1>2, <1>3, <1>4, <1>5

-----------------------------------------------------------------------------
\* Config: theorems.

\* ConfigInv holds whatever settings are written in whichever layers, and in
\* whichever order server, client and desktop start.
LEMMA ConfigInvariant == ConfigSpec => []ConfigInv
  <1>1. ConfigInit => ConfigInv
    <2> SUFFICES ASSUME ConfigInit PROVE ConfigInv
      OBVIOUS
    <2>1. PICK d : file = [f \in Fields |-> IF f = "state_dir" THEN d ELSE Unset]
      BY DEF ConfigInit, FirstFiles
    <2>2. /\ env = [f \in Fields |-> Unset] /\ cfile = FirstClient
          /\ cenv = [f \in CFields |-> Unset]
          /\ srv = Off /\ cl = Off /\ desk = Off /\ saved = FALSE
          /\ sess = "none" /\ reg = NoReg
      BY DEF ConfigInit
    <2>3. \A f \in DOMAIN Num \cup Arrays : f # "state_dir"
      BY NumRanges DEF Arrays
    <2>4. \A f \in DOMAIN Num \cup Arrays : file[f] = Unset
      BY <2>1, <2>3, ServerDefaults
    <2>5. LayersOK
      <3>1. DOMAIN file = Fields /\ DOMAIN env = Fields
        BY <2>1, <2>2
      <3>2. DOMAIN cfile = CFields /\ DOMAIN cenv = CFields
        BY <2>2 DEF FirstClient
      <3>3. cfile["heartbeat"] = Unset /\ cfile["tunnels"] = 1
        <4>1. {"heartbeat", "tunnels"} \subseteq CFields
          BY ClientFields
        <4>2. FirstClient["heartbeat"] = Unset
          BY <4>1 DEF FirstClient
        <4>3. FirstClient["tunnels"] = 1
          BY <4>1 DEF FirstClient
        <4> QED BY <2>2, <4>2, <4>3
      <3>4. \A f \in DOMAIN Num : file[f] = Unset /\ env[f] = Unset
        BY <2>2, <2>4, ServerDefaults
      <3> QED BY <2>4, <3>1, <3>2, <3>3, <3>4 DEF LayersOK
    <2> QED
      BY <2>2, <2>5 DEF ConfigInv, ResolvedOK, DeskOK, SessionOK
  <1>2. ConfigInv /\ [ConfigNext]_configVars => ConfigInv'
    BY ConfigTypes, ConfigLayersStep, ConfigResolvedStep, ConfigDeskStep, ConfigSessionStep
       DEF ConfigInv
  <1> QED
    BY <1>1, <1>2, PTL DEF ConfigSpec

\* No registration gets the port of the server's own listeners.
THEOREM ConfigListenersPrivate == ConfigSpec => []ListenersPrivate
  <1>1. ConfigInv => ListenersPrivate
    BY ListenersFollow DEF ConfigInv
  <1> QED BY <1>1, ConfigInvariant, PTL

\* Clients refuse a valid server for nothing but the settings on which the two
\* sides' ranges or parsers are known to differ.
THEOREM ConfigRefusedOnlyForMismatch == ConfigSpec => []RefusedOnlyForMismatch
  <1>1. ConfigInv => RefusedOnlyForMismatch
    BY RefusedFollows DEF ConfigInv
  <1> QED BY <1>1, ConfigInvariant, PTL

\* A tunnel is granted exactly when the server's file names its origin and its
\* public port: protocol checks, target rules and port rules add up to that.
THEOREM ConfigGrantedAsWritten == ConfigSpec => []GrantedAsWritten
  <1>1. ConfigInv => GrantedAsWritten
    BY ConfigTypes, GrantedFollows DEF ConfigInv
  <1> QED BY <1>1, ConfigInvariant, PTL

\* What the desktop saves, the command line client reads as the desktop has it,
\* but for an empty list of tunnels, which it refuses.
THEOREM ConfigSavedReadsTheSame == ConfigSpec => []SavedReadsTheSame
  <1>1. ConfigInv => SavedReadsTheSame
    BY ConfigTypes, SavedFollows DEF ConfigInv
  <1> QED BY <1>1, ConfigInvariant, PTL
=============================================================================
