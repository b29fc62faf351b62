---------------------------- MODULE AgentsProofs ----------------------------
(* Proofs about Agents, for any number of agents, registrations and requests. *)
EXTENDS Agents, TLAPS

\* The initial tables, files and processes have their types.
LEMMA AgentsTypeInit == Init => AgentsTypeOK
<1> SUFFICES ASSUME Init PROVE AgentsTypeOK
  OBVIOUS
<1>1. /\ NoAgentRow \in AgentRow /\ IdleReg \in Registration
      /\ IdleHandler \in Request /\ [priv |-> 0, pub |-> 0, jwt |-> {}] \in Files
  BY DEF NoAgentRow, AgentRow, IdleReg, Registration, IdleHandler, Request, Files
<1>2. \A r \in Registrar : reg[r].pc = "idle"
  BY DEF Init, IdleReg
<1> QED BY <1>1, <1>2 DEF Init, AgentsTypeOK

\* Every step of a registration, of an operator and of a request keeps the
\* types.
LEMMA AgentsTypeStep == AgentsTypeOK /\ [Next]_vars => AgentsTypeOK'
<1> SUFFICES ASSUME AgentsTypeOK, [Next]_vars PROVE AgentsTypeOK'
  OBVIOUS
<1>0. /\ agents \in [Agent -> AgentRow] /\ disk \in [Agent -> Files]
      /\ reg \in [Registrar -> Registration]
      /\ \A r \in Registrar : reg[r].pc # "idle" => reg[r].name \in Agent
      /\ keys \in Nat /\ issued \subseteq Token /\ clock \in Nat
      /\ loc \in [Handler -> Request] /\ buried \subseteq Token
      /\ torn \in [Agent -> BOOLEAN]
  BY DEF AgentsTypeOK
<1>i. /\ IdleReg \in Registration /\ IdleReg.pc = "idle" /\ IdleHandler \in Request
  BY DEF IdleReg, Registration, IdleHandler, Request
<1>r. ASSUME NEW r \in Registrar, NEW g \in Registration, reg' = [reg EXCEPT ![r] = g],
             g.pc = "idle" \/ g.name \in Agent
      PROVE  /\ reg' \in [Registrar -> Registration]
             /\ \A q \in Registrar : reg'[q].pc # "idle" => reg'[q].name \in Agent
  BY <1>0, <1>r
<1>h. ASSUME NEW h \in Handler, NEW q \in Request, loc' = [loc EXCEPT ![h] = q]
      PROVE  loc' \in [Handler -> Request]
  BY <1>0, <1>h
<1>1. ASSUME NEW r \in Registrar, NEW a \in Agent, NEW scope \in Scopes,
             NEW p \in Agent \cup {None}, Register(r, a, scope, p)
      PROVE  AgentsTypeOK'
  <2> DEFINE pa == IF p = None THEN {} ELSE AllowedTools(p)
             g == [IdleReg EXCEPT !.pc = "priv", !.name = a, !.tools = scope,
                                  !.parent = p, !.parentAllowed = pa]
  <2>1. pa \subseteq Tool
    BY <1>0, <1>1 DEF AllowedTools, AgentRow
  <2>2. reg' = [reg EXCEPT ![r] = g]
    BY <1>1 DEF Register
  <2>3. g \in Registration /\ g.name \in Agent
    <3> HIDE DEF pa
    <3> QED BY <2>1, AgentsAssumption DEF IdleReg, Registration
  <2> HIDE DEF g
  <2>4. /\ reg' \in [Registrar -> Registration]
        /\ \A q \in Registrar : reg'[q].pc # "idle" => reg'[q].name \in Agent
    BY <1>r, <2>2, <2>3
  <2> QED BY <1>0, <1>1, <2>4 DEF Register, AgentsTypeOK
<1>2. ASSUME NEW r \in Registrar, GenerateKeypair(r) PROVE AgentsTypeOK'
  <2> DEFINE g == [reg[r] EXCEPT !.pc = "pub", !.key = keys + 1]
             f == [disk[reg[r].name] EXCEPT !.priv = keys + 1]
  <2>0. reg[r].name \in Agent /\ reg[r] \in Registration /\ keys + 1 \in Nat
    BY <1>0, <1>2 DEF GenerateKeypair
  <2>1. g \in Registration /\ g.name \in Agent
    BY <2>0 DEF Registration
  <2>2. f \in Files
    BY <1>0, <2>0 DEF Files
  <2>3. reg' = [reg EXCEPT ![r] = g] /\ disk' = [disk EXCEPT ![reg[r].name] = f]
    BY <1>2 DEF GenerateKeypair
  <2> HIDE DEF g, f
  <2>4. /\ reg' \in [Registrar -> Registration] /\ disk' \in [Agent -> Files]
        /\ \A q \in Registrar : reg'[q].pc # "idle" => reg'[q].name \in Agent
    BY <1>0, <1>r, <2>1, <2>2, <2>3
  <2> QED BY <1>0, <1>2, <2>0, <2>4 DEF GenerateKeypair, AgentsTypeOK
<1>3. ASSUME NEW r \in Registrar, writePublicKey(r) PROVE AgentsTypeOK'
  <2> DEFINE g == [reg[r] EXCEPT !.pc = "jwt"]
             f == [disk[reg[r].name] EXCEPT !.pub = reg[r].key]
  <2>0. reg[r].name \in Agent /\ reg[r] \in Registration
    BY <1>0, <1>3 DEF writePublicKey
  <2>1. g \in Registration /\ g.name \in Agent
    BY <2>0 DEF Registration
  <2>2. f \in Files
    <3>1. reg[r].key \in Nat /\ disk[reg[r].name] \in Files
      BY <1>0, <2>0 DEF Registration
    <3> QED BY <3>1 DEF Files
  <2>3. reg' = [reg EXCEPT ![r] = g] /\ disk' = [disk EXCEPT ![reg[r].name] = f]
    BY <1>3 DEF writePublicKey
  <2> HIDE DEF g, f
  <2>4. /\ reg' \in [Registrar -> Registration] /\ disk' \in [Agent -> Files]
        /\ \A q \in Registrar : reg'[q].pc # "idle" => reg'[q].name \in Agent
    BY <1>0, <1>r, <2>1, <2>2, <2>3
  <2> QED BY <1>0, <1>3, <2>4 DEF writePublicKey, AgentsTypeOK
<1>4. ASSUME NEW r \in Registrar, NEW life \in Lifetime, MintAgentJWT(r, life)
      PROVE  AgentsTypeOK'
  <2> DEFINE t == [agent |-> reg[r].name, key |-> reg[r].key, tools |-> reg[r].tools,
                   parent |-> reg[r].parent, parentAllowed |-> reg[r].parentAllowed,
                   exp |-> clock + life]
             g == [reg[r] EXCEPT !.pc = "read"]
             f == [disk[reg[r].name] EXCEPT !.jwt = {t}]
  <2>0. reg[r].name \in Agent /\ reg[r] \in Registration /\ clock + life \in Nat
    BY <1>0, <1>4, AgentsAssumption DEF MintAgentJWT
  <2>1. g \in Registration /\ g.name \in Agent
    BY <2>0 DEF Registration
  <2>2. t \in Token
    BY <2>0 DEF Registration, Token
  <2>3. /\ reg' = [reg EXCEPT ![r] = g] /\ disk' = [disk EXCEPT ![reg[r].name] = f]
        /\ issued' = issued \cup {t}
    BY <1>4 DEF MintAgentJWT
  <2> HIDE DEF g, t
  <2>4. f \in Files
    BY <1>0, <2>0, <2>2 DEF Files
  <2> HIDE DEF f
  <2>5. /\ reg' \in [Registrar -> Registration] /\ disk' \in [Agent -> Files]
        /\ \A q \in Registrar : reg'[q].pc # "idle" => reg'[q].name \in Agent
    BY <1>0, <1>r, <2>1, <2>3, <2>4
  <2> QED BY <1>0, <1>4, <2>2, <2>3, <2>5 DEF MintAgentJWT, AgentsTypeOK
<1>5. ASSUME NEW r \in Registrar, ReadPublicKey(r) PROVE AgentsTypeOK'
  <2> DEFINE k == disk[reg[r].name].pub
             g == [reg[r] EXCEPT !.pc = "upsert", !.pub = k]
  <2>0. reg[r].name \in Agent /\ reg[r] \in Registration
    BY <1>0, <1>5 DEF ReadPublicKey
  <2>1. k \in Nat
    BY <1>0, <2>0 DEF Files
  <2>2. reg' = [reg EXCEPT ![r] = g]
    BY <1>5 DEF ReadPublicKey
  <2> HIDE DEF k
  <2>3. g \in Registration /\ g.name \in Agent
    BY <2>0, <2>1 DEF Registration
  <2> HIDE DEF g
  <2>4. /\ reg' \in [Registrar -> Registration]
        /\ \A q \in Registrar : reg'[q].pc # "idle" => reg'[q].name \in Agent
    BY <1>r, <2>2, <2>3
  <2> QED BY <1>0, <1>5, <2>4 DEF ReadPublicKey, AgentsTypeOK
<1>6. ASSUME NEW r \in Registrar, UpsertAgent(r) PROVE AgentsTypeOK'
  <2> DEFINE w == [exists |-> TRUE, key |-> reg[r].pub, tools |-> reg[r].tools,
                   revoked |-> FALSE]
  <2>0. reg[r] \in Registration
    BY <1>0
  <2>1. w \in AgentRow
    BY <2>0 DEF AgentRow, Registration
  <2>2. agents' = [agents EXCEPT ![reg[r].name] = w]
    BY <1>6 DEF UpsertAgent
  <2> HIDE DEF w
  <2>3. agents' \in [Agent -> AgentRow]
    BY <1>0, <2>1, <2>2
  <2>4. /\ reg' \in [Registrar -> Registration]
        /\ \A q \in Registrar : reg'[q].pc # "idle" => reg'[q].name \in Agent
    BY <1>i, <1>r, <1>6 DEF UpsertAgent
  <2>5. torn' \in [Agent -> BOOLEAN]
    BY <1>0, <1>6 DEF UpsertAgent
  <2> QED BY <1>0, <1>6, <2>3, <2>4, <2>5 DEF UpsertAgent, AgentsTypeOK
<1>7. ASSUME NEW r \in Registrar, AbortRegister(r) PROVE AgentsTypeOK'
  <2>1. /\ reg' \in [Registrar -> Registration]
        /\ \A q \in Registrar : reg'[q].pc # "idle" => reg'[q].name \in Agent
    BY <1>i, <1>r, <1>7 DEF AbortRegister
  <2>2. torn' \in [Agent -> BOOLEAN]
    BY <1>0, <1>7 DEF AbortRegister
  <2> QED BY <1>0, <1>7, <2>1, <2>2 DEF AbortRegister, AgentsTypeOK
<1>8. ASSUME NEW a \in Agent, RevokeAgent(a) PROVE AgentsTypeOK'
  <2>1. [agents[a] EXCEPT !.revoked = TRUE] \in AgentRow
    BY <1>0 DEF AgentRow
  <2>2. agents' \in [Agent -> AgentRow] /\ buried' \subseteq Token
    BY <1>0, <1>8, <2>1 DEF RevokeAgent
  <2> QED BY <1>0, <1>8, <2>2 DEF RevokeAgent, AgentsTypeOK
<1>9. ASSUME Tick PROVE AgentsTypeOK'
  BY <1>0, <1>9 DEF Tick, AgentsTypeOK
<1>10. ASSUME NEW h \in Handler, NEW t \in issued, NEW x \in Tool, Receive(h, t, x)
       PROVE  AgentsTypeOK'
  <2>1. [pc |-> "auth", tokens |-> {t}, tools |-> {x}] \in Request
    BY <1>0 DEF Request
  <2>2. loc' \in [Handler -> Request]
    BY <1>h, <1>10, <2>1 DEF Receive
  <2> QED BY <1>0, <1>10, <2>2 DEF Receive, AgentsTypeOK
<1>p. ASSUME NEW h \in Handler, NEW p \in {"evaluate", "forward"},
             loc' = [loc EXCEPT ![h].pc = p]
      PROVE  loc' \in [Handler -> Request]
  <2>1. [loc[h] EXCEPT !.pc = p] \in Request
    BY <1>0 DEF Request
  <2> QED BY <1>0, <1>p, <2>1
<1>11. ASSUME NEW h \in Handler, AuthMiddleware(h) PROVE AgentsTypeOK'
  <2>1. loc' \in [Handler -> Request]
    BY <1>h, <1>i, <1>p, <1>11 DEF AuthMiddleware
  <2> QED BY <1>0, <1>11, <2>1 DEF AuthMiddleware, AgentsTypeOK
<1>12. ASSUME NEW h \in Handler, Evaluate(h) PROVE AgentsTypeOK'
  <2>1. loc' \in [Handler -> Request]
    BY <1>h, <1>i, <1>p, <1>12 DEF Evaluate
  <2> QED BY <1>0, <1>12, <2>1 DEF Evaluate, AgentsTypeOK
<1>13. ASSUME NEW h \in Handler, Forward(h) PROVE AgentsTypeOK'
  <2>1. loc' \in [Handler -> Request]
    BY <1>h, <1>i, <1>13 DEF Forward
  <2> QED BY <1>0, <1>13, <2>1 DEF Forward, AgentsTypeOK
<1>14. ASSUME UNCHANGED vars PROVE AgentsTypeOK'
  BY <1>0, <1>14 DEF vars, AgentsTypeOK
<1> QED BY <1>1, <1>2, <1>3, <1>4, <1>5, <1>6, <1>7, <1>8, <1>9, <1>10, <1>11,
           <1>12, <1>13, <1>14 DEF Next

\* Tables, key files, registrations and requests keep their types.
THEOREM AgentsTypeCorrect == Spec => []AgentsTypeOK
BY AgentsTypeInit, AgentsTypeStep, PTL DEF Spec
-----------------------------------------------------------------------------
(* A key signs one token.                                                   *)

\* Before any registration there is nothing signed and nothing to sign.
LEMMA KeysInit == Init => KeysSignOnce
BY DEF Init, IdleReg, KeysSignOnce, Signing

\* A registration that neither gains a key nor signs leaves KeysSignOnce alone.
LEMMA KeysQuiet ==
    ASSUME AgentsTypeOK, KeysSignOnce, keys' = keys, issued' = issued,
           NEW r \in Registrar, NEW g \in Registration, reg' = [reg EXCEPT ![r] = g],
           g.pc \in {"pub", "jwt"} => Signing(r) /\ g.key = reg[r].key
    PROVE  KeysSignOnce'
<1>1. reg'[r] = g /\ \A q \in Registrar : q # r => reg'[q] = reg[q]
  BY DEF AgentsTypeOK
<1>2. \A q \in Registrar : Signing(q)' => Signing(q) /\ reg'[q].key = reg[q].key
  BY <1>1 DEF Signing
<1> QED BY <1>2 DEF KeysSignOnce

\* Every step keeps it: a new key is larger than every key before it, and
\* signing retires the registration's key.
LEMMA KeysStep == AgentsTypeOK /\ KeysSignOnce /\ [Next]_vars => KeysSignOnce'
<1> SUFFICES ASSUME AgentsTypeOK, KeysSignOnce, [Next]_vars PROVE KeysSignOnce'
  OBVIOUS
<1>0. /\ reg \in [Registrar -> Registration] /\ keys \in Nat
      /\ \A r \in Registrar : reg[r] \in Registration /\ reg[r].key \in Nat
  BY DEF AgentsTypeOK, Registration
<1>k. /\ \A t \in issued : t.key \in 1..keys
      /\ \A t1, t2 \in issued : t1.key = t2.key => t1 = t2
      /\ \A r \in Registrar : Signing(r) =>
            /\ reg[r].key \in 1..keys
            /\ \A t \in issued : t.key # reg[r].key
      /\ \A r1, r2 \in Registrar :
            Signing(r1) /\ Signing(r2) /\ reg[r1].key = reg[r2].key => r1 = r2
  BY DEF KeysSignOnce
<1>i. IdleReg \in Registration /\ IdleReg.pc = "idle"
  BY DEF IdleReg, Registration
<1>u. ASSUME keys' = keys, issued' = issued, reg' = reg PROVE KeysSignOnce'
  BY <1>u DEF KeysSignOnce, Signing
<1>1. ASSUME NEW r \in Registrar, NEW a \in Agent, NEW scope \in Scopes,
             NEW p \in Agent \cup {None}, Register(r, a, scope, p)
      PROVE  KeysSignOnce'
  <2> DEFINE g == [IdleReg EXCEPT !.pc = "priv", !.name = a, !.tools = scope, !.parent = p,
                       !.parentAllowed = IF p = None THEN {} ELSE AllowedTools(p)]
  <2>1. reg' = [reg EXCEPT ![r] = g] /\ keys' = keys /\ issued' = issued
    BY <1>1 DEF Register
  <2>2. AgentsTypeOK'
    BY AgentsTypeStep
  <2>3. g.pc = "priv"
    BY DEF IdleReg
  <2> HIDE DEF g
  <2>4. g \in Registration
    <3>1. reg'[r] = g /\ reg' \in [Registrar -> Registration]
      BY <1>0, <2>1, <2>2 DEF AgentsTypeOK
    <3> QED BY <3>1
  <2> QED BY <2>1, <2>3, <2>4, KeysQuiet
<1>2. ASSUME NEW r \in Registrar, GenerateKeypair(r) PROVE KeysSignOnce'
  <2> DEFINE g == [reg[r] EXCEPT !.pc = "pub", !.key = keys + 1]
  <2>1. g.key = keys + 1
    BY <1>0 DEF Registration
  <2>2. reg' = [reg EXCEPT ![r] = g] /\ keys' = keys + 1 /\ issued' = issued
    BY <1>2 DEF GenerateKeypair
  <2> HIDE DEF g
  <2>3. reg'[r] = g /\ \A q \in Registrar : q # r => reg'[q] = reg[q]
    BY <1>0, <2>2
  <2>4. \A q \in Registrar : q # r /\ Signing(q)' =>
            Signing(q) /\ reg'[q].key = reg[q].key /\ reg[q].key <= keys
    BY <1>0, <1>k, <2>3 DEF Signing
  <2>5. /\ keys' \in Nat /\ \A t \in issued' : t.key \in 1..keys'
        /\ \A t1, t2 \in issued' : t1.key = t2.key => t1 = t2
    BY <1>0, <1>k, <2>2
  <2>6. \A q \in Registrar : Signing(q)' =>
            /\ reg'[q].key \in 1..keys'
            /\ \A t \in issued' : t.key # reg'[q].key
    <3> SUFFICES ASSUME NEW q \in Registrar, Signing(q)'
                 PROVE  /\ reg'[q].key \in 1..keys'
                        /\ \A t \in issued' : t.key # reg'[q].key
      OBVIOUS
    <3>1. CASE q = r
      BY <1>0, <1>k, <2>1, <2>2, <2>3, <3>1
    <3>2. CASE q # r
      BY <1>0, <1>k, <2>2, <2>4, <3>2
    <3> QED BY <3>1, <3>2
  <2>7. \A r1, r2 \in Registrar :
            Signing(r1)' /\ Signing(r2)' /\ reg'[r1].key = reg'[r2].key => r1 = r2
    <3> SUFFICES ASSUME NEW r1 \in Registrar, NEW r2 \in Registrar, Signing(r1)',
                        Signing(r2)', reg'[r1].key = reg'[r2].key, r1 # r2
                 PROVE  FALSE
      OBVIOUS
    <3>1. CASE r1 # r /\ r2 # r
      BY <1>k, <2>4, <3>1
    <3>2. CASE r1 = r
      BY <1>0, <2>1, <2>3, <2>4, <3>2
    <3>3. CASE r2 = r
      BY <1>0, <2>1, <2>3, <2>4, <3>3
    <3> QED BY <3>1, <3>2, <3>3
  <2> QED BY <2>5, <2>6, <2>7 DEF KeysSignOnce
<1>3. ASSUME NEW r \in Registrar, writePublicKey(r) PROVE KeysSignOnce'
  <2> DEFINE g == [reg[r] EXCEPT !.pc = "jwt"]
  <2>1. g \in Registration /\ g.key = reg[r].key
    BY <1>0 DEF Registration
  <2>2. /\ reg' = [reg EXCEPT ![r] = g] /\ keys' = keys /\ issued' = issued
        /\ Signing(r)
    BY <1>3 DEF writePublicKey, Signing
  <2> HIDE DEF g
  <2> QED BY <2>1, <2>2, KeysQuiet
<1>4. ASSUME NEW r \in Registrar, NEW life \in Lifetime, MintAgentJWT(r, life)
      PROVE  KeysSignOnce'
  <2> DEFINE t == [agent |-> reg[r].name, key |-> reg[r].key, tools |-> reg[r].tools,
                   parent |-> reg[r].parent, parentAllowed |-> reg[r].parentAllowed,
                   exp |-> clock + life]
             g == [reg[r] EXCEPT !.pc = "read"]
  <2>1. t.key = reg[r].key
    OBVIOUS
  <2>2. g.pc = "read"
    BY <1>0 DEF Registration
  <2>3. /\ reg' = [reg EXCEPT ![r] = g] /\ keys' = keys /\ issued' = issued \cup {t}
        /\ Signing(r)
    BY <1>4 DEF MintAgentJWT, Signing
  <2> HIDE DEF g, t
  <2>4. reg'[r] = g /\ \A q \in Registrar : q # r => reg'[q] = reg[q]
    BY <1>0, <2>3
  <2>5. \A q \in Registrar : Signing(q)' =>
            q # r /\ Signing(q) /\ reg'[q].key = reg[q].key
    BY <2>2, <2>4 DEF Signing
  <2>6. /\ keys' \in Nat /\ \A u \in issued' : u.key \in 1..keys'
        /\ \A t1, t2 \in issued' : t1.key = t2.key => t1 = t2
    BY <1>0, <1>k, <2>1, <2>3
  <2>7. \A q \in Registrar : Signing(q)' =>
            /\ reg'[q].key \in 1..keys'
            /\ \A u \in issued' : u.key # reg'[q].key
    BY <1>k, <2>1, <2>3, <2>5
  <2>8. \A r1, r2 \in Registrar :
            Signing(r1)' /\ Signing(r2)' /\ reg'[r1].key = reg'[r2].key => r1 = r2
    BY <1>k, <2>5
  <2> QED BY <2>6, <2>7, <2>8 DEF KeysSignOnce
<1>5. ASSUME NEW r \in Registrar, ReadPublicKey(r) PROVE KeysSignOnce'
  <2> DEFINE g == [reg[r] EXCEPT !.pc = "upsert", !.pub = disk[reg[r].name].pub]
  <2>1. reg' = [reg EXCEPT ![r] = g] /\ keys' = keys /\ issued' = issued
    BY <1>5 DEF ReadPublicKey
  <2>2. AgentsTypeOK'
    BY AgentsTypeStep
  <2>3. g.pc = "upsert"
    BY <1>0 DEF Registration
  <2> HIDE DEF g
  <2>4. g \in Registration
    <3>1. reg'[r] = g /\ reg' \in [Registrar -> Registration]
      BY <1>0, <2>1, <2>2 DEF AgentsTypeOK
    <3> QED BY <3>1
  <2> QED BY <2>1, <2>3, <2>4, KeysQuiet
<1>6. ASSUME NEW r \in Registrar, UpsertAgent(r) PROVE KeysSignOnce'
  BY <1>i, <1>6, KeysQuiet DEF UpsertAgent
<1>7. ASSUME NEW r \in Registrar, AbortRegister(r) PROVE KeysSignOnce'
  BY <1>i, <1>7, KeysQuiet DEF AbortRegister
<1>8. ASSUME NEW a \in Agent, RevokeAgent(a) PROVE KeysSignOnce'
  BY <1>u, <1>8 DEF RevokeAgent
<1>9. ASSUME Tick PROVE KeysSignOnce'
  BY <1>u, <1>9 DEF Tick
<1>10. ASSUME NEW h \in Handler, NEW t \in issued, NEW x \in Tool, Receive(h, t, x)
       PROVE  KeysSignOnce'
  BY <1>u, <1>10 DEF Receive
<1>11. ASSUME NEW h \in Handler, AuthMiddleware(h) \/ Evaluate(h) \/ Forward(h)
       PROVE  KeysSignOnce'
  BY <1>u, <1>11 DEF AuthMiddleware, Evaluate, Forward
<1>12. ASSUME UNCHANGED vars PROVE KeysSignOnce'
  BY <1>u, <1>12 DEF vars
<1> QED BY <1>1, <1>2, <1>3, <1>4, <1>5, <1>6, <1>7, <1>8, <1>9, <1>10, <1>11,
           <1>12 DEF Next

\* However registrations of a name overlap or die, the proxy accepts at most
\* one of the tokens ever issued to it.
THEOREM OneLiveToken == Spec => []AtMostOneLiveToken
<1>1. Init => AgentsTypeOK /\ KeysSignOnce
  BY AgentsTypeInit, KeysInit
<1>2. (AgentsTypeOK /\ KeysSignOnce) /\ [Next]_vars => (AgentsTypeOK /\ KeysSignOnce)'
  BY AgentsTypeStep, KeysStep
<1>3. KeysSignOnce => AtMostOneLiveToken
  BY DEF KeysSignOnce, AtMostOneLiveToken, Accepted, ValidateAgentJWT
<1> QED BY <1>1, <1>2, <1>3, PTL DEF Spec

-----------------------------------------------------------------------------
(* The files of a name and its row.                                         *)

\* A registration that has begun to write, or will do nothing but write.
Writing(r) == reg[r].pc \in {"pub", "jwt", "read", "upsert"}

\* No two registrations of the name are under way.
Alone(a) == \A q, r \in Registrar : reg[q].name = a /\ reg[r].name = a => q = r

TokenOnDisk(a, k) == \E t \in disk[a].jwt : t.agent = a /\ t.key = k

\* What the files of a name hold: behind each step of a registration what it has
\* written, and between registrations, the last of which finished, one key and
\* the token it signed, which are those of the row.
FilesFollow(a) ==
    /\ \A r \in Registrar : reg[r].name = a =>
          /\ Writing(r) => disk[a].priv = reg[r].key
          /\ reg[r].pc \in {"jwt", "read", "upsert"} => disk[a].pub = reg[r].key
          /\ reg[r].pc \in {"read", "upsert"} => TokenOnDisk(a, reg[r].key)
          /\ reg[r].pc = "upsert" => reg[r].pub = reg[r].key
    /\ (\A r \in Registrar : reg[r].name = a => ~ Writing(r)) /\ ~ torn[a] =>
          /\ disk[a].priv = disk[a].pub
          /\ agents[a].exists => agents[a].key = disk[a].pub /\ TokenOnDisk(a, disk[a].pub)

\* A key that was generated and not yet put into a row is in no row and on no
\* token that worked; a token that worked when its agent was revoked has the key
\* of the row only while that row is revoked.
KeysStayDead ==
    /\ \A a \in Agent : agents[a].key \in 0..keys
    /\ buried \subseteq issued
    /\ \A r \in Registrar : Writing(r) =>
          /\ reg[r].key \in 1..keys
          /\ \A a \in Agent : agents[a].key # reg[r].key
          /\ \A t \in buried : t.key # reg[r].key
    /\ \A t \in buried : agents[t.agent].key = t.key => agents[t.agent].revoked

\* Registrations are run one at a time.
SoleRegistrar == \A q, r \in Registrar : q = r

SoleInv == (\A a \in Agent : FilesFollow(a)) /\ KeysStayDead

\* The files of the other names stay as they are.
OnlyFilesOf(a) == \A b \in Agent : b # a => disk'[b] = disk[b]

\* What a step of registration r does to the rows, the files and r itself.
RegMoves(r) ==
    LET k == reg[r]
        l == reg'[r]
        a == reg[r].name
    IN  /\ \A q \in Registrar : q # r => reg'[q] = reg[q]
        /\ buried' = buried /\ issued \subseteq issued'
        /\ \/ /\ k.pc = "idle" /\ l.pc = "priv"
              /\ UNCHANGED <<agents, disk, keys, torn>>
           \/ /\ k.pc = "priv" /\ l.pc = "pub" /\ a \in Agent /\ l.name = a
              /\ l.key = keys + 1 /\ keys' = keys + 1
              /\ disk'[a].priv = keys + 1 /\ OnlyFilesOf(a)
              /\ UNCHANGED <<agents, torn>>
           \/ /\ k.pc = "pub" /\ l.pc = "jwt" /\ a \in Agent /\ l.name = a /\ l.key = k.key
              /\ disk'[a].priv = disk[a].priv /\ disk'[a].pub = k.key /\ OnlyFilesOf(a)
              /\ UNCHANGED <<agents, keys, torn>>
           \/ /\ k.pc = "jwt" /\ l.pc = "read" /\ a \in Agent /\ l.name = a /\ l.key = k.key
              /\ disk'[a].priv = disk[a].priv /\ disk'[a].pub = disk[a].pub
              /\ \E t \in disk'[a].jwt : t.agent = a /\ t.key = k.key
              /\ OnlyFilesOf(a)
              /\ UNCHANGED <<agents, keys, torn>>
           \/ /\ k.pc = "read" /\ l.pc = "upsert" /\ a \in Agent /\ l.name = a
              /\ l.key = k.key /\ l.pub = disk[a].pub
              /\ UNCHANGED <<agents, disk, keys, torn>>
           \/ /\ k.pc = "upsert" /\ l = IdleReg /\ a \in Agent
              /\ agents'[a].key = k.pub /\ \A b \in Agent : b # a => agents'[b] = agents[b]
              /\ \A b \in Agent : b # a => torn'[b] = torn[b]
              /\ UNCHANGED <<disk, keys>>
           \/ /\ k.pc # "idle" /\ l = IdleReg /\ a \in Agent
              /\ torn'[a] = (torn[a] \/ k.pc # "priv")
              /\ \A b \in Agent : b # a => torn'[b] = torn[b]
              /\ UNCHANGED <<agents, disk, keys>>

\* Every step is such a step, a revocation, or leaves all of that alone.
LEMMA RegistrationMoves ==
    ASSUME AgentsTypeOK, [Next]_vars
    PROVE  \/ \E r \in Registrar : RegMoves(r)
           \/ \E a \in Agent : RevokeAgent(a)
           \/ UNCHANGED <<agents, disk, reg, keys, issued, buried, torn>>
<1>0. /\ agents \in [Agent -> AgentRow] /\ disk \in [Agent -> Files]
      /\ reg \in [Registrar -> Registration]
      /\ \A r \in Registrar : reg[r].pc # "idle" => reg[r].name \in Agent
      /\ keys \in Nat /\ torn \in [Agent -> BOOLEAN]
      /\ \A a \in Agent : disk[a] \in Files /\ agents[a] \in AgentRow
      /\ \A r \in Registrar : reg[r] \in Registration
  BY DEF AgentsTypeOK
<1>r. ASSUME NEW r \in Registrar, NEW g, reg' = [reg EXCEPT ![r] = g]
      PROVE  reg'[r] = g /\ \A q \in Registrar : q # r => reg'[q] = reg[q]
  BY <1>0, <1>r
<1>d. ASSUME NEW a \in Agent, NEW f, disk' = [disk EXCEPT ![a] = f]
      PROVE  disk'[a] = f /\ OnlyFilesOf(a)
  BY <1>0, <1>d DEF OnlyFilesOf
<1>1. ASSUME NEW r \in Registrar, NEW a \in Agent, NEW scope \in Scopes,
             NEW p \in Agent \cup {None}, Register(r, a, scope, p)
      PROVE  RegMoves(r)
  <2> DEFINE g == [IdleReg EXCEPT !.pc = "priv", !.name = a, !.tools = scope, !.parent = p,
                       !.parentAllowed = IF p = None THEN {} ELSE AllowedTools(p)]
  <2>1. g.pc = "priv" /\ reg' = [reg EXCEPT ![r] = g]
    BY <1>1 DEF IdleReg, Register
  <2> HIDE DEF g
  <2> QED BY <1>1, <1>r, <2>1 DEF Register, RegMoves
<1>2. ASSUME NEW r \in Registrar, GenerateKeypair(r) PROVE RegMoves(r)
  <2> DEFINE a == reg[r].name
             g == [reg[r] EXCEPT !.pc = "pub", !.key = keys + 1]
             f == [disk[a] EXCEPT !.priv = keys + 1]
  <2>1. a \in Agent /\ reg[r].pc = "priv"
    BY <1>0, <1>2 DEF GenerateKeypair
  <2>2. g.pc = "pub" /\ g.key = keys + 1 /\ g.name = a /\ f.priv = keys + 1
    BY <1>0, <2>1 DEF Registration, Files
  <2>3. reg' = [reg EXCEPT ![r] = g] /\ disk' = [disk EXCEPT ![a] = f]
    BY <1>2 DEF GenerateKeypair
  <2> HIDE DEF g, f
  <2>4. reg'[r] = g /\ (\A q \in Registrar : q # r => reg'[q] = reg[q])
        /\ disk'[a] = f /\ OnlyFilesOf(a)
    BY <1>r, <1>d, <2>1, <2>3
  <2> QED BY <1>2, <2>1, <2>2, <2>4 DEF GenerateKeypair, RegMoves
<1>3. ASSUME NEW r \in Registrar, writePublicKey(r) PROVE RegMoves(r)
  <2> DEFINE a == reg[r].name
             g == [reg[r] EXCEPT !.pc = "jwt"]
             f == [disk[a] EXCEPT !.pub = reg[r].key]
  <2>1. a \in Agent /\ reg[r].pc = "pub"
    BY <1>0, <1>3 DEF writePublicKey
  <2>2. /\ g.pc = "jwt" /\ g.key = reg[r].key /\ g.name = a
        /\ f.pub = reg[r].key /\ f.priv = disk[a].priv
    BY <1>0, <2>1 DEF Registration, Files
  <2>3. reg' = [reg EXCEPT ![r] = g] /\ disk' = [disk EXCEPT ![a] = f]
    BY <1>3 DEF writePublicKey
  <2> HIDE DEF g, f
  <2>4. reg'[r] = g /\ (\A q \in Registrar : q # r => reg'[q] = reg[q])
        /\ disk'[a] = f /\ OnlyFilesOf(a)
    BY <1>r, <1>d, <2>1, <2>3
  <2> QED BY <1>3, <2>1, <2>2, <2>4 DEF writePublicKey, RegMoves
<1>4. ASSUME NEW r \in Registrar, NEW life \in Lifetime, MintAgentJWT(r, life)
      PROVE  RegMoves(r)
  <2> DEFINE a == reg[r].name
             t == [agent |-> a, key |-> reg[r].key, tools |-> reg[r].tools,
                   parent |-> reg[r].parent, parentAllowed |-> reg[r].parentAllowed,
                   exp |-> clock + life]
             g == [reg[r] EXCEPT !.pc = "read"]
             f == [disk[a] EXCEPT !.jwt = {t}]
  <2>1. a \in Agent /\ reg[r].pc = "jwt"
    BY <1>0, <1>4 DEF MintAgentJWT
  <2>2. t.agent = a /\ t.key = reg[r].key
    OBVIOUS
  <2>3. /\ reg' = [reg EXCEPT ![r] = g] /\ disk' = [disk EXCEPT ![a] = f]
        /\ issued' = issued \cup {t} /\ UNCHANGED <<agents, keys, buried, torn>>
    BY <1>4 DEF MintAgentJWT
  <2> HIDE DEF t
  <2>4. /\ g.pc = "read" /\ g.key = reg[r].key /\ g.name = a
        /\ f.pub = disk[a].pub /\ f.priv = disk[a].priv /\ f.jwt = {t}
    BY <1>0, <2>1 DEF Registration, Files
  <2> HIDE DEF g, f
  <2>5. reg'[r] = g /\ (\A q \in Registrar : q # r => reg'[q] = reg[q])
        /\ disk'[a] = f /\ OnlyFilesOf(a)
    BY <1>r, <1>d, <2>1, <2>3
  <2>6. t \in disk'[a].jwt /\ t.agent = a /\ t.key = reg[r].key
    BY <2>2, <2>4, <2>5
  <2> QED BY <2>1, <2>3, <2>4, <2>5, <2>6 DEF RegMoves
<1>5. ASSUME NEW r \in Registrar, ReadPublicKey(r) PROVE RegMoves(r)
  <2> DEFINE a == reg[r].name
             g == [reg[r] EXCEPT !.pc = "upsert", !.pub = disk[a].pub]
  <2>1. a \in Agent /\ reg[r].pc = "read"
    BY <1>0, <1>5 DEF ReadPublicKey
  <2>2. g.pc = "upsert" /\ g.key = reg[r].key /\ g.name = a /\ g.pub = disk[a].pub
    BY <1>0, <2>1 DEF Registration
  <2>3. reg' = [reg EXCEPT ![r] = g]
    BY <1>5 DEF ReadPublicKey
  <2> HIDE DEF g
  <2>4. reg'[r] = g /\ (\A q \in Registrar : q # r => reg'[q] = reg[q])
    BY <1>r, <2>3
  <2> QED BY <1>5, <2>1, <2>2, <2>4 DEF ReadPublicKey, RegMoves
<1>6. ASSUME NEW r \in Registrar, UpsertAgent(r) PROVE RegMoves(r)
  <2>1. reg[r].name \in Agent /\ reg[r].pc = "upsert"
    BY <1>0, <1>6 DEF UpsertAgent
  <2>2. /\ agents'[reg[r].name].key = reg[r].pub
        /\ \A b \in Agent : b # reg[r].name => agents'[b] = agents[b]
        /\ \A b \in Agent : b # reg[r].name => torn'[b] = torn[b]
    BY <1>0, <1>6, <2>1 DEF UpsertAgent
  <2>3. reg'[r] = IdleReg /\ (\A q \in Registrar : q # r => reg'[q] = reg[q])
    BY <1>6, <1>r DEF UpsertAgent
  <2> QED BY <1>6, <2>1, <2>2, <2>3 DEF UpsertAgent, RegMoves
<1>7. ASSUME NEW r \in Registrar, AbortRegister(r) PROVE RegMoves(r)
  <2>1. reg[r].name \in Agent /\ reg[r].pc # "idle"
    BY <1>0, <1>7 DEF AbortRegister
  <2>2. /\ torn'[reg[r].name] = (torn[reg[r].name] \/ reg[r].pc # "priv")
        /\ \A b \in Agent : b # reg[r].name => torn'[b] = torn[b]
    BY <1>0, <1>7, <2>1 DEF AbortRegister
  <2>3. reg'[r] = IdleReg /\ (\A q \in Registrar : q # r => reg'[q] = reg[q])
    BY <1>7, <1>r DEF AbortRegister
  <2> QED BY <1>7, <2>1, <2>2, <2>3 DEF AbortRegister, RegMoves
<1>8. ASSUME \/ Tick
             \/ \E h \in Handler :
                   \/ \E t \in issued, x \in Tool : Receive(h, t, x)
                   \/ AuthMiddleware(h) \/ Evaluate(h) \/ Forward(h)
             \/ UNCHANGED vars
      PROVE  UNCHANGED <<agents, disk, reg, keys, issued, buried, torn>>
  BY <1>8 DEF Tick, Receive, AuthMiddleware, Evaluate, Forward, vars
<1> QED BY <1>1, <1>2, <1>3, <1>4, <1>5, <1>6, <1>7, <1>8 DEF Next

\* A registration that is alone with its name leaves the files as its steps say.
LEMMA FilesStep ==
    ASSUME AgentsTypeOK, [Next]_vars, NEW a \in Agent, Alone(a), FilesFollow(a)
    PROVE  FilesFollow(a)'
<1>0. /\ agents \in [Agent -> AgentRow] /\ agents[a] \in AgentRow
      /\ IdleReg.name \notin Agent /\ IdleReg.pc = "idle"
      /\ \A r \in Registrar : reg[r].pc # "idle" => reg[r].name \in Agent
      /\ torn \in [Agent -> BOOLEAN]
  BY AgentsAssumption DEF AgentsTypeOK, IdleReg
<1>u. CASE UNCHANGED <<agents, disk, reg, keys, issued, buried, torn>>
  BY <1>u DEF FilesFollow, Writing, TokenOnDisk
<1>v. ASSUME NEW b \in Agent, RevokeAgent(b) PROVE FilesFollow(a)'
  <2>1. /\ agents'[a].key = agents[a].key /\ agents'[a].exists = agents[a].exists
        /\ UNCHANGED <<disk, reg, torn>>
    BY <1>0, <1>v DEF RevokeAgent, AgentRow
  <2> QED BY <2>1 DEF FilesFollow, Writing, TokenOnDisk
<1>r. ASSUME NEW r \in Registrar, RegMoves(r) PROVE FilesFollow(a)'
  <2>0. \A q \in Registrar : q # r => reg'[q] = reg[q]
    BY <1>r DEF RegMoves
  <2>1. CASE reg[r].name # a
    <3>1. /\ disk'[a] = disk[a] /\ torn'[a] = torn[a]
          /\ agents'[a] = agents[a]
      BY <1>r, <2>1 DEF RegMoves, OnlyFilesOf
    <3>2. reg'[r].name = a => reg'[r].pc = "priv"
      BY <1>0, <1>r, <2>1 DEF RegMoves
    <3>3. \A q \in Registrar : reg'[q].name = a =>
             (reg'[q] = reg[q] \/ reg'[q].pc = "priv") /\ (q = r => reg'[q].pc = "priv")
      BY <2>0, <3>2
    <3>4. (\A q \in Registrar : reg'[q].name = a => ~ Writing(q)')
             => \A q \in Registrar : reg[q].name = a => ~ Writing(q)
      BY <2>0, <2>1 DEF Writing
    <3> QED BY <3>1, <3>3, <3>4 DEF FilesFollow, Writing, TokenOnDisk
  <2>2. CASE reg[r].name = a
    <3>0. \A q \in Registrar : q # r => reg'[q] = reg[q] /\ reg[q].name # a
      BY <2>0, <2>2 DEF Alone
    <3>f. /\ Writing(r) => disk[a].priv = reg[r].key
          /\ reg[r].pc \in {"jwt", "read", "upsert"} => disk[a].pub = reg[r].key
          /\ reg[r].pc \in {"read", "upsert"} => TokenOnDisk(a, reg[r].key)
          /\ reg[r].pc = "upsert" => reg[r].pub = reg[r].key
          /\ ~ Writing(r) /\ ~ torn[a] =>
                /\ disk[a].priv = disk[a].pub
                /\ agents[a].exists =>
                      agents[a].key = disk[a].pub /\ TokenOnDisk(a, disk[a].pub)
      BY <2>2, <3>0 DEF FilesFollow
    <3>1. ASSUME reg'[r].name = a, Writing(r)',
                 disk'[a].priv = reg'[r].key,
                 reg'[r].pc \in {"jwt", "read", "upsert"} => disk'[a].pub = reg'[r].key,
                 reg'[r].pc \in {"read", "upsert"} =>
                    \E t \in disk'[a].jwt : t.agent = a /\ t.key = reg'[r].key,
                 reg'[r].pc = "upsert" => reg'[r].pub = reg'[r].key
          PROVE  FilesFollow(a)'
      BY <3>0, <3>1 DEF FilesFollow, TokenOnDisk
    <3>2. ASSUME ~ Writing(r)',
                 ~ torn'[a] =>
                    /\ disk'[a].priv = disk'[a].pub
                    /\ agents'[a].exists =>
                          /\ agents'[a].key = disk'[a].pub
                          /\ \E t \in disk'[a].jwt : t.agent = a /\ t.key = disk'[a].pub
          PROVE  FilesFollow(a)'
      BY <3>0, <3>2 DEF FilesFollow, TokenOnDisk, Writing
    <3>3. CASE reg'[r].pc \in {"pub", "jwt", "read", "upsert"}
      <4>1. Writing(r)'
        BY <3>3 DEF Writing
      <4>2. reg'[r].name = a
        BY <1>0, <1>r, <2>2, <3>3 DEF RegMoves
      <4>3. disk'[a].priv = reg'[r].key
        BY <1>0, <1>r, <2>2, <3>3, <3>f DEF RegMoves, Writing
      <4>4. reg'[r].pc \in {"jwt", "read", "upsert"} => disk'[a].pub = reg'[r].key
        BY <1>0, <1>r, <2>2, <3>f DEF RegMoves, Writing
      <4>5. reg'[r].pc \in {"read", "upsert"} =>
               \E t \in disk'[a].jwt : t.agent = a /\ t.key = reg'[r].key
        BY <1>0, <1>r, <2>2, <3>f DEF RegMoves, TokenOnDisk
      <4>6. reg'[r].pc = "upsert" => reg'[r].pub = reg'[r].key
        BY <1>0, <1>r, <2>2, <3>f DEF RegMoves
      <4> QED BY <3>1, <4>1, <4>2, <4>3, <4>4, <4>5, <4>6
    <3>4. CASE reg'[r].pc \notin {"pub", "jwt", "read", "upsert"}
      <4>1. ~ Writing(r)'
        BY <3>4 DEF Writing
      <4>2. ASSUME ~ torn'[a], reg[r].pc = "upsert"
            PROVE  /\ disk'[a].priv = disk'[a].pub /\ agents'[a].key = disk'[a].pub
                   /\ \E t \in disk'[a].jwt : t.agent = a /\ t.key = disk'[a].pub
        BY <1>0, <1>r, <2>2, <3>4, <3>f, <4>2 DEF RegMoves, TokenOnDisk, Writing
      <4>3. ASSUME ~ torn'[a], reg[r].pc # "upsert"
            PROVE  ~ Writing(r) /\ ~ torn[a] /\ disk' = disk /\ agents' = agents
        BY <1>0, <1>r, <2>2, <3>4, <4>3 DEF RegMoves, Writing
      <4> QED BY <3>2, <3>f, <4>1, <4>2, <4>3 DEF TokenOnDisk
    <3> QED BY <3>3, <3>4
  <2> QED BY <2>1, <2>2
<1> QED BY <1>u, <1>v, <1>r, RegistrationMoves

\* A key is generated for one row and goes to no other, and a revoked row gets a
\* new key before it works again.
LEMMA DeadStep ==
    ASSUME SoleRegistrar, AgentsTypeOK, KeysSignOnce, SoleInv, [Next]_vars
    PROVE  KeysStayDead'
<1>0. /\ agents \in [Agent -> AgentRow] /\ \A a \in Agent : agents[a] \in AgentRow
      /\ keys \in Nat /\ IdleReg.pc = "idle"
      /\ issued \subseteq Token /\ \A t \in issued : t.agent \in Agent /\ t.key \in 1..keys
      /\ \A r \in Registrar : reg[r].pc # "idle" => reg[r].name \in Agent
  BY DEF AgentsTypeOK, KeysSignOnce, IdleReg, Token
<1>k. /\ \A a \in Agent : agents[a].key \in 0..keys
      /\ buried \subseteq issued
      /\ \A r \in Registrar : Writing(r) =>
            /\ reg[r].key \in 1..keys
            /\ \A a \in Agent : agents[a].key # reg[r].key
            /\ \A t \in buried : t.key # reg[r].key
      /\ \A t \in buried : agents[t.agent].key = t.key => agents[t.agent].revoked
  BY DEF SoleInv, KeysStayDead
<1>u. CASE UNCHANGED <<agents, disk, reg, keys, issued, buried, torn>>
  BY <1>u, <1>k DEF KeysStayDead, Writing
<1>v. ASSUME NEW a \in Agent, RevokeAgent(a) PROVE KeysStayDead'
  <2>1. /\ UNCHANGED <<reg, keys, issued>>
        /\ buried' = buried \cup {t \in issued : t.agent = a /\ Accepted(t)}
    BY <1>v DEF RevokeAgent
  <2>2. /\ agents'[a].revoked /\ \A b \in Agent : agents'[b].key = agents[b].key
        /\ \A b \in Agent : agents[b].revoked => agents'[b].revoked
    BY <1>0, <1>v DEF RevokeAgent, AgentRow
  <2>3. \A t \in issued : t.agent = a /\ Accepted(t) => t.key = agents[a].key
    BY DEF Accepted, ValidateAgentJWT
  <2>4. \A t \in buried' : agents'[t.agent].key = t.key => agents'[t.agent].revoked
    BY <1>0, <1>k, <2>1, <2>2
  <2>5. ASSUME NEW r \in Registrar, Writing(r)'
        PROVE  /\ reg'[r].key \in 1..keys' /\ \A b \in Agent : agents'[b].key # reg'[r].key
               /\ \A t \in buried' : t.key # reg'[r].key
    <3>1. Writing(r)
      BY <2>1, <2>5 DEF Writing
    <3> QED BY <1>k, <2>1, <2>2, <2>3, <3>1
  <2> QED BY <1>k, <2>1, <2>2, <2>4, <2>5 DEF KeysStayDead
<1>r. ASSUME NEW r \in Registrar, RegMoves(r) PROVE KeysStayDead'
  <2>0. /\ \A q \in Registrar : q = r
        /\ buried' = buried /\ issued \subseteq issued'
    BY <1>r DEF RegMoves, SoleRegistrar
  <2>1. CASE agents' = agents
    <3>1. keys' \in Nat /\ keys <= keys'
      BY <1>0, <1>r DEF RegMoves
    <3>2. ASSUME Writing(r)'
          PROVE  /\ reg'[r].key \in 1..keys' /\ \A b \in Agent : agents[b].key # reg'[r].key
                 /\ \A t \in buried : t.key # reg'[r].key
      <4>1. CASE Writing(r)
        <5>1. reg'[r].key = reg[r].key
          BY <1>0, <1>r, <3>2, <4>1 DEF RegMoves, Writing
        <5> QED BY <1>0, <1>k, <3>1, <4>1, <5>1
      <4>2. CASE ~ Writing(r)
        <5>1. reg'[r].key = keys + 1 /\ keys' = keys + 1
          BY <1>0, <1>r, <3>2, <4>2 DEF RegMoves, Writing
        <5>2. \A b \in Agent : agents[b].key # keys + 1
          BY <1>0, <1>k
        <5>3. \A t \in buried : t.key # keys + 1
          BY <1>0, <1>k
        <5> QED BY <1>0, <5>1, <5>2, <5>3
      <4> QED BY <4>1, <4>2
    <3>3. \A a \in Agent : agents[a].key \in 0..keys'
      BY <1>0, <1>k, <3>1
    <3> QED BY <1>k, <2>0, <2>1, <3>2, <3>3 DEF KeysStayDead
  <2>2. CASE agents' # agents
    <3>1. /\ reg[r].pc = "upsert" /\ reg'[r] = IdleReg /\ reg[r].name \in Agent
          /\ agents'[reg[r].name].key = reg[r].pub /\ keys' = keys
          /\ \A b \in Agent : b # reg[r].name => agents'[b] = agents[b]
      BY <1>r, <2>2 DEF RegMoves
    <3>2. reg[r].pub = reg[r].key
      BY <3>1 DEF SoleInv, FilesFollow
    <3>3. reg[r].key \in 1..keys /\ \A t \in buried : t.key # reg[r].key
      BY <1>k, <3>1 DEF Writing
    <3>4. \A a \in Agent : agents'[a].key \in 0..keys'
      BY <1>0, <1>k, <3>1, <3>2, <3>3
    <3>5. \A q \in Registrar : ~ Writing(q)'
      BY <1>0, <2>0, <3>1 DEF Writing
    <3>6. \A t \in buried' : agents'[t.agent].key = t.key => agents'[t.agent].revoked
      BY <1>0, <1>k, <2>0, <3>1, <3>2, <3>3
    <3>7. buried' \subseteq issued'
      BY <1>k, <2>0
    <3> QED BY <3>4, <3>5, <3>6, <3>7 DEF KeysStayDead
  <2> QED BY <2>1, <2>2
<1> QED BY <1>u, <1>v, <1>r, RegistrationMoves

\* Registrations run one at a time keep the files, the rows and the keys in step.
LEMMA SoleCorrect ==
    ASSUME SoleRegistrar
    PROVE  Spec => [](AgentsTypeOK /\ SoleInv)
<1>1. Init => SoleInv
  <2> SUFFICES ASSUME Init PROVE SoleInv
    OBVIOUS
  <2>1. IdleReg.name \notin Agent /\ IdleReg.pc = "idle" /\ NoAgentRow.key = 0
        /\ ~ NoAgentRow.exists
    BY AgentsAssumption DEF IdleReg, NoAgentRow
  <2>2. \A a \in Agent : FilesFollow(a)
    BY <2>1 DEF Init, FilesFollow
  <2>3. KeysStayDead
    BY <2>1 DEF Init, KeysStayDead, Writing
  <2> QED BY <2>2, <2>3 DEF SoleInv
<1>2. AgentsTypeOK /\ KeysSignOnce /\ SoleInv /\ [Next]_vars => SoleInv'
  <2> SUFFICES ASSUME AgentsTypeOK, KeysSignOnce, SoleInv, [Next]_vars PROVE SoleInv'
    OBVIOUS
  <2>1. \A a \in Agent : FilesFollow(a)'
    BY FilesStep DEF SoleRegistrar, Alone, SoleInv
  <2> QED BY <2>1, DeadStep DEF SoleInv
<1> QED BY <1>1, <1>2, AgentsTypeInit, AgentsTypeStep, KeysInit, KeysStep, PTL DEF Spec

\* When registrations are run one at a time and the last one of a name finished,
\* its JWT file holds a token that the proxy's row verifies and both key files
\* hold the key of the row, through whatever crashes and revocations before.
\* (Two overlapping registrations of a name can leave mixed files.)
THEOREM CredentialsWork ==
    ASSUME SoleRegistrar
    PROVE  Spec => []CredentialsOnDiskWork
<1>1. SoleInv => CredentialsOnDiskWork
  BY DEF SoleInv, FilesFollow, TokenOnDisk, CredentialsOnDiskWork, Registering
<1> QED BY <1>1, SoleCorrect, PTL

\* When registrations are run one at a time, revocation is permanent for the
\* tokens that worked at that moment. (The run claim_revoke shows that it is not
\* for a registration that overlaps with it.)
THEOREM RevocationIsPermanent ==
    ASSUME SoleRegistrar
    PROVE  Spec => []RevokedTokenStaysDead
<1>1. SoleInv => RevokedTokenStaysDead
  BY DEF SoleInv, KeysStayDead, RevokedTokenStaysDead, Accepted, ValidateAgentJWT
<1> QED BY <1>1, SoleCorrect, PTL

-----------------------------------------------------------------------------
(* Requests: what a step may never do.  Any number of registrars.           *)

\* A request keeps its token and tool while it moves on, and moves on only if
\* AuthMiddleware accepts the token now, or the delegation stage passes now.
RequestMove(g) ==
    \/ loc'[g] = loc[g]
    \/ loc'[g].pc \in {"idle", "auth"}
    \/ /\ loc'[g].tokens = loc[g].tokens /\ loc'[g].tools = loc[g].tools
       /\ \/ loc[g].pc = "auth" /\ loc'[g].pc = "evaluate" /\ Accepted(TokenOf(g))
          \/ /\ loc[g].pc = "evaluate" /\ loc'[g].pc = "forward"
             /\ DelegationEvaluator(TokenOf(g), ToolOf(g))

\* Every step of the system moves a request in one of those ways.
LEMMA RequestMoves ==
    ASSUME AgentsTypeOK, [Next]_vars, NEW g \in Handler PROVE RequestMove(g)
<1>0. loc \in [Handler -> Request] /\ loc[g] \in Request
  BY DEF AgentsTypeOK
<1>1. ASSUME NEW h \in Handler, NEW t \in issued, NEW x \in Tool, Receive(h, t, x)
      PROVE  RequestMove(g)
  BY <1>0, <1>1 DEF Receive, RequestMove
<1>2. ASSUME NEW h \in Handler, AuthMiddleware(h) PROVE RequestMove(g)
  <2>1. CASE loc' = [loc EXCEPT ![h] = IdleHandler]
    BY <1>0, <2>1 DEF RequestMove, IdleHandler
  <2>2. CASE Accepted(TokenOf(h)) /\ loc' = [loc EXCEPT ![h].pc = "evaluate"]
    <3>1. CASE g = h
      BY <1>0, <1>2, <2>2, <3>1 DEF RequestMove, AuthMiddleware, Request
    <3>2. CASE g # h
      BY <1>0, <2>2, <3>2 DEF RequestMove
    <3> QED BY <3>1, <3>2
  <2> QED BY <1>2, <2>1, <2>2 DEF AuthMiddleware
<1>3. ASSUME NEW h \in Handler, Evaluate(h) PROVE RequestMove(g)
  <2>1. CASE loc' = [loc EXCEPT ![h] = IdleHandler]
    BY <1>0, <2>1 DEF RequestMove, IdleHandler
  <2>2. CASE /\ DelegationEvaluator(TokenOf(h), ToolOf(h))
             /\ loc' = [loc EXCEPT ![h].pc = "forward"]
    <3>1. CASE g = h
      BY <1>0, <1>3, <2>2, <3>1 DEF RequestMove, Evaluate, Request
    <3>2. CASE g # h
      BY <1>0, <2>2, <3>2 DEF RequestMove
    <3> QED BY <3>1, <3>2
  <2> QED BY <1>3, <2>1, <2>2 DEF Evaluate
<1>4. ASSUME NEW h \in Handler, Forward(h) PROVE RequestMove(g)
  BY <1>0, <1>4 DEF Forward, RequestMove, IdleHandler
<1>5. ASSUME NEW r \in Registrar,
             \/ \E a \in Agent, scope \in Scopes, p \in Agent \cup {None} :
                   Register(r, a, scope, p)
             \/ GenerateKeypair(r) \/ writePublicKey(r)
             \/ \E life \in Lifetime : MintAgentJWT(r, life)
             \/ ReadPublicKey(r) \/ UpsertAgent(r) \/ AbortRegister(r)
      PROVE  RequestMove(g)
  BY <1>5 DEF RequestMove, Register, GenerateKeypair, writePublicKey, MintAgentJWT,
              ReadPublicKey, UpsertAgent, AbortRegister
<1>6. CASE Tick \/ UNCHANGED vars \/ \E a \in Agent : RevokeAgent(a)
  BY <1>6 DEF RequestMove, Tick, vars, RevokeAgent
<1> QED BY <1>1, <1>2, <1>3, <1>4, <1>5, <1>6 DEF Next

\* While an agent is revoked, AuthMiddleware admits no further call of it: for
\* any number of handlers, tokens and registrations, overlapping ones included.
THEOREM RevocationStops == Spec => RevocationStopsAdmission
<1>1. ASSUME AgentsTypeOK, [Next]_vars
      PROVE  [\A a \in Agent : agents[a].revoked => Admitted(a)' \subseteq Admitted(a)]_vars
  <2> SUFFICES ASSUME NEW a \in Agent, agents[a].revoked,
                      NEW g \in Handler, loc'[g].pc \in {"evaluate", "forward"},
                      TokenOf(g)'.agent = a
               PROVE  loc[g].pc \in {"evaluate", "forward"} /\ TokenOf(g).agent = a
    BY DEF Admitted
  <2>1. RequestMove(g)
    BY <1>1, RequestMoves
  <2>2. TokenOf(g)' = TokenOf(g)
    BY <2>1 DEF RequestMove, TokenOf
  <2>3. ~ Accepted(TokenOf(g))
    BY <2>2 DEF Accepted
  <2> QED BY <2>1, <2>2, <2>3 DEF RequestMove
<1> QED BY <1>1, AgentsTypeCorrect, PTL DEF Spec, RevocationStopsAdmission

\* While a tool is not among the tools of a parent's row, no further call of it
\* gets past the delegation stage for any of the parent's children, whatever
\* their tokens say.
THEOREM NarrowingIsImmediate == Spec => NarrowingTakesEffect
<1>1. ASSUME AgentsTypeOK, [Next]_vars
      PROVE  [\A p \in Agent, x \in Tool :
                 x \notin AllowedTools(p) => Delegated(p, x)' \subseteq Delegated(p, x)]_vars
  <2> SUFFICES ASSUME NEW p \in Agent, NEW x \in Tool, x \notin AllowedTools(p),
                      NEW g \in Handler, loc'[g].pc = "forward",
                      TokenOf(g)'.parent = p, ToolOf(g)' = x
               PROVE  loc[g].pc = "forward" /\ TokenOf(g).parent = p /\ ToolOf(g) = x
    BY DEF Delegated
  <2>1. RequestMove(g)
    BY <1>1, RequestMoves
  <2>2. TokenOf(g)' = TokenOf(g) /\ ToolOf(g)' = ToolOf(g)
    BY <2>1 DEF RequestMove, TokenOf, ToolOf
  <2>3. ~ DelegationEvaluator(TokenOf(g), ToolOf(g))
    BY <2>2, AgentsAssumption DEF DelegationEvaluator
  <2> QED BY <2>1, <2>2, <2>3 DEF RequestMove
<1> QED BY <1>1, AgentsTypeCorrect, PTL DEF Spec, NarrowingTakesEffect
==============================================================================
