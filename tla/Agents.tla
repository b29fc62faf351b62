------------------------------- MODULE Agents -------------------------------
(***************************************************************************)
(* Agent identity: `agent register` and `agent revoke` (cmd/agent), the    *)
(* agents table (internal/store/agents.go), the key files and JWTs of      *)
(* internal/identity, AuthMiddleware and the stages of the pipeline that   *)
(* depend on who calls (MayUse and Delegation).                            *)
(*                                                                         *)
(* A registration is a separate process: it checks the parent, writes the  *)
(* private key, the public key and the JWT to files, reads the public key  *)
(* file back and upserts the agents row, one step each, and can die or     *)
(* fail between any two.  Nothing locks an agent name.  A key is a number, *)
(* 0 is no key; a token is signed with the key it carries, and requests    *)
(* carry issued tokens (any other fails signature verification).           *)
(***************************************************************************)
EXTENDS Naturals, FiniteSets

CONSTANTS
    Agent,          \* agent names
    None,           \* no parent: the empty string
    Tool,
    MayUse,         \* may_use of the policy the proxy enforces
    Scopes,         \* may_use of the policies agents are registered with
    Lifetime,       \* values of --expiry-days
    Registrar,      \* processes that run `agent register`
    Handler,        \* request goroutines of the proxy
    MaxKeys,        \* bound: keys generated
    MaxClock        \* bound: clock

ASSUME AgentsAssumption ==
    /\ None \notin Agent
    /\ MayUse \subseteq Tool /\ Scopes \subseteq SUBSET Tool
    /\ Lifetime \subseteq Nat
    /\ MaxKeys \in Nat /\ MaxClock \in Nat

VARIABLES
    agents,         \* agents table
    disk,           \* ~/.truebearing/keys: <name>.pem, .pub.pem, .jwt
    reg,            \* what each registration holds
    keys,           \* keys generated so far
    issued,         \* history: tokens minted
    clock,
    loc,            \* what each handler holds
    buried,         \* history: tokens that worked when their agent was revoked
    torn            \* history: the last registration of a name did not finish

vars == <<agents, disk, reg, keys, issued, clock, loc, buried, torn>>

Token == [agent : Agent, key : Nat, tools : SUBSET Tool,
          parent : Agent \cup {None}, parentAllowed : SUBSET Tool, exp : Nat]

NoAgentRow == [exists |-> FALSE, key |-> 0, tools |-> {}, revoked |-> FALSE]
IdleReg    == [pc |-> "idle", name |-> None, tools |-> {}, parent |-> None,
               parentAllowed |-> {}, key |-> 0, pub |-> 0]
IdleHandler == [pc |-> "idle", tokens |-> {}, tools |-> {}]

Init ==
    /\ agents = [a \in Agent |-> NoAgentRow]
    /\ disk   = [a \in Agent |-> [priv |-> 0, pub |-> 0, jwt |-> {}]]
    /\ reg    = [r \in Registrar |-> IdleReg]
    /\ keys = 0 /\ issued = {} /\ clock = 0
    /\ loc    = [h \in Handler |-> IdleHandler]
    /\ buried = {}
    /\ torn   = [a \in Agent |-> FALSE]

AllowedTools(a) == agents[a].tools

-----------------------------------------------------------------------------
(* agent register.                                                         *)

\* runRegister up to the first write: the child's tools must lie within the
\* parent's.  (A refused registration changes nothing.)
Register(r, a, scope, p) ==
    /\ reg[r].pc = "idle"
    /\ p # None => agents[p].exists /\ scope \subseteq AllowedTools(p)
    /\ reg' = [reg EXCEPT ![r] =
          [IdleReg EXCEPT !.pc = "priv", !.name = a, !.tools = scope, !.parent = p,
              !.parentAllowed = IF p = None THEN {} ELSE AllowedTools(p)]]
    /\ UNCHANGED <<agents, disk, keys, issued, clock, loc, buried, torn>>

\* Mutant: a name that has a key keeps it.
ReuseKeypair(r) ==
    LET a == reg[r].name
        k == IF disk[a].priv # 0 THEN disk[a].priv ELSE keys + 1
    IN  /\ reg[r].pc = "priv" /\ keys < MaxKeys
        /\ keys' = keys + 1
        /\ disk' = [disk EXCEPT ![a].priv = k]
        /\ reg'  = [reg EXCEPT ![r].pc = "pub", ![r].key = k]
        /\ UNCHANGED <<agents, issued, clock, loc, buried, torn>>

\* GenerateKeypair, first half: a new key, written to <name>.pem.
GenerateKeypair(r) ==
    /\ reg[r].pc = "priv" /\ keys < MaxKeys
    /\ keys' = keys + 1
    /\ disk' = [disk EXCEPT ![reg[r].name].priv = keys + 1]
    /\ reg'  = [reg EXCEPT ![r] = [reg[r] EXCEPT !.pc = "pub", !.key = keys + 1]]
    /\ UNCHANGED <<agents, issued, clock, loc, buried, torn>>

\* Mutant: a public key file that exists is kept.
KeepPublicKey(r) ==
    /\ reg[r].pc = "pub"
    /\ disk' = [disk EXCEPT ![reg[r].name].pub = IF @ = 0 THEN reg[r].key ELSE @]
    /\ reg'  = [reg EXCEPT ![r] = [reg[r] EXCEPT !.pc = "jwt"]]
    /\ UNCHANGED <<agents, keys, issued, clock, loc, buried, torn>>

\* Second half: <name>.pub.pem.
writePublicKey(r) ==
    /\ reg[r].pc = "pub"
    /\ disk' = [disk EXCEPT ![reg[r].name].pub = reg[r].key]
    /\ reg'  = [reg EXCEPT ![r] = [reg[r] EXCEPT !.pc = "jwt"]]
    /\ UNCHANGED <<agents, keys, issued, clock, loc, buried, torn>>

\* Mutant: the lifetime is subtracted from the time of issue.
MintExpiredJWT(r, life) ==
    LET t == [agent |-> reg[r].name, key |-> reg[r].key, tools |-> reg[r].tools,
              parent |-> reg[r].parent, parentAllowed |-> reg[r].parentAllowed,
              exp |-> clock - life]
    IN  /\ reg[r].pc = "jwt"
        /\ issued' = issued \cup {t}
        /\ disk' = [disk EXCEPT ![reg[r].name].jwt = {t}]
        /\ reg'  = [reg EXCEPT ![r] = [reg[r] EXCEPT !.pc = "read"]]
        /\ UNCHANGED <<agents, keys, clock, loc, buried, torn>>

\* MintAgentJWT, and the token written to <name>.jwt.
MintAgentJWT(r, life) ==
    LET t == [agent |-> reg[r].name, key |-> reg[r].key, tools |-> reg[r].tools,
              parent |-> reg[r].parent, parentAllowed |-> reg[r].parentAllowed,
              exp |-> clock + life]
    IN  /\ reg[r].pc = "jwt"
        /\ issued' = issued \cup {t}
        /\ disk' = [disk EXCEPT ![reg[r].name].jwt = {t}]
        /\ reg'  = [reg EXCEPT ![r] = [reg[r] EXCEPT !.pc = "read"]]
        /\ UNCHANGED <<agents, keys, clock, loc, buried, torn>>

\* The public key goes into the row from the file, not from memory.
ReadPublicKey(r) ==
    /\ reg[r].pc = "read"
    /\ reg' = [reg EXCEPT ![r] = [reg[r] EXCEPT !.pc = "upsert",
                                                !.pub = disk[reg[r].name].pub]]
    /\ UNCHANGED <<agents, disk, keys, issued, clock, loc, buried, torn>>

\* Mutant: INSERT OR IGNORE.
InsertAgent(r) ==
    /\ reg[r].pc = "upsert"
    /\ agents' = IF agents[reg[r].name].exists THEN agents
                 ELSE [agents EXCEPT ![reg[r].name] =
                          [exists |-> TRUE, key |-> reg[r].pub,
                           tools |-> reg[r].tools, revoked |-> FALSE]]
    /\ reg'  = [reg EXCEPT ![r] = IdleReg]
    /\ torn' = [torn EXCEPT ![reg[r].name] = FALSE]
    /\ UNCHANGED <<disk, keys, issued, clock, loc, buried>>

\* Store.UpsertAgent: INSERT OR REPLACE, revoked_at NULL.
UpsertAgent(r) ==
    /\ reg[r].pc = "upsert"
    /\ agents' = [agents EXCEPT ![reg[r].name] =
          [exists |-> TRUE, key |-> reg[r].pub, tools |-> reg[r].tools,
           revoked |-> FALSE]]
    /\ reg'  = [reg EXCEPT ![r] = IdleReg]
    /\ torn' = [torn EXCEPT ![reg[r].name] = FALSE]
    /\ UNCHANGED <<disk, keys, issued, clock, loc, buried>>

\* The process is killed, or a file or database write fails.
AbortRegister(r) ==
    /\ reg[r].pc # "idle"
    /\ torn' = [torn EXCEPT ![reg[r].name] = @ \/ reg[r].pc # "priv"]
    /\ reg'  = [reg EXCEPT ![r] = IdleReg]
    /\ UNCHANGED <<agents, disk, keys, issued, clock, loc, buried>>

-----------------------------------------------------------------------------
(* Authentication and revocation.                                          *)

ValidateAgentJWT(t, key) == t.key = key /\ clock < t.exp

\* AuthMiddleware accepts the token now.
Accepted(t) ==
    LET row == agents[t.agent]
    IN  row.exists /\ ~ row.revoked /\ ValidateAgentJWT(t, row.key)

RevokeAgent(a) ==
    /\ agents[a].exists
    /\ agents' = [agents EXCEPT ![a].revoked = TRUE]
    /\ buried' = buried \cup {t \in issued : t.agent = a /\ Accepted(t)}
    /\ UNCHANGED <<disk, reg, keys, issued, clock, loc, torn>>

Tick ==
    /\ clock < MaxClock /\ clock' = clock + 1
    /\ UNCHANGED <<agents, disk, reg, keys, issued, loc, buried, torn>>

-----------------------------------------------------------------------------
(* A tools/call request.                                                   *)

Receive(h, t, x) ==
    /\ loc[h].pc = "idle"
    /\ loc' = [loc EXCEPT ![h] = [pc |-> "auth", tokens |-> {t}, tools |-> {x}]]
    /\ UNCHANGED <<agents, disk, reg, keys, issued, clock, buried, torn>>

TokenOf(h) == CHOOSE t \in loc[h].tokens : TRUE
ToolOf(h)  == CHOOSE x \in loc[h].tools : TRUE

\* Mutant: a valid signature is enough.
AuthBySignature(h) ==
    LET t == TokenOf(h)
    IN  /\ loc[h].pc = "auth"
        /\ agents[t.agent].exists /\ ValidateAgentJWT(t, agents[t.agent].key)
        /\ loc' = [loc EXCEPT ![h].pc = "evaluate"]
        /\ UNCHANGED <<agents, disk, reg, keys, issued, clock, buried, torn>>

\* One read of the agents row; a failed lookup is a 401 too.
AuthMiddleware(h) ==
    /\ loc[h].pc = "auth"
    /\ \/ Accepted(TokenOf(h)) /\ loc' = [loc EXCEPT ![h].pc = "evaluate"]
       \/ loc' = [loc EXCEPT ![h] = IdleHandler]
    /\ UNCHANGED <<agents, disk, reg, keys, issued, clock, buried, torn>>

\* Mutant: the parent's tools are taken from the token.
DelegationByToken(t, x) == t.parent = None \/ x \in t.parentAllowed

\* DelegationEvaluator: the parent's tools are read from its row, whatever the
\* parent's own revocation; a missing parent is an error, hence a denial.
DelegationEvaluator(t, x) ==
    t.parent = None \/ (agents[t.parent].exists /\ x \in AllowedTools(t.parent))

\* The pipeline, as far as it depends on the caller; enforcing mode.
Evaluate(h) ==
    /\ loc[h].pc = "evaluate"
    /\ loc' = IF ToolOf(h) \in MayUse /\ DelegationEvaluator(TokenOf(h), ToolOf(h))
              THEN [loc EXCEPT ![h].pc = "forward"]
              ELSE [loc EXCEPT ![h] = IdleHandler]
    /\ UNCHANGED <<agents, disk, reg, keys, issued, clock, buried, torn>>

Forward(h) ==
    /\ loc[h].pc = "forward"
    /\ loc' = [loc EXCEPT ![h] = IdleHandler]
    /\ UNCHANGED <<agents, disk, reg, keys, issued, clock, buried, torn>>

Next ==
    \/ \E r \in Registrar :
          \/ \E a \in Agent, scope \in Scopes, p \in Agent \cup {None} :
                Register(r, a, scope, p)
          \/ GenerateKeypair(r) \/ writePublicKey(r)
          \/ \E life \in Lifetime : MintAgentJWT(r, life)
          \/ ReadPublicKey(r) \/ UpsertAgent(r) \/ AbortRegister(r)
    \/ \E a \in Agent : RevokeAgent(a)
    \/ Tick
    \/ \E h \in Handler :
          \/ \E t \in issued, x \in Tool : Receive(h, t, x)
          \/ AuthMiddleware(h) \/ Evaluate(h) \/ Forward(h)

Spec == Init /\ [][Next]_vars

-----------------------------------------------------------------------------

AgentRow == [exists : BOOLEAN, key : Nat, tools : SUBSET Tool, revoked : BOOLEAN]
Files    == [priv : Nat, pub : Nat, jwt : SUBSET Token]
Registration ==
    [pc : {"idle", "priv", "pub", "jwt", "read", "upsert"},
     name : Agent \cup {None}, tools : SUBSET Tool, parent : Agent \cup {None},
     parentAllowed : SUBSET Tool, key : Nat, pub : Nat]
Request == [pc : {"idle", "auth", "evaluate", "forward"},
            tokens : SUBSET Token, tools : SUBSET Tool]

\* Every table, file and process variable has its type, and a registration
\* under way has a name.
AgentsTypeOK ==
    /\ agents \in [Agent -> AgentRow]
    /\ disk \in [Agent -> Files]
    /\ reg \in [Registrar -> Registration]
    /\ \A r \in Registrar : reg[r].pc # "idle" => reg[r].name \in Agent
    /\ keys \in Nat /\ issued \subseteq Token /\ clock \in Nat
    /\ loc \in [Handler -> Request]
    /\ buried \subseteq Token /\ torn \in [Agent -> BOOLEAN]

\* Key rotation: a name never has two tokens the proxy accepts, however many
\* registrations of it ran, overlapped or died half way.
AtMostOneLiveToken ==
    \A t1, t2 \in issued :
        t1.agent = t2.agent /\ Accepted(t1) /\ Accepted(t2) => t1 = t2

\* Store.RevokeAgent: "sets revoked_at to the current time for the named agent,
\* permanently blocking its JWT from authenticating at the proxy": a token that
\* worked when its agent was revoked never works again.
RevokedTokenStaysDead == \A t \in buried : ~ Accepted(t)

\* Why: a key is generated once, carried by one registration, and signs one
\* token.  This is the inductive invariant behind AtMostOneLiveToken.
Signing(r) == reg[r].pc \in {"pub", "jwt"}

KeysSignOnce ==
    /\ keys \in Nat
    /\ \A t \in issued : t.key \in 1..keys
    /\ \A t1, t2 \in issued : t1.key = t2.key => t1 = t2
    /\ \A r \in Registrar : Signing(r) =>
          /\ reg[r].key \in 1..keys
          /\ \A t \in issued : t.key # reg[r].key
    /\ \A r1, r2 \in Registrar :
          Signing(r1) /\ Signing(r2) /\ reg[r1].key = reg[r2].key => r1 = r2

Registering(a) == \E r \in Registrar : reg[r].name = a

\* When the last registration of a name ran to its end and no other is under
\* way, the JWT file holds a token signed with the key the proxy verifies with,
\* and both key files hold that key.
CredentialsOnDiskWork ==
    \A a \in Agent : agents[a].exists /\ ~ torn[a] /\ ~ Registering(a) =>
        /\ disk[a].priv = agents[a].key /\ disk[a].pub = agents[a].key
        /\ \E t \in disk[a].jwt : t.agent = a /\ t.key = agents[a].key

\* Handlers working for agent a past authentication, and handlers about to
\* forward a call of tool x for a child of p.
Admitted(a) == {h \in Handler : loc[h].pc \in {"evaluate", "forward"} /\ TokenOf(h).agent = a}
Delegated(p, x) ==
    {h \in Handler : loc[h].pc = "forward" /\ TokenOf(h).parent = p /\ ToolOf(h) = x}

\* AuthMiddleware checks revocation on every request: while an agent is revoked
\* no further call of it is admitted, whatever session it belongs to.
RevocationStopsAdmission ==
    [][\A a \in Agent : agents[a].revoked => Admitted(a)' \subseteq Admitted(a)]_vars

\* DelegationEvaluator: a parent registered again with fewer tools restricts its
\* children at once, under the tokens they already hold.
NarrowingTakesEffect ==
    [][\A p \in Agent, x \in Tool :
          x \notin AllowedTools(p) => Delegated(p, x)' \subseteq Delegated(p, x)]_vars
=============================================================================
