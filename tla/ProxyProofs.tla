----------------------------- MODULE ProxyProofs -----------------------------
(* Proofs about Proxy, for any number of handlers, sessions, tools and       *)
(* argument values, any policy and any set of faults.                        *)
EXTENDS Proxy, FiniteSetTheorems, SequenceTheorems, TLAPS

-----------------------------------------------------------------------------
(* The pipeline.                                                            *)

\* Every stage returns a verdict: the evaluators are total.
LEMMA StagesReturnVerdicts ==
    ASSUME NEW t \in Tool, NEW a \in Args, NEW sess, NEW log, NEW at, NEW b
    PROVE  /\ EnvEvaluator(AgentEnv, Pol) \in Verdict
           /\ MayUseEvaluator(t, Pol) \in Verdict
           /\ BudgetEvaluator(sess, Pol) \in Verdict
           /\ TaintEvaluator(t, sess, Pol) \in Verdict
           /\ SequenceEvaluator(t, Pol, log) \in Verdict
           /\ ContentEvaluator(t, a, Pol) \in Verdict
           /\ RateLimitEvaluator(t, at, Pol, log) \in Verdict
           /\ EscalationEvaluator(t, a, Pol, b) \in Verdict
<1>1. EnvEvaluator(AgentEnv, Pol) \in Verdict
  BY DEF EnvEvaluator, Verdict
<1>2. MayUseEvaluator(t, Pol) \in Verdict
  BY DEF MayUseEvaluator, Verdict
<1>3. BudgetEvaluator(sess, Pol) \in Verdict
  BY DEF BudgetEvaluator, Verdict
<1>4. TaintEvaluator(t, sess, Pol) \in Verdict
  BY DEF TaintEvaluator, Verdict
<1>5. SequenceEvaluator(t, Pol, log) \in Verdict
  BY DEF SequenceEvaluator, Verdict
<1>6. ContentEvaluator(t, a, Pol) \in Verdict
  BY DEF ContentEvaluator, evalNeverWhenAll, evalNeverWhenAny, Verdict
<1>7. RateLimitEvaluator(t, at, Pol, log) \in Verdict
  BY DEF RateLimitEvaluator, Verdict
<1>8. EscalationEvaluator(t, a, Pol, b) \in Verdict
  BY DEF EscalationEvaluator, Verdict
<1> QED BY <1>1, <1>2, <1>3, <1>4, <1>5, <1>6, <1>7, <1>8

\* Every verdict becomes an action, and only "allow" becomes "allow".
LEMMA DecideIsTotal ==
    ASSUME NEW v \in Verdict, NEW t \in Tool
    PROVE  /\ Decide(v, t, Pol) \in Action
           /\ Decide(v, t, Pol) = "allow" <=> v = "allow"
           /\ Enforced(t) => Decide(v, t, Pol) # "shadow_deny"
BY DEF Decide, Verdict, Action, Enforced

-----------------------------------------------------------------------------
(* Type correctness.                                                        *)

\* A handler between requests holds typed values (the CHOOSEs have witnesses).
LEMMA IdleIsLocal == AnIdle \in Local
<1>1. /\ (CHOOSE s \in Session : TRUE) \in Session
      /\ (CHOOSE t \in Tool : TRUE) \in Tool
      /\ (CHOOSE a \in Args : TRUE) \in Args
  BY ProxyAssumption
<1> QED BY <1>1 DEF AnIdle, Idle, NoRow, NewRow, Local, Row, PC, Action

\* A missing row and a freshly created one are rows of the sessions table.
LEMMA RowsAreTyped == NoRow \in Row /\ NewRow \in Row
BY DEF NoRow, NewRow, Row

\* The empty database and idle handlers have their types.
LEMMA TypeInit == Init => TypeOK
<1> SUFFICES ASSUME Init PROVE TypeOK
  OBVIOUS
<1>1. row \in [Session -> Row] /\ loc \in [Handler -> Local]
  BY IdleIsLocal, RowsAreTyped DEF Init
<1>2. events \in [Session -> Seq(Event)] /\ escalations \in Seq(EscRec)
  BY DEF Init
<1>3. /\ audit \subseteq AuditRec /\ clock \in Nat
      /\ forwarded \in [Session -> SUBSET Nat] /\ uncounted \in [Session -> Nat]
  BY DEF Init
<1> QED BY <1>1, <1>2, <1>3 DEF TypeOK

\* A handler that takes on a typed local state keeps every handler typed.
LEMMA BecomeKeepsLocals ==
    ASSUME loc \in [Handler -> Local], NEW h \in Handler, NEW l \in Local, Become(h, l)
    PROVE  loc' \in [Handler -> Local]
BY DEF Become

\* Moving a handler to another program point keeps every handler typed.
LEMMA GotoKeepsLocals ==
    ASSUME loc \in [Handler -> Local], NEW h \in Handler, NEW p \in PC, Goto(h, p)
    PROVE  loc' \in [Handler -> Local]
<1>1. [loc[h] EXCEPT !.pc = p] \in Local
  BY DEF Local
<1> QED BY <1>1, BecomeKeepsLocals DEF Goto

\* The end of a pipeline stage leaves the handler typed, whatever its verdict.
LEMMA JudgeKeepsLocals ==
    ASSUME TypeOK, NEW h \in Handler, NEW v \in Verdict,
           NEW p \in {"ratelimit", "escalation", "append"}, Judge(h, v, p)
    PROVE  loc' \in [Handler -> Local]
<1> DEFINE t == IF v = "allow"
                THEN applyTaintMutations(loc[h].tool, loc[h].tainted, Pol)
                ELSE loc[h].tainted
           d == Decide(v, loc[h].tool, Pol)
           l == [loc[h] EXCEPT !.pc = "append", !.decidedAt = clock,
                               !.action = d, !.tainted = t]
<1>0. loc[h] \in Local /\ loc \in [Handler -> Local] /\ clock \in Nat
  BY DEF TypeOK
<1>1. d \in Action
  BY <1>0, DecideIsTotal DEF Local
<1>2. t \in BOOLEAN
  BY <1>0 DEF applyTaintMutations, Local
<1>3. CASE v = "allow" /\ p # "append"
  BY <1>0, <1>3, GotoKeepsLocals DEF Judge, PC
<1>4. CASE ~(v = "allow" /\ p # "append")
  <2>1. l \in Local
    <3> HIDE DEF t, d
    <3> QED BY <1>0, <1>1, <1>2 DEF Local, PC
  <2> QED BY <1>0, <1>4, <2>1, BecomeKeepsLocals DEF Judge
<1> QED BY <1>3, <1>4

\* Every step of the proxy, of the operator, of the clock and a crash keeps
\* the types.
LEMMA TypeStep == TypeOK /\ [Next]_vars => TypeOK'
<1> SUFFICES ASSUME TypeOK, [Next]_vars PROVE TypeOK'
  OBVIOUS
<1>0. /\ row \in [Session -> Row] /\ events \in [Session -> Seq(Event)]
      /\ audit \subseteq AuditRec /\ escalations \in Seq(EscRec) /\ clock \in Nat
      /\ loc \in [Handler -> Local] /\ forwarded \in [Session -> SUBSET Nat]
      /\ uncounted \in [Session -> Nat]
  BY DEF TypeOK
<1>h. ASSUME NEW h \in Handler
      PROVE  /\ loc[h] \in Local /\ loc[h].session \in Session
             /\ loc[h].tool \in Tool /\ loc[h].args \in Args
             /\ loc[h].action \in Action /\ loc[h].seq \in Nat
             /\ loc[h].decidedAt \in Nat /\ loc[h].tainted \in BOOLEAN
  BY <1>0 DEF Local
<1>ret. ASSUME NEW h \in Handler, Return(h) PROVE loc' \in [Handler -> Local]
  BY <1>0, <1>ret, IdleIsLocal, BecomeKeepsLocals DEF Return
<1>1. ASSUME NEW h \in Handler, NEW s \in Session, NEW t \in Tool, NEW a \in Args,
             Receive(h, s, t, a)
      PROVE  TypeOK'
  <2>1. [Idle(s, t, a) EXCEPT !.pc = "load", !.requestedAt = clock] \in Local
    BY <1>0, RowsAreTyped DEF Idle, Local, PC, Action
  <2> QED BY <1>0, <1>1, <2>1, BecomeKeepsLocals DEF Receive, TypeOK
<1>2. ASSUME NEW h \in Handler, GetSession(h) PROVE TypeOK'
  <2> DEFINE r == row[loc[h].session]
  <2>0. r \in Row /\ r.tainted \in BOOLEAN
    BY <1>0, <1>h DEF Row
  <2>1. [loc[h] EXCEPT !.pc = "evaluate", !.sess = r, !.tainted = r.tainted] \in Local
    <3> HIDE DEF r
    <3> QED BY <1>h, <2>0 DEF Local, PC
  <2>2. loc' \in [Handler -> Local]
    BY <1>0, <1>2, <1>ret, <2>1, BecomeKeepsLocals, GotoKeepsLocals DEF GetSession, PC
  <2> QED BY <1>0, <1>2, <2>2 DEF GetSession, TypeOK
<1>3. ASSUME NEW h \in Handler, CreateSession(h) PROVE TypeOK'
  <2>1. [loc[h] EXCEPT !.pc = "evaluate", !.sess = NewRow, !.tainted = FALSE] \in Local
    BY <1>h, RowsAreTyped DEF Local, PC
  <2>2. loc' \in [Handler -> Local]
    BY <1>0, <1>3, <1>ret, <2>1, BecomeKeepsLocals DEF CreateSession
  <2>3. row' \in [Session -> Row]
    BY <1>0, <1>3, RowsAreTyped DEF CreateSession
  <2> QED BY <1>0, <1>3, <2>2, <2>3 DEF CreateSession, TypeOK
<1>4. ASSUME NEW h \in Handler, EvaluateSequence(h) PROVE TypeOK'
  <2>1. SnapshotVerdict(h) \in Verdict
    BY <1>h, StagesReturnVerdicts DEF SnapshotVerdict, Chain
  <2>2. SequenceEvaluator(loc[h].tool, Pol, events[loc[h].session]) \in Verdict
    BY <1>h, StagesReturnVerdicts
  <2>3. PICK v \in Verdict : Judge(h, v, "ratelimit")
    BY <1>4, <2>1, <2>2 DEF EvaluateSequence, Verdicts, Verdict
  <2>4. loc' \in [Handler -> Local]
    BY <2>3, JudgeKeepsLocals
  <2> QED BY <1>0, <1>4, <2>4 DEF EvaluateSequence, TypeOK
<1>5. ASSUME NEW h \in Handler, EvaluateRateLimit(h) PROVE TypeOK'
  <2>1. /\ ContentEvaluator(loc[h].tool, loc[h].args, Pol) \in Verdict
        /\ RateLimitEvaluator(loc[h].tool, loc[h].requestedAt, Pol,
                              events[loc[h].session]) \in Verdict
    BY <1>h, StagesReturnVerdicts
  <2>2. PICK v \in Verdict : Judge(h, v, "escalation")
    BY <1>5, <2>1 DEF EvaluateRateLimit, Verdicts, Verdict
  <2>3. loc' \in [Handler -> Local]
    BY <2>2, JudgeKeepsLocals
  <2> QED BY <1>0, <1>5, <2>3 DEF EvaluateRateLimit, TypeOK
<1>6. ASSUME NEW h \in Handler, EvaluateEscalation(h) PROVE TypeOK'
  <2>1. EscalationEvaluator(loc[h].tool, loc[h].args, Pol,
            HasApprovedEscalation(loc[h].session, loc[h].tool, loc[h].args)) \in Verdict
    BY <1>h, StagesReturnVerdicts
  <2>2. PICK v \in Verdict : Judge(h, v, "append")
    BY <1>6, <2>1 DEF EvaluateEscalation, Verdicts, Verdict
  <2>3. loc' \in [Handler -> Local]
    BY <2>2, JudgeKeepsLocals
  <2> QED BY <1>0, <1>6, <2>3 DEF EvaluateEscalation, TypeOK
<1>7. ASSUME NEW h \in Handler, AppendEvent(h) PROVE TypeOK'
  <2> DEFINE s == loc[h].session
  <2>1. Len(events[s]) + 1 \in Nat
    BY <1>0, <1>h
  <2>2. [loc[h] EXCEPT !.pc = "audit", !.seq = Len(events[s]) + 1] \in Local
    BY <1>h, <2>1 DEF Local, PC
  <2>3. loc' \in [Handler -> Local]
    BY <1>0, <1>7, <1>ret, <2>2, BecomeKeepsLocals DEF AppendEvent
  <2>4. ASSUME NEW at \in loc[h].decidedAt .. clock
        PROVE  Append(events[s], [tool |-> loc[h].tool, args |-> loc[h].args,
                                  action |-> loc[h].action, at |-> at]) \in Seq(Event)
    <3>1. at \in Nat
      BY <1>0, <1>h
    <3>2. [tool |-> loc[h].tool, args |-> loc[h].args,
           action |-> loc[h].action, at |-> at] \in Event
      BY <1>h, <3>1 DEF Event
    <3> QED BY <1>0, <1>h, <3>2
  <2>5. events' \in [Session -> Seq(Event)]
    BY <1>0, <1>h, <1>7, <2>4 DEF AppendEvent
  <2> QED BY <1>0, <1>7, <2>3, <2>5 DEF AppendEvent, TypeOK
<1>8. ASSUME NEW h \in Handler, WriteAudit(h) PROVE TypeOK'
  <2> DEFINE next == IF loc[h].tainted # loc[h].sess.tainted THEN "taint" ELSE "respond"
  <2>1. next \in PC
    BY DEF PC
  <2>2. [loc[h] EXCEPT !.pc = next, !.auditFailed = TRUE] \in Local
    <3> HIDE DEF next
    <3> QED BY <1>h, <2>1 DEF Local
  <2>3. loc' \in [Handler -> Local]
    BY <1>0, <1>8, <2>1, <2>2, BecomeKeepsLocals, GotoKeepsLocals DEF WriteAudit
  <2>4. audit' \subseteq AuditRec
    <3>1. [session |-> loc[h].session, seq |-> loc[h].seq, tool |-> loc[h].tool,
           action |-> loc[h].action] \in AuditRec
      BY <1>h DEF AuditRec
    <3> QED BY <1>0, <1>8, <3>1 DEF WriteAudit
  <2> QED BY <1>0, <1>8, <2>3, <2>4 DEF WriteAudit, TypeOK
<1>9. ASSUME NEW h \in Handler, UpdateSessionTaint(h) PROVE TypeOK'
  <2>1. loc' \in [Handler -> Local]
    BY <1>0, <1>9, <1>ret, GotoKeepsLocals DEF UpdateSessionTaint, PC
  <2>2. row' \in [Session -> Row]
    <3>1. [row[loc[h].session] EXCEPT !.tainted = loc[h].tainted] \in Row
      BY <1>0, <1>h DEF Row
    <3> QED BY <1>0, <1>h, <1>9, <3>1 DEF UpdateSessionTaint
  <2> QED BY <1>0, <1>9, <2>1, <2>2 DEF UpdateSessionTaint, TypeOK
<1>10. ASSUME NEW h \in Handler, Refuse(h) PROVE TypeOK'
  BY <1>0, <1>10, <1>ret DEF Refuse, TypeOK
<1>11. ASSUME NEW h \in Handler, IncrementSessionCounters(h) PROVE TypeOK'
  <2> DEFINE s == loc[h].session
  <2>1. loc' \in [Handler -> Local]
    BY <1>0, <1>11, GotoKeepsLocals DEF IncrementSessionCounters, PC
  <2>2. row' \in [Session -> Row] /\ uncounted' \in [Session -> Nat]
    <3> DEFINE r == [row[s] EXCEPT !.calls = row[s].calls + 1, !.cost = row[s].cost + 1]
    <3>1. r \in Row
      <4>1. row[s] \in Row
        BY <1>0, <1>h
      <4>2. row[s].calls + 1 \in Nat /\ row[s].cost + 1 \in Nat
        BY <4>1 DEF Row
      <4> QED BY <4>1, <4>2 DEF Row
    <3>2. row' = [row EXCEPT ![s] = r] \/ row' = row
      BY <1>11 DEF IncrementSessionCounters
    <3>3. uncounted' = [uncounted EXCEPT ![s] = @ + 1] \/ uncounted' = uncounted
      BY <1>11 DEF IncrementSessionCounters
    <3>4. row' \in [Session -> Row]
      <4> HIDE DEF r
      <4> QED BY <1>0, <3>1, <3>2
    <3>5. uncounted' \in [Session -> Nat]
      <4>1. s \in Session /\ uncounted[s] + 1 \in Nat
        BY <1>0, <1>h
      <4> HIDE DEF s
      <4> QED BY <1>0, <3>3, <4>1
    <3> QED BY <3>4, <3>5
  <2> QED BY <1>0, <1>11, <2>1, <2>2 DEF IncrementSessionCounters, TypeOK
<1>12. ASSUME NEW h \in Handler, Forward(h) PROVE TypeOK'
  <2>1. forwarded' \in [Session -> SUBSET Nat]
    BY <1>0, <1>h, <1>12 DEF Forward
  <2> QED BY <1>0, <1>12, <1>ret, <2>1 DEF Forward, TypeOK
<1>13. ASSUME NEW h \in Handler, CreateEscalation(h) PROVE TypeOK'
  <2>1. [session |-> loc[h].session, seq |-> loc[h].seq, tool |-> loc[h].tool,
         args |-> loc[h].args, status |-> "pending"] \in EscRec
    BY <1>h DEF EscRec
  <2>2. escalations' \in Seq(EscRec)
    <3> DEFINE e == [session |-> loc[h].session, seq |-> loc[h].seq,
                     tool |-> loc[h].tool, args |-> loc[h].args, status |-> "pending"]
    <3>1. escalations' = Append(escalations, e) \/ escalations' = escalations
      BY <1>13 DEF CreateEscalation
    <3> HIDE DEF e
    <3>2. e \in EscRec
      BY <2>1 DEF e
    <3>3. Append(escalations, e) \in Seq(EscRec)
      BY <1>0, <3>2
    <3> QED BY <1>0, <3>1, <3>3
  <2> QED BY <1>0, <1>13, <1>ret, <2>2 DEF CreateEscalation, TypeOK
<1>14. ASSUME NEW s \in Session, TerminateSession(s) PROVE TypeOK'
  <2>1. row' \in [Session -> Row]
    <3>1. [row[s] EXCEPT !.terminated = TRUE] \in Row
      BY <1>0 DEF Row
    <3> QED BY <1>0, <1>14, <3>1 DEF TerminateSession
  <2> QED BY <1>0, <1>14, <2>1 DEF TerminateSession, TypeOK
<1>15. ASSUME NEW i \in 1..Len(escalations), NEW st \in {"approved", "rejected"},
              resolveEscalation(i, st)
       PROVE  TypeOK'
  <2>1. [escalations[i] EXCEPT !.status = st] \in EscRec
    <3>1. escalations[i] \in EscRec
      BY <1>0, ElementOfSeq
    <3> QED BY <3>1 DEF EscRec
  <2>2. escalations' \in Seq(EscRec)
    BY <1>0, <1>15, <2>1, ExceptSeq DEF resolveEscalation
  <2> QED BY <1>0, <1>15, <2>2 DEF resolveEscalation, TypeOK
<1>16. ASSUME Crash PROVE TypeOK'
  BY <1>0, <1>16, IdleIsLocal DEF Crash, TypeOK
<1>17. ASSUME Tick PROVE TypeOK'
  BY <1>0, <1>17 DEF Tick, TypeOK
<1>18. ASSUME UNCHANGED vars PROVE TypeOK'
  BY <1>0, <1>18 DEF vars, TypeOK
<1> QED
  BY <1>1, <1>2, <1>3, <1>4, <1>5, <1>6, <1>7, <1>8, <1>9, <1>10, <1>11, <1>12,
     <1>13, <1>14, <1>15, <1>16, <1>17, <1>18 DEF Next, HandlerStep

\* The tables and the handlers' variables keep their types.
THEOREM TypeCorrect == Spec => []TypeOK
BY TypeInit, TypeStep, PTL DEF Spec

-----------------------------------------------------------------------------
(* How a handler moves on.  The invariants about handlers that are in the    *)
(* middle of a request are proved from this summary of HandlerStep.          *)

\* The local state k may be followed by l, for the same request: what the
\* handler learned in that step, by the place it was at.
Moves(k, l) ==
    /\ l.session = k.session /\ l.tool = k.tool /\ l.args = k.args
    /\ l.requestedAt = k.requestedAt
    /\ \/ k.pc = "load" /\ l.pc = "create"
       \/ /\ k.pc = "load" /\ l.pc = "evaluate"
          /\ row[k.session].exists /\ ~ row[k.session].terminated
          /\ l.sess = row[k.session] /\ l.tainted = l.sess.tainted
       \/ /\ k.pc = "create" /\ l.pc = "evaluate"
          /\ ~ row[k.session].exists
          /\ l.sess = NewRow /\ l.tainted = l.sess.tainted
       \/ /\ k.pc = "evaluate" /\ l.pc = "ratelimit"
          /\ SequenceEvaluator(k.tool, Pol, events[k.session]) = "allow"
          /\ l.sess = k.sess /\ l.tainted = k.tainted
       \/ /\ k.pc = "ratelimit" /\ l.pc = "escalation"
          /\ RateLimitEvaluator(k.tool, k.requestedAt, Pol, events[k.session]) = "allow"
          /\ l.sess = k.sess /\ l.tainted = k.tainted
       \/ /\ k.pc \in {"evaluate", "ratelimit", "escalation"} /\ l.pc = "append"
          /\ l.action = "allow" => k.pc = "escalation"
          /\ l.decidedAt = clock /\ l.sess = k.sess
          /\ l.tainted = IF l.action = "allow"
                         THEN applyTaintMutations(k.tool, k.tainted, Pol)
                         ELSE k.tainted
       \/ /\ k.pc = "append" /\ l.pc = "audit" /\ l.seq = Len(events[k.session]) + 1
          /\ l.action = k.action /\ l.sess = k.sess /\ l.tainted = k.tainted
       \/ /\ k.pc = "audit"
          /\ l.pc = IF k.tainted # k.sess.tainted THEN "taint" ELSE "respond"
          /\ l.seq = k.seq
          /\ l.action = k.action /\ l.sess = k.sess /\ l.tainted = k.tainted
       \/ /\ \/ k.pc = "taint" /\ l.pc = "respond"
             \/ k.pc = "respond" /\ l.pc = "forward"
          /\ l.seq = k.seq
          /\ l.action = k.action /\ l.sess = k.sess /\ l.tainted = k.tainted

\* One stage of the pipeline, for the verdict it ended with.
LEMMA JudgeMoves ==
    ASSUME TypeOK, NEW h \in Handler, NEW v \in Verdict,
           NEW p \in {"ratelimit", "escalation", "append"}, Judge(h, v, p),
           \/ loc[h].pc = "evaluate" /\ p = "ratelimit"
           \/ loc[h].pc = "ratelimit" /\ p = "escalation"
           \/ loc[h].pc = "escalation" /\ p = "append",
           v = "allow" /\ p = "ratelimit" =>
              SequenceEvaluator(loc[h].tool, Pol, events[loc[h].session]) = "allow",
           v = "allow" /\ p = "escalation" =>
              RateLimitEvaluator(loc[h].tool, loc[h].requestedAt, Pol,
                                 events[loc[h].session]) = "allow"
    PROVE  Moves(loc[h], loc'[h]) /\ \A g \in Handler \ {h} : loc'[g] = loc[g]
<1>0. loc \in [Handler -> Local] /\ loc[h] \in Local /\ loc[h].tool \in Tool
  BY DEF TypeOK, Local
<1>1. CASE v = "allow" /\ p # "append"
  <2>1. loc' = [loc EXCEPT ![h] = [loc[h] EXCEPT !.pc = p]]
    BY <1>1 DEF Judge, Goto, Become
  <2>2. loc'[h] = [loc[h] EXCEPT !.pc = p] /\ \A g \in Handler \ {h} : loc'[g] = loc[g]
    BY <1>0, <2>1
  <2>3. /\ loc'[h].pc = p /\ loc'[h].session = loc[h].session
        /\ loc'[h].tool = loc[h].tool /\ loc'[h].args = loc[h].args
        /\ loc'[h].requestedAt = loc[h].requestedAt
        /\ loc'[h].sess = loc[h].sess /\ loc'[h].tainted = loc[h].tainted
    BY <1>0, <2>2 DEF Local
  <2> QED BY <1>1, <2>2, <2>3 DEF Moves
<1>2. CASE ~ (v = "allow" /\ p # "append")
  <2> DEFINE t == IF v = "allow"
                  THEN applyTaintMutations(loc[h].tool, loc[h].tainted, Pol)
                  ELSE loc[h].tainted
             d == Decide(v, loc[h].tool, Pol)
             l == [loc[h] EXCEPT !.pc = "append", !.decidedAt = clock,
                                 !.action = d, !.tainted = t]
  <2>1. loc' = [loc EXCEPT ![h] = l]
    BY <1>2 DEF Judge, Become
  <2>2. d = "allow" <=> v = "allow"
    BY <1>0, DecideIsTotal
  <2>3. t = IF d = "allow" THEN applyTaintMutations(loc[h].tool, loc[h].tainted, Pol)
                           ELSE loc[h].tainted
    BY <2>2
  <2> HIDE DEF t, d
  <2>4. /\ l.pc = "append" /\ l.session = loc[h].session
        /\ l.tool = loc[h].tool /\ l.args = loc[h].args
        /\ l.requestedAt = loc[h].requestedAt /\ l.decidedAt = clock
        /\ l.sess = loc[h].sess /\ l.tainted = t /\ l.action = d
    BY <1>0 DEF Local
  <2> HIDE DEF l
  <2>5. loc'[h] = l /\ \A g \in Handler \ {h} : loc'[g] = loc[g]
    BY <1>0, <2>1
  <2> QED BY <1>2, <2>2, <2>3, <2>4, <2>5 DEF Moves
<1> QED BY <1>1, <1>2

\* Every step of a handler ends its request or is one of those moves, and no
\* step changes what another handler holds.
LEMMA HandlerMoves ==
    ASSUME TypeOK, NEW h \in Handler, HandlerStep(h)
    PROVE  /\ loc'[h] = AnIdle \/ Moves(loc[h], loc'[h])
           /\ \A g \in Handler \ {h} : loc'[g] = loc[g]
<1>0. /\ loc \in [Handler -> Local] /\ loc[h] \in Local /\ loc[h].tool \in Tool
      /\ loc[h].args \in Args /\ loc[h].session \in Session
  BY DEF TypeOK, Local
<1>1. ASSUME NEW l, Become(h, l)
      PROVE  loc'[h] = l /\ \A g \in Handler \ {h} : loc'[g] = loc[g]
  BY <1>0, <1>1 DEF Become
<1>r. ASSUME Return(h)
      PROVE  loc'[h] = AnIdle /\ \A g \in Handler \ {h} : loc'[g] = loc[g]
  BY <1>1, <1>r DEF Return
<1>2. CASE GetSession(h)
  <2> DEFINE r == row[loc[h].session]
             c == [loc[h] EXCEPT !.pc = "create"]
             l == [loc[h] EXCEPT !.pc = "evaluate", !.sess = r, !.tainted = r.tainted]
  <2>1. \/ Return(h) \/ Become(h, c)
        \/ Become(h, l) /\ r.exists /\ ~ r.terminated
    BY <1>2 DEF GetSession, Goto
  <2>2. loc[h].pc = "load"
    BY <1>2 DEF GetSession
  <2>3. /\ c.pc = "create" /\ c.session = loc[h].session /\ c.tool = loc[h].tool
        /\ c.args = loc[h].args /\ c.requestedAt = loc[h].requestedAt
    BY <1>0 DEF Local
  <2>4. /\ l.pc = "evaluate" /\ l.session = loc[h].session /\ l.tool = loc[h].tool
        /\ l.args = loc[h].args /\ l.requestedAt = loc[h].requestedAt
        /\ l.sess = r /\ l.tainted = r.tainted
    <3> HIDE DEF r
    <3> QED BY <1>0 DEF Local
  <2> HIDE DEF c, l
  <2>5. CASE Become(h, c)
    BY <1>1, <2>2, <2>3, <2>5 DEF Moves
  <2>6. CASE Become(h, l) /\ r.exists /\ ~ r.terminated
    BY <1>1, <2>2, <2>4, <2>6 DEF Moves
  <2> QED BY <1>r, <2>1, <2>5, <2>6
<1>3. CASE CreateSession(h)
  <2> DEFINE l == [loc[h] EXCEPT !.pc = "evaluate", !.sess = NewRow, !.tainted = FALSE]
  <2>1. \/ Return(h)
        \/ Become(h, l) /\ ~ row[loc[h].session].exists
    BY <1>3 DEF CreateSession
  <2>2. loc[h].pc = "create"
    BY <1>3 DEF CreateSession
  <2>3. /\ l.pc = "evaluate" /\ l.session = loc[h].session /\ l.tool = loc[h].tool
        /\ l.args = loc[h].args /\ l.requestedAt = loc[h].requestedAt
        /\ l.sess = NewRow /\ l.tainted = NewRow.tainted
    BY <1>0 DEF Local, NewRow
  <2> HIDE DEF l
  <2>4. CASE Become(h, l) /\ ~ row[loc[h].session].exists
    BY <1>1, <2>2, <2>3, <2>4 DEF Moves
  <2> QED BY <1>r, <2>1, <2>4
<1>4. CASE EvaluateSequence(h)
  <2> DEFINE w == SequenceEvaluator(loc[h].tool, Pol, events[loc[h].session])
             x == SnapshotVerdict(h)
  <2>1. x \in Verdict /\ w \in Verdict
    BY <1>0, StagesReturnVerdicts DEF SnapshotVerdict, Chain
  <2>2. PICK v : /\ Judge(h, v, "ratelimit")
                 /\ \/ x = "allow" /\ v \in {w, "error"}
                    \/ x # "allow" /\ v = x
    BY <1>4 DEF EvaluateSequence, Verdicts
  <2>3. v \in Verdict /\ (v = "allow" => w = "allow")
    <3> HIDE DEF x, w
    <3> QED BY <2>1, <2>2 DEF Verdict
  <2>4. loc[h].pc = "evaluate"
    BY <1>4 DEF EvaluateSequence
  <2> QED BY <2>2, <2>3, <2>4, JudgeMoves
<1>5. CASE EvaluateRateLimit(h)
  <2> DEFINE w == RateLimitEvaluator(loc[h].tool, loc[h].requestedAt, Pol,
                                     events[loc[h].session])
             x == ContentEvaluator(loc[h].tool, loc[h].args, Pol)
  <2>1. x \in Verdict /\ w \in Verdict
    BY <1>0, StagesReturnVerdicts
  <2>2. PICK v : /\ Judge(h, v, "escalation")
                 /\ \/ x = "allow" /\ v \in {w, "error"}
                    \/ x # "allow" /\ v = x
    BY <1>5 DEF EvaluateRateLimit, Verdicts
  <2>3. v \in Verdict /\ (v = "allow" => w = "allow")
    <3> HIDE DEF x, w
    <3> QED BY <2>1, <2>2 DEF Verdict
  <2>4. loc[h].pc = "ratelimit"
    BY <1>5 DEF EvaluateRateLimit
  <2> QED BY <2>2, <2>3, <2>4, JudgeMoves
<1>6. CASE EvaluateEscalation(h)
  <2>1. EscalationEvaluator(loc[h].tool, loc[h].args, Pol,
            HasApprovedEscalation(loc[h].session, loc[h].tool, loc[h].args)) \in Verdict
    BY <1>0, StagesReturnVerdicts
  <2>2. PICK v \in Verdict : Judge(h, v, "append")
    BY <1>6, <2>1 DEF EvaluateEscalation, Verdicts, Verdict
  <2>3. loc[h].pc = "escalation"
    BY <1>6 DEF EvaluateEscalation
  <2> QED BY <2>2, <2>3, JudgeMoves
<1>7. CASE AppendEvent(h)
  <2> DEFINE n == Len(events[loc[h].session]) + 1
             l == [loc[h] EXCEPT !.pc = "audit", !.seq = n]
  <2>1. loc[h].pc = "append" /\ (Return(h) \/ Become(h, l))
    BY <1>7 DEF AppendEvent
  <2>2. /\ l.pc = "audit" /\ l.session = loc[h].session /\ l.tool = loc[h].tool
        /\ l.args = loc[h].args /\ l.requestedAt = loc[h].requestedAt /\ l.seq = n
        /\ l.action = loc[h].action /\ l.sess = loc[h].sess /\ l.tainted = loc[h].tainted
    <3> HIDE DEF n
    <3> QED BY <1>0 DEF Local
  <2> HIDE DEF l
  <2>3. CASE Become(h, l)
    BY <1>1, <2>1, <2>2, <2>3 DEF Moves
  <2> QED BY <1>r, <2>1, <2>3
<1>8. CASE WriteAudit(h)
  <2> DEFINE p == IF loc[h].tainted # loc[h].sess.tainted THEN "taint" ELSE "respond"
             k == [loc[h] EXCEPT !.pc = p]
             l == [loc[h] EXCEPT !.pc = p, !.auditFailed = TRUE]
  <2>1. loc[h].pc = "audit" /\ (Become(h, k) \/ Become(h, l))
    BY <1>8 DEF WriteAudit, Goto
  <2>2. /\ k.pc = p /\ k.session = loc[h].session /\ k.tool = loc[h].tool
        /\ k.args = loc[h].args /\ k.requestedAt = loc[h].requestedAt
        /\ k.seq = loc[h].seq /\ k.action = loc[h].action
        /\ k.sess = loc[h].sess /\ k.tainted = loc[h].tainted
    <3> HIDE DEF p
    <3> QED BY <1>0 DEF Local
  <2>3. /\ l.pc = p /\ l.session = loc[h].session /\ l.tool = loc[h].tool
        /\ l.args = loc[h].args /\ l.requestedAt = loc[h].requestedAt
        /\ l.seq = loc[h].seq /\ l.action = loc[h].action
        /\ l.sess = loc[h].sess /\ l.tainted = loc[h].tainted
    <3> HIDE DEF p
    <3> QED BY <1>0 DEF Local
  <2> HIDE DEF k, l
  <2>4. CASE Become(h, k)
    BY <1>1, <2>1, <2>2, <2>4 DEF Moves
  <2>5. CASE Become(h, l)
    BY <1>1, <2>1, <2>3, <2>5 DEF Moves
  <2> QED BY <2>1, <2>4, <2>5
<1>9. CASE UpdateSessionTaint(h) \/ IncrementSessionCounters(h)
  <2>1. PICK p : \/ Return(h)
                 \/ /\ Become(h, [loc[h] EXCEPT !.pc = p])
                    /\ \/ loc[h].pc = "taint" /\ p = "respond"
                       \/ loc[h].pc = "respond" /\ p = "forward"
    BY <1>9 DEF UpdateSessionTaint, IncrementSessionCounters, Goto
  <2> DEFINE l == [loc[h] EXCEPT !.pc = p]
  <2>2. /\ l.pc = p /\ l.session = loc[h].session /\ l.tool = loc[h].tool
        /\ l.args = loc[h].args /\ l.requestedAt = loc[h].requestedAt
        /\ l.seq = loc[h].seq /\ l.action = loc[h].action
        /\ l.sess = loc[h].sess /\ l.tainted = loc[h].tainted
    BY <1>0 DEF Local
  <2>3. \/ Return(h)
        \/ /\ Become(h, l)
           /\ \/ loc[h].pc = "taint" /\ p = "respond"
              \/ loc[h].pc = "respond" /\ p = "forward"
    BY <2>1
  <2> HIDE DEF l
  <2>4. CASE /\ Become(h, l)
             /\ \/ loc[h].pc = "taint" /\ p = "respond"
                \/ loc[h].pc = "respond" /\ p = "forward"
    BY <1>1, <2>2, <2>4 DEF Moves
  <2> QED BY <1>r, <2>3, <2>4
<1>10. CASE Refuse(h) \/ Forward(h) \/ CreateEscalation(h)
  BY <1>r, <1>10 DEF Refuse, Forward, CreateEscalation
<1> QED BY <1>2, <1>3, <1>4, <1>5, <1>6, <1>7, <1>8, <1>9, <1>10 DEF HandlerStep

-----------------------------------------------------------------------------
(* The budget overshoot of concurrent handlers is bounded: BudgetInv is      *)
(* inductive and implies BudgetOvershootBounded.                             *)


\* The limits of the policy are numbers, and a ceiling is a positive one.
LEMMA PolicyTyped ==
    /\ Pol.maxCalls \in Nat /\ Pol.maxCost \in Nat
    /\ Ceilings \subseteq Nat \ {0}
BY ProxyAssumption DEF Policy, Ceilings

\* Sets of handlers are finite, and no larger than Handler.
LEMMA HandlersFinite ==
    ASSUME NEW S \in SUBSET Handler
    PROVE  /\ IsFiniteSet(S) /\ Cardinality(S) \in Nat
           /\ Cardinality(S) <= Cardinality(Handler)
           /\ Cardinality(Handler) \in Nat
BY ProxyAssumption, FS_Subset, FS_CardinalityType

\* A smaller set of handlers has a smaller cardinality.
LEMMA SubsetCard ==
    ASSUME NEW S \in SUBSET Handler, NEW T \in SUBSET S
    PROVE  /\ Cardinality(T) <= Cardinality(S)
           /\ Cardinality(T) \in Nat /\ Cardinality(S) \in Nat
<1>1. IsFiniteSet(S) /\ T \in SUBSET Handler
  BY HandlersFinite
<1> QED BY <1>1, HandlersFinite, FS_Subset

\* One more element adds at most one to the cardinality of a finite set.
LEMMA AddOneCard ==
    ASSUME NEW S, NEW x, IsFiniteSet(S)
    PROVE  /\ IsFiniteSet(S \cup {x}) /\ Cardinality(S \cup {x}) \in Nat
           /\ Cardinality(S \cup {x}) <= Cardinality(S) + 1
<1>1. /\ IsFiniteSet(S \cup {x}) /\ Cardinality(S) \in Nat
      /\ Cardinality(S \cup {x}) = IF x \in S THEN Cardinality(S) ELSE Cardinality(S) + 1
  BY FS_AddElement, FS_CardinalityType
<1> QED BY <1>1

\* The budget stage lets a call pass only below every ceiling.
LEMMA BudgetAllowsBelowCeilings ==
    ASSUME NEW r \in Row, r.calls = r.cost, BudgetEvaluator(r, Pol) = "allow",
           NEW m \in Ceilings
    PROVE  r.calls < m
<1>1. r.calls \in Nat
  BY DEF Row
<1>2. ~ BudgetExceeded(r, Pol)
  BY DEF BudgetEvaluator
<1> QED BY <1>1, <1>2, PolicyTyped DEF BudgetExceeded, Ceilings

\* With no session and no request the budget invariant holds.
LEMMA BudgetInit == Init => BudgetInv
<1> SUFFICES ASSUME Init PROVE BudgetInv
  OBVIOUS
<1>1. \A h \in Handler : loc[h].pc = "idle" /\ loc[h].sess = NoRow
  BY DEF Init, AnIdle, Idle
<1>2. \A s \in Session : row[s].calls = 0 /\ row[s].cost = 0
  BY DEF Init, NoRow, NewRow
<1>3. RowsConsistent
  BY <1>2 DEF RowsConsistent
<1>4. LocalsConsistent
  BY <1>1 DEF LocalsConsistent, NoRow, NewRow
<1>5. PassedBelowCeilings
  BY <1>1 DEF PassedBelowCeilings, Passed
<1>6. ClaimsBounded
  BY <1>2, PolicyTyped DEF ClaimsBounded
<1>7. ForwardsCounted
  <2> SUFFICES ASSUME NEW s \in Session
               PROVE  /\ IsFiniteSet(forwarded[s])
                      /\ Cardinality(forwarded[s]) + Cardinality(Forwarding(s))
                            <= row[s].calls + uncounted[s]
    BY DEF ForwardsCounted
  <2>1. Forwarding(s) = {} /\ forwarded[s] = {} /\ uncounted[s] = 0
    BY <1>1 DEF Forwarding, Init
  <2> QED BY <1>2, <2>1, FS_EmptySet
<1> QED BY <1>3, <1>4, <1>5, <1>6, <1>7 DEF BudgetInv

-----------------------------------------------------------------------------
(* Steps that count nothing.                                                *)

\* A step that leaves the counters alone and adds no claim and no handler
\* about to forward keeps the two bounds.
LEMMA QuietStep ==
    ASSUME TypeOK, ClaimsBounded, ForwardsCounted,
           \A s \in Session : row'[s].calls = row[s].calls,
           \A s \in Session, m \in Ceilings :
               row[s].calls >= m => Claims(s, m)' \subseteq Claims(s, m),
           \A s \in Session : Forwarding(s)' \subseteq Forwarding(s),
           forwarded' = forwarded, uncounted' = uncounted
    PROVE  ClaimsBounded' /\ ForwardsCounted'
<1>0. /\ \A s \in Session : row[s].calls \in Nat /\ uncounted[s] \in Nat
  BY DEF TypeOK, Row
<1>1. ClaimsBounded'
  <2> SUFFICES ASSUME AllEnforced, NEW s \in Session, NEW m \in Ceilings, row'[s].calls >= m
               PROVE  row'[s].calls + Cardinality(Claims(s, m)')
                          <= m + Cardinality(Handler) - 1
    BY DEF ClaimsBounded, AllEnforced, Ceilings
  <2>1. row[s].calls + Cardinality(Claims(s, m)) <= m + Cardinality(Handler) - 1
    BY DEF ClaimsBounded
  <2>2. Claims(s, m) \in SUBSET Handler /\ Claims(s, m)' \in SUBSET Claims(s, m)
    BY DEF Claims
  <2>3. /\ Cardinality(Claims(s, m)') <= Cardinality(Claims(s, m))
        /\ Cardinality(Claims(s, m)') \in Nat /\ Cardinality(Claims(s, m)) \in Nat
    BY <2>2, SubsetCard
  <2>4. Cardinality(Handler) \in Nat /\ m \in Nat
    BY HandlersFinite, PolicyTyped
  <2> QED BY <1>0, <2>1, <2>3, <2>4
<1>2. ForwardsCounted'
  <2> SUFFICES ASSUME NEW s \in Session
               PROVE  /\ IsFiniteSet(forwarded'[s])
                      /\ Cardinality(forwarded'[s]) + Cardinality(Forwarding(s)')
                            <= row'[s].calls + uncounted'[s]
    BY DEF ForwardsCounted
  <2>1. /\ IsFiniteSet(forwarded[s])
        /\ Cardinality(forwarded[s]) + Cardinality(Forwarding(s))
              <= row[s].calls + uncounted[s]
    BY DEF ForwardsCounted
  <2>2. Forwarding(s) \in SUBSET Handler /\ Forwarding(s)' \in SUBSET Forwarding(s)
    BY DEF Forwarding
  <2>3. /\ Cardinality(Forwarding(s)') <= Cardinality(Forwarding(s))
        /\ Cardinality(Forwarding(s)') \in Nat /\ Cardinality(Forwarding(s)) \in Nat
    BY <2>2, SubsetCard
  <2>4. Cardinality(forwarded[s]) \in Nat
    BY <2>1, FS_CardinalityType
  <2> QED BY <1>0, <2>1, <2>3, <2>4
<1> QED BY <1>1, <1>2
\* A step of one handler that ends in consistent local state, and keeps the
\* two counter columns of a row equal.
LEMMA ConsistentStep ==
    ASSUME TypeOK, BudgetInv, NEW h \in Handler, NEW l \in Local, Become(h, l),
           l.sess.calls = l.sess.cost,
           l.pc \in {"idle", "load", "create"} \/ row'[l.session].exists,
           AllEnforced => \A m \in Ceilings : Passed(l) => l.sess.calls < m,
           \A s \in Session : /\ row'[s].calls = row'[s].cost
                              /\ row'[s].exists \/ row'[s].calls = 0
                              /\ row[s].exists => row'[s].exists
    PROVE  RowsConsistent' /\ LocalsConsistent' /\ PassedBelowCeilings'
<1>0. loc' = [loc EXCEPT ![h] = l] /\ loc \in [Handler -> Local]
  BY DEF Become, TypeOK
<1>1. loc'[h] = l /\ \A g \in Handler : g # h => loc'[g] = loc[g]
  BY <1>0
<1>g. \A g \in Handler : loc[g].session \in Session
  BY <1>0 DEF Local
<1>2. RowsConsistent'
  BY DEF RowsConsistent
<1>3. LocalsConsistent'
  <2>1. LocalsConsistent
    BY DEF BudgetInv
  <2>2. ASSUME NEW g \in Handler
        PROVE  /\ loc'[g].sess.calls = loc'[g].sess.cost
               /\ loc'[g].pc \in {"idle", "load", "create"} \/ row'[loc'[g].session].exists
    <3>1. CASE g = h
      BY <1>1, <3>1
    <3>2. CASE g # h
      BY <1>1, <1>g, <2>1, <3>2 DEF LocalsConsistent
    <3> QED BY <3>1, <3>2
  <2> QED BY <2>2 DEF LocalsConsistent
<1>4. PassedBelowCeilings'
  <2>1. PassedBelowCeilings
    BY DEF BudgetInv
  <2>2. ASSUME AllEnforced, NEW g \in Handler, NEW m \in Ceilings, Passed(loc'[g])
        PROVE  loc'[g].sess.calls < m
    <3>1. CASE g = h
      BY <1>1, <2>2, <3>1
    <3>2. CASE g # h
      BY <1>1, <2>1, <2>2, <3>2 DEF PassedBelowCeilings
    <3> QED BY <3>1, <3>2
  <2> QED BY <2>2 DEF PassedBelowCeilings, AllEnforced, Ceilings
<1> QED BY <1>2, <1>3, <1>4

\* A handler goes on with its request, leaves it, or has just loaded its
\* counter; the counters in the table stay.
LEMMA LocalStep ==
    ASSUME TypeOK, BudgetInv, NEW h \in Handler, NEW l \in Local, Become(h, l),
           l.pc # "forward", l.sess.calls = l.sess.cost,
           l.pc \in {"idle", "load", "create"} \/ row'[l.session].exists,
           AllEnforced => \A m \in Ceilings : Passed(l) => l.sess.calls < m,
           \/ l.pc \in {"idle", "load", "create"}
           \/ /\ l.session = loc[h].session /\ l.sess.calls = loc[h].sess.calls
              /\ loc[h].pc \notin {"idle", "load", "create", "forward"}
           \/ l.sess.calls = row[l.session].calls,
           \A s \in Session : /\ row'[s].calls = row[s].calls
                              /\ row'[s].cost = row[s].cost
                              /\ row[s].exists => row'[s].exists,
           forwarded' = forwarded, uncounted' = uncounted
    PROVE  BudgetInv'
<1>0. loc' = [loc EXCEPT ![h] = l] /\ loc \in [Handler -> Local]
  BY DEF Become, TypeOK
<1>1. loc'[h] = l /\ \A g \in Handler : g # h => loc'[g] = loc[g]
  BY <1>0
<1>l. l.pc \in PC /\ l.session \in Session /\ l.sess.calls \in Nat
  BY DEF Local, Row
<1>2. RowsConsistent' /\ LocalsConsistent' /\ PassedBelowCeilings'
  <2>1. RowsConsistent
    BY DEF BudgetInv
  <2>2. \A s \in Session : /\ row'[s].calls = row'[s].cost
                           /\ row'[s].exists \/ row'[s].calls = 0
                           /\ row[s].exists => row'[s].exists
    BY <2>1 DEF RowsConsistent
  <2> QED BY <2>2, ConsistentStep
<1>5. ASSUME NEW s \in Session, NEW m \in Ceilings, row[s].calls >= m
      PROVE  Claims(s, m)' \subseteq Claims(s, m)
  <2> SUFFICES ASSUME NEW g \in Handler, loc'[g].session = s,
                      loc'[g].pc \in PC \ {"idle", "load", "create", "forward"},
                      loc'[g].sess.calls < m
               PROVE  g \in Claims(s, m)
    BY DEF Claims
  <2>1. CASE g # h
    BY <1>1, <2>1 DEF Claims
  <2>2. CASE g = h
    <3>0. loc[h].pc \in PC /\ m \in Nat /\ row[s].calls \in Nat
      BY <1>0, PolicyTyped DEF Local, TypeOK, Row
    <3>1. ~ (l.sess.calls = row[l.session].calls)
      BY <1>1, <1>l, <1>5, <2>2, <3>0
    <3> QED BY <1>1, <2>2, <3>0, <3>1 DEF Claims
  <2> QED BY <2>1, <2>2
<1>6. ASSUME NEW s \in Session PROVE Forwarding(s)' \subseteq Forwarding(s)
  BY <1>1 DEF Forwarding
<1>7. ClaimsBounded' /\ ForwardsCounted'
  BY <1>5, <1>6, QuietStep DEF BudgetInv
<1> QED BY <1>2, <1>7 DEF BudgetInv

\* A handler that answers its request leaves the budget alone.
LEMMA ReturnStep ==
    ASSUME TypeOK, BudgetInv, NEW h \in Handler, Return(h),
           \A s \in Session : /\ row'[s].calls = row[s].calls
                              /\ row'[s].cost = row[s].cost
                              /\ row[s].exists => row'[s].exists,
           forwarded' = forwarded, uncounted' = uncounted
    PROVE  BudgetInv'
<1>1. /\ AnIdle \in Local /\ AnIdle.pc = "idle"
      /\ AnIdle.sess.calls = AnIdle.sess.cost
  BY IdleIsLocal DEF AnIdle, Idle, NoRow, NewRow
<1>2. ~ Passed(AnIdle)
  BY <1>1 DEF Passed
<1> QED BY <1>1, <1>2, LocalStep DEF Return

\* The end of a pipeline stage: a call goes on, or is recorded as allowed, only
\* below the ceilings; in enforcing mode no refusal is let through.
LEMMA JudgeStep ==
    ASSUME TypeOK, BudgetInv, NEW h \in Handler, NEW v \in Verdict,
           NEW p \in {"ratelimit", "escalation", "append"}, Judge(h, v, p),
           loc[h].pc \in {"evaluate", "ratelimit", "escalation"},
           AllEnforced /\ v = "allow" => \A m \in Ceilings : loc[h].sess.calls < m,
           row' = row, forwarded' = forwarded, uncounted' = uncounted
    PROVE  BudgetInv'
<1> DEFINE t == IF v = "allow"
                THEN applyTaintMutations(loc[h].tool, loc[h].tainted, Pol)
                ELSE loc[h].tainted
           d == Decide(v, loc[h].tool, Pol)
           l == [loc[h] EXCEPT !.pc = "append", !.decidedAt = clock,
                               !.action = d, !.tainted = t]
           k == [loc[h] EXCEPT !.pc = p]
<1>0. /\ loc[h] \in Local /\ loc \in [Handler -> Local] /\ clock \in Nat
      /\ loc[h].tool \in Tool
  BY DEF TypeOK, Local
<1>1. d \in Action /\ (d = "allow" <=> v = "allow")
      /\ (AllEnforced => d # "shadow_deny")
  BY <1>0, DecideIsTotal DEF AllEnforced
<1>2. t \in BOOLEAN
  BY <1>0 DEF applyTaintMutations, Local
<1>3. loc[h].sess.calls = loc[h].sess.cost /\ row[loc[h].session].exists
  BY DEF BudgetInv, LocalsConsistent
<1>4. CASE v = "allow" /\ p # "append"
  <2>1. k \in Local /\ k.pc = p /\ k.session = loc[h].session /\ k.sess = loc[h].sess
    BY <1>0 DEF Local, PC
  <2>2. Become(h, k)
    BY <1>4 DEF Judge, Goto
  <2> HIDE DEF k
  <2>3. AllEnforced => \A m \in Ceilings : Passed(k) => k.sess.calls < m
    BY <1>4, <2>1
  <2> QED BY <1>3, <2>1, <2>2, <2>3, LocalStep
<1>5. CASE ~(v = "allow" /\ p # "append")
  <2>0. Become(h, l)
    BY <1>5 DEF Judge
  <2> HIDE DEF t, d
  <2>1. /\ l \in Local /\ l.pc = "append" /\ l.session = loc[h].session
        /\ l.sess = loc[h].sess /\ l.action = d
    BY <1>0, <1>1, <1>2 DEF Local, PC
  <2> HIDE DEF l
  <2>3. AllEnforced => \A m \in Ceilings : Passed(l) => l.sess.calls < m
    BY <1>1, <2>1 DEF Passed
  <2> QED BY <1>3, <2>0, <2>1, <2>3, LocalStep
<1> QED BY <1>4, <1>5

\* A step that only moves the program counter of a handler past the decision.
LEMMA MoveStep ==
    ASSUME TypeOK, BudgetInv, NEW h \in Handler, NEW l \in Local, Become(h, l),
           loc[h].pc \in {"append", "audit", "taint"},
           l.pc \in {"audit", "taint", "respond"},
           l.session = loc[h].session, l.sess = loc[h].sess, l.action = loc[h].action,
           \A s \in Session : /\ row'[s].calls = row[s].calls
                              /\ row'[s].cost = row[s].cost
                              /\ row[s].exists => row'[s].exists,
           forwarded' = forwarded, uncounted' = uncounted
    PROVE  BudgetInv'
<1>1. loc[h].sess.calls = loc[h].sess.cost /\ row[loc[h].session].exists
  BY DEF BudgetInv, LocalsConsistent
<1>2. row'[l.session].exists
  BY <1>1 DEF Local
<1>3. AllEnforced => \A m \in Ceilings : Passed(l) => l.sess.calls < m
  <2>1. Passed(l) => Passed(loc[h])
    BY DEF Passed
  <2> QED BY <2>1 DEF BudgetInv, PassedBelowCeilings
<1> QED BY <1>1, <1>2, <1>3, LocalStep

-----------------------------------------------------------------------------
(* The steps that count and forward.                                        *)

\* Counting a call spends the claim of its handler: the counter goes up by one
\* and the set of claims loses one; at the moment the counter reaches a
\* ceiling, at most the other handlers hold claims.
LEMMA CountingStep ==
    ASSUME TypeOK, BudgetInv, NEW h \in Handler, IncrementSessionCounters(h)
    PROVE  BudgetInv'
<1> DEFINE s == loc[h].session
           k == [loc[h] EXCEPT !.pc = "forward"]
<1>0. /\ loc[h] \in Local /\ loc \in [Handler -> Local] /\ s \in Session
      /\ row \in [Session -> Row] /\ uncounted \in [Session -> Nat]
      /\ \A u \in Session : row[u].calls \in Nat /\ row[u].cost \in Nat
  BY DEF TypeOK, Local, Row
<1>1. /\ loc[h].pc = "respond" /\ loc[h].action \in {"allow", "shadow_deny"}
      /\ Become(h, k) /\ forwarded' = forwarded
  BY DEF IncrementSessionCounters, Goto
<1>2. k \in Local /\ k.pc = "forward" /\ k.session = s /\ k.sess = loc[h].sess
  BY <1>0 DEF Local, PC
<1>3. loc' = [loc EXCEPT ![h] = k]
  BY <1>1 DEF Become
<1> HIDE DEF k
<1>4. loc'[h] = k /\ \A g \in Handler : g # h => loc'[g] = loc[g]
  BY <1>0, <1>3
<1>5. Passed(loc[h]) /\ row[s].exists /\ loc[h].sess.calls = loc[h].sess.cost
  BY <1>1 DEF Passed, BudgetInv, LocalsConsistent
<1>6. \/ /\ row' = [row EXCEPT ![s] = [row[s] EXCEPT !.calls = row[s].calls + 1,
                                                     !.cost = row[s].cost + 1]]
         /\ uncounted' = uncounted
      \/ /\ uncounted' = [uncounted EXCEPT ![s] = uncounted[s] + 1]
         /\ row' = row
  BY DEF IncrementSessionCounters
<1> HIDE DEF s
<1>7. /\ \A u \in Session : u # s => row'[u] = row[u] /\ uncounted'[u] = uncounted[u]
      /\ row'[s].exists = row[s].exists
      /\ \/ /\ row'[s].calls = row[s].calls + 1 /\ row'[s].cost = row[s].cost + 1
            /\ uncounted'[s] = uncounted[s]
         \/ row'[s] = row[s] /\ uncounted'[s] = uncounted[s] + 1
  <2>1. row[s] \in Row
    BY <1>0
  <2>2. CASE row' = row /\ uncounted' = [uncounted EXCEPT ![s] = uncounted[s] + 1]
    BY <1>0, <2>2
  <2> DEFINE r == [row[s] EXCEPT !.calls = row[s].calls + 1, !.cost = row[s].cost + 1]
  <2>3. CASE row' = [row EXCEPT ![s] = r] /\ uncounted' = uncounted
    <3>1. r.exists = row[s].exists /\ r.calls = row[s].calls + 1 /\ r.cost = row[s].cost + 1
      BY <2>1 DEF Row
    <3> HIDE DEF r
    <3> QED BY <1>0, <2>3, <3>1
  <2> QED BY <1>6, <2>2, <2>3
<1>8. RowsConsistent' /\ LocalsConsistent' /\ PassedBelowCeilings'
  <2>1. RowsConsistent
    BY DEF BudgetInv
  <2>2. \A u \in Session : /\ row'[u].calls = row'[u].cost
                           /\ row'[u].exists \/ row'[u].calls = 0
                           /\ row[u].exists => row'[u].exists
    BY <1>0, <1>5, <1>7, <2>1 DEF RowsConsistent
  <2>3. ~ Passed(k)
    BY <1>2 DEF Passed
  <2> QED BY <1>0, <1>1, <1>2, <1>5, <1>7, <2>2, <2>3, ConsistentStep
<1>9. ClaimsBounded'
  <2> SUFFICES ASSUME AllEnforced, NEW u \in Session, NEW m \in Ceilings, row'[u].calls >= m
               PROVE  row'[u].calls + Cardinality(Claims(u, m)')
                          <= m + Cardinality(Handler) - 1
    BY DEF ClaimsBounded, AllEnforced, Ceilings
  <2>0. /\ m \in Nat /\ Cardinality(Handler) \in Nat
        /\ Cardinality(Claims(u, m)) \in Nat /\ Cardinality(Claims(u, m)') \in Nat
    <3>1. Claims(u, m) \in SUBSET Handler /\ Claims(u, m)' \in SUBSET Handler
      BY DEF Claims
    <3> QED BY <3>1, PolicyTyped, HandlersFinite
  <2>1. row[u].calls >= m =>
            row[u].calls + Cardinality(Claims(u, m)) <= m + Cardinality(Handler) - 1
    BY DEF BudgetInv, ClaimsBounded
  <2>2. Claims(u, m)' \subseteq Claims(u, m) \ (IF u = s THEN {h} ELSE {})
    <3> SUFFICES ASSUME NEW g \in Claims(u, m)'
                 PROVE  g \in Claims(u, m) /\ (u = s => g # h)
      OBVIOUS
    <3>1. g \in Handler /\ g # h
      BY <1>2, <1>4 DEF Claims
    <3>2. loc'[g] = loc[g]
      BY <1>4, <3>1
    <3> QED BY <3>1, <3>2 DEF Claims
  <2>3. CASE u # s
    <3>1. Cardinality(Claims(u, m)') <= Cardinality(Claims(u, m))
      <4>1. Claims(u, m) \in SUBSET Handler /\ Claims(u, m)' \in SUBSET Claims(u, m)
        BY <2>2 DEF Claims
      <4> QED BY <4>1, SubsetCard
    <3> QED BY <1>0, <1>7, <2>0, <2>1, <2>3, <3>1
  <2>4. CASE u = s
    <3>1. h \in Claims(s, m)
      <4>1. loc[h].sess.calls < m
        BY <1>5 DEF BudgetInv, PassedBelowCeilings
      <4> QED BY <1>1, <4>1 DEF Claims, PC, s
    <3>2. Cardinality(Claims(u, m)') <= Cardinality(Claims(u, m)) - 1
      <4>1. IsFiniteSet(Claims(u, m))
        <5>1. Claims(u, m) \in SUBSET Handler
          BY DEF Claims
        <5> QED BY <5>1, HandlersFinite
      <4>2. /\ Cardinality(Claims(u, m) \ {h}) = Cardinality(Claims(u, m)) - 1
            /\ IsFiniteSet(Claims(u, m) \ {h})
        BY <2>4, <3>1, <4>1, FS_RemoveElement
      <4>3. Claims(u, m)' \subseteq Claims(u, m) \ {h}
        BY <2>2, <2>4
      <4> QED BY <4>2, <4>3, FS_Subset
    <3>3. Cardinality(Claims(u, m)) <= Cardinality(Handler)
      <4>1. Claims(u, m) \in SUBSET Handler
        BY DEF Claims
      <4> QED BY <4>1, HandlersFinite
    <3> QED BY <1>0, <1>7, <2>0, <2>1, <2>4, <3>2, <3>3
  <2> QED BY <2>3, <2>4
<1>10. ForwardsCounted'
  <2> SUFFICES ASSUME NEW u \in Session
               PROVE  /\ IsFiniteSet(forwarded'[u])
                      /\ Cardinality(forwarded'[u]) + Cardinality(Forwarding(u)')
                            <= row'[u].calls + uncounted'[u]
    BY DEF ForwardsCounted
  <2>1. /\ IsFiniteSet(forwarded[u])
        /\ Cardinality(forwarded[u]) + Cardinality(Forwarding(u))
              <= row[u].calls + uncounted[u]
    BY DEF BudgetInv, ForwardsCounted
  <2>2. Cardinality(forwarded[u]) \in Nat
    BY <2>1, FS_CardinalityType
  <2>3. Forwarding(u) \in SUBSET Handler /\ Forwarding(u)' \in SUBSET Handler
    BY DEF Forwarding
  <2>4. /\ IsFiniteSet(Forwarding(u)) /\ Cardinality(Forwarding(u)) \in Nat
        /\ Cardinality(Forwarding(u)') \in Nat
    BY <2>3, HandlersFinite
  <2>5. CASE u # s
    <3>1. Forwarding(u)' \in SUBSET Forwarding(u)
      BY <1>2, <1>4, <2>5 DEF Forwarding
    <3>2. Cardinality(Forwarding(u)') <= Cardinality(Forwarding(u))
      BY <2>3, <3>1, SubsetCard
    <3> QED BY <1>0, <1>1, <1>7, <2>1, <2>2, <2>4, <2>5, <3>2
  <2>6. CASE u = s
    <3>1. Forwarding(u)' \subseteq Forwarding(u) \cup {h}
      BY <1>4 DEF Forwarding
    <3>2. /\ Cardinality(Forwarding(u) \cup {h}) <= Cardinality(Forwarding(u)) + 1
          /\ IsFiniteSet(Forwarding(u) \cup {h})
          /\ Cardinality(Forwarding(u) \cup {h}) \in Nat
      BY <2>4, AddOneCard
    <3>3. Cardinality(Forwarding(u)') <= Cardinality(Forwarding(u)) + 1
      <4>1. Cardinality(Forwarding(u)') <= Cardinality(Forwarding(u) \cup {h})
        BY <3>1, <3>2, FS_Subset
      <4> QED BY <2>4, <3>2, <4>1
    <3> QED BY <1>0, <1>1, <1>7, <2>1, <2>2, <2>4, <2>6, <3>3
  <2> QED BY <2>5, <2>6
<1> QED BY <1>8, <1>9, <1>10 DEF BudgetInv

\* Forwarding a call moves it from the handlers about to forward to the calls
\* forwarded.
LEMMA ForwardingStep ==
    ASSUME TypeOK, BudgetInv, NEW h \in Handler, Forward(h)
    PROVE  BudgetInv'
<1> DEFINE s == loc[h].session
<1>0. /\ loc[h] \in Local /\ loc \in [Handler -> Local] /\ s \in Session
      /\ forwarded \in [Session -> SUBSET Nat]
      /\ \A u \in Session : row[u].calls \in Nat /\ uncounted[u] \in Nat
  BY DEF TypeOK, Local, Row
<1>1. /\ loc[h].pc = "forward" /\ Become(h, AnIdle) /\ row' = row
      /\ uncounted' = uncounted
      /\ forwarded' = [forwarded EXCEPT ![s] = forwarded[s] \cup {loc[h].seq}]
  BY DEF Forward, Return
<1>2. /\ AnIdle \in Local /\ AnIdle.pc = "idle"
      /\ AnIdle.sess.calls = AnIdle.sess.cost
  BY IdleIsLocal DEF AnIdle, Idle, NoRow, NewRow
<1>3. loc'[h] = AnIdle /\ \A g \in Handler : g # h => loc'[g] = loc[g]
  BY <1>0, <1>1 DEF Become
<1>4. RowsConsistent' /\ LocalsConsistent' /\ PassedBelowCeilings'
  <2>1. RowsConsistent
    BY DEF BudgetInv
  <2>2. ~ Passed(AnIdle)
    BY <1>2 DEF Passed
  <2>3. \A u \in Session : /\ row'[u].calls = row'[u].cost
                           /\ row'[u].exists \/ row'[u].calls = 0
                           /\ row[u].exists => row'[u].exists
    BY <1>1, <2>1 DEF RowsConsistent
  <2> QED BY <1>1, <1>2, <2>2, <2>3, ConsistentStep
<1>5. ClaimsBounded'
  <2> SUFFICES ASSUME AllEnforced, NEW u \in Session, NEW m \in Ceilings, row'[u].calls >= m
               PROVE  row'[u].calls + Cardinality(Claims(u, m)')
                          <= m + Cardinality(Handler) - 1
    BY DEF ClaimsBounded, AllEnforced, Ceilings
  <2>1. row[u].calls + Cardinality(Claims(u, m)) <= m + Cardinality(Handler) - 1
    BY <1>1 DEF BudgetInv, ClaimsBounded
  <2>2. Claims(u, m) \in SUBSET Handler /\ Claims(u, m)' \in SUBSET Claims(u, m)
    BY <1>2, <1>3 DEF Claims
  <2>3. /\ Cardinality(Claims(u, m)') <= Cardinality(Claims(u, m))
        /\ Cardinality(Claims(u, m)') \in Nat /\ Cardinality(Claims(u, m)) \in Nat
    BY <2>2, SubsetCard
  <2>4. Cardinality(Handler) \in Nat /\ m \in Nat
    BY HandlersFinite, PolicyTyped
  <2> QED BY <1>0, <1>1, <2>1, <2>3, <2>4
<1>6. ForwardsCounted'
  <2> SUFFICES ASSUME NEW u \in Session
               PROVE  /\ IsFiniteSet(forwarded'[u])
                      /\ Cardinality(forwarded'[u]) + Cardinality(Forwarding(u)')
                            <= row'[u].calls + uncounted'[u]
    BY DEF ForwardsCounted
  <2>1. /\ IsFiniteSet(forwarded[u])
        /\ Cardinality(forwarded[u]) + Cardinality(Forwarding(u))
              <= row[u].calls + uncounted[u]
    BY DEF BudgetInv, ForwardsCounted
  <2>2. Cardinality(forwarded[u]) \in Nat
    BY <2>1, FS_CardinalityType
  <2>3. Forwarding(u) \in SUBSET Handler /\ Forwarding(u)' \in SUBSET Forwarding(u)
    BY <1>2, <1>3 DEF Forwarding
  <2>4. /\ IsFiniteSet(Forwarding(u)) /\ Cardinality(Forwarding(u)) \in Nat
        /\ Cardinality(Forwarding(u)') \in Nat
        /\ Cardinality(Forwarding(u)') <= Cardinality(Forwarding(u))
    BY <2>3, HandlersFinite, SubsetCard
  <2>5. CASE u # s
    <3>1. forwarded'[u] = forwarded[u]
      BY <1>0, <1>1, <2>5
    <3>2. row'[u].calls = row[u].calls /\ uncounted'[u] = uncounted[u]
      BY <1>1
    <3> QED BY <1>0, <2>1, <2>2, <2>4, <3>1, <3>2
  <2>6. CASE u = s
    <3>1. h \in Forwarding(u) /\ Forwarding(u)' \subseteq Forwarding(u) \ {h}
      <4>1. h \in Forwarding(u)
        BY <1>1, <2>6 DEF Forwarding
      <4>2. h \notin Forwarding(u)'
        BY <1>2, <1>3 DEF Forwarding
      <4> QED BY <2>3, <4>1, <4>2
    <3>2. /\ Cardinality(Forwarding(u) \ {h}) = Cardinality(Forwarding(u)) - 1
          /\ IsFiniteSet(Forwarding(u) \ {h})
      BY <2>4, <3>1, FS_RemoveElement
    <3>3. Cardinality(Forwarding(u)') <= Cardinality(Forwarding(u)) - 1
      BY <3>1, <3>2, FS_Subset
    <3>4. forwarded'[u] = forwarded[u] \cup {loc[h].seq}
      BY <1>0, <1>1, <2>6
    <3>5. /\ Cardinality(forwarded'[u]) <= Cardinality(forwarded[u]) + 1
          /\ Cardinality(forwarded'[u]) \in Nat /\ IsFiniteSet(forwarded'[u])
      BY <2>1, <3>4, AddOneCard
    <3> QED BY <1>0, <1>1, <2>1, <2>2, <2>4, <3>3, <3>5
  <2> QED BY <2>5, <2>6
<1> QED BY <1>4, <1>5, <1>6 DEF BudgetInv

-----------------------------------------------------------------------------
(* The invariant.                                                           *)

\* The budget stage ran: if the stages up to Taint allowed, the snapshot was
\* below every ceiling.
LEMMA SnapshotBelowCeilings ==
    ASSUME TypeOK, BudgetInv, NEW h \in Handler, SnapshotVerdict(h) = "allow",
           NEW m \in Ceilings
    PROVE  loc[h].sess.calls < m
<1>1. BudgetEvaluator(loc[h].sess, Pol) = "allow"
  BY DEF SnapshotVerdict, Chain
<1>2. loc[h].sess \in Row /\ loc[h].sess.calls = loc[h].sess.cost
  BY DEF TypeOK, Local, BudgetInv, LocalsConsistent
<1> QED BY <1>1, <1>2, BudgetAllowsBelowCeilings

\* Every step of every actor keeps the invariant.
LEMMA BudgetStep == TypeOK /\ BudgetInv /\ [Next]_vars => BudgetInv'
<1> SUFFICES ASSUME TypeOK, BudgetInv, [Next]_vars PROVE BudgetInv'
  OBVIOUS
<1>0. /\ row \in [Session -> Row] /\ loc \in [Handler -> Local]
      /\ \A h \in Handler : loc[h] \in Local /\ loc[h].session \in Session
      /\ events \in [Session -> Seq(Event)] /\ clock \in Nat
  BY DEF TypeOK, Local
<1>c. RowsConsistent /\ LocalsConsistent /\ PassedBelowCeilings
  BY DEF BudgetInv
<1>1. ASSUME NEW h \in Handler, NEW s \in Session, NEW t \in Tool, NEW a \in Args,
             Receive(h, s, t, a)
      PROVE  BudgetInv'
  <2> DEFINE l == [Idle(s, t, a) EXCEPT !.pc = "load", !.requestedAt = clock]
  <2>1. l \in Local /\ l.pc = "load" /\ l.sess.calls = l.sess.cost
    BY <1>0, RowsAreTyped DEF Idle, Local, PC, Action, NoRow, NewRow
  <2>2. Become(h, l) /\ row' = row /\ forwarded' = forwarded /\ uncounted' = uncounted
    BY <1>1 DEF Receive
  <2> HIDE DEF l
  <2>3. ~ Passed(l)
    BY <2>1 DEF Passed
  <2> QED BY <2>1, <2>2, <2>3, LocalStep
<1>2. ASSUME NEW h \in Handler, GetSession(h) PROVE BudgetInv'
  <2> DEFINE r == row[loc[h].session]
             k == [loc[h] EXCEPT !.pc = "create"]
             l == [loc[h] EXCEPT !.pc = "evaluate", !.sess = r, !.tainted = r.tainted]
  <2>0. row' = row /\ forwarded' = forwarded /\ uncounted' = uncounted
    BY <1>2 DEF GetSession
  <2>1. CASE Become(h, k)
    <3>1. k \in Local /\ k.pc = "create" /\ k.sess.calls = k.sess.cost
      BY <1>0, <1>c DEF Local, PC, LocalsConsistent
    <3> HIDE DEF k
    <3>2. ~ Passed(k)
      BY <3>1 DEF Passed
    <3> QED BY <2>0, <2>1, <3>1, <3>2, LocalStep
  <2>2. CASE Return(h)
    BY <2>0, <2>2, ReturnStep
  <2>3. CASE r.exists /\ Become(h, l)
    <3>1. r \in Row /\ r.tainted \in BOOLEAN /\ r.calls = r.cost
      BY <1>0, <1>c DEF Row, RowsConsistent
    <3>2. r = row[loc[h].session]
      OBVIOUS
    <3> HIDE DEF r
    <3>3. l \in Local /\ l.pc = "evaluate" /\ l.session = loc[h].session /\ l.sess = r
      BY <1>0, <3>1 DEF Local, PC
    <3> HIDE DEF l
    <3>4. ~ Passed(l)
      BY <3>3 DEF Passed
    <3> QED BY <2>0, <2>3, <3>1, <3>2, <3>3, <3>4, LocalStep
  <2> QED BY <1>2, <2>1, <2>2, <2>3 DEF GetSession, Goto
<1>3. ASSUME NEW h \in Handler, CreateSession(h) PROVE BudgetInv'
  <2> DEFINE s == loc[h].session
             l == [loc[h] EXCEPT !.pc = "evaluate", !.sess = NewRow, !.tainted = FALSE]
  <2>0. forwarded' = forwarded /\ uncounted' = uncounted /\ s \in Session
    BY <1>0, <1>3 DEF CreateSession
  <2>1. CASE Return(h) /\ row' = row
    BY <2>0, <2>1, ReturnStep
  <2>2. CASE ~ row[s].exists /\ row' = [row EXCEPT ![s] = NewRow] /\ Become(h, l)
    <3>1. l \in Local /\ l.pc = "evaluate" /\ l.session = s /\ l.sess = NewRow
      BY <1>0, RowsAreTyped DEF Local, PC
    <3>2. row[s].calls = 0 /\ row[s].cost = 0
      BY <1>0, <1>c, <2>2 DEF RowsConsistent
    <3>3. NewRow.calls = 0 /\ NewRow.cost = 0 /\ NewRow.exists
      BY DEF NewRow
    <3> HIDE DEF l, s
    <3>4. row'[s] = NewRow /\ \A u \in Session : u # s => row'[u] = row[u]
      BY <1>0, <2>0, <2>2
    <3>5. \A u \in Session : /\ row'[u].calls = row[u].calls
                             /\ row'[u].cost = row[u].cost
                             /\ row[u].exists => row'[u].exists
      BY <3>2, <3>3, <3>4
    <3>6. ~ Passed(l)
      BY <3>1 DEF Passed
    <3> QED BY <2>0, <2>2, <3>1, <3>2, <3>3, <3>4, <3>5, <3>6, LocalStep
  <2> QED BY <1>3, <2>1, <2>2 DEF CreateSession
<1>4. ASSUME NEW h \in Handler, EvaluateSequence(h) PROVE BudgetInv'
  <2>1. /\ SnapshotVerdict(h) \in Verdict
        /\ SequenceEvaluator(loc[h].tool, Pol, events[loc[h].session]) \in Verdict
    BY <1>0, StagesReturnVerdicts DEF SnapshotVerdict, Chain, Local
  <2>2. PICK v \in Verdict : /\ Judge(h, v, "ratelimit")
                             /\ v = "allow" => SnapshotVerdict(h) = "allow"
    BY <1>4, <2>1 DEF EvaluateSequence, Verdicts, Verdict
  <2>3. v = "allow" => \A m \in Ceilings : loc[h].sess.calls < m
    BY <2>2, SnapshotBelowCeilings
  <2> QED BY <1>4, <2>2, <2>3, JudgeStep DEF EvaluateSequence
<1>5. ASSUME NEW h \in Handler, EvaluateRateLimit(h) PROVE BudgetInv'
  <2>1. /\ ContentEvaluator(loc[h].tool, loc[h].args, Pol) \in Verdict
        /\ RateLimitEvaluator(loc[h].tool, loc[h].requestedAt, Pol,
                              events[loc[h].session]) \in Verdict
    BY <1>0, StagesReturnVerdicts DEF Local
  <2>2. PICK v \in Verdict : Judge(h, v, "escalation")
    BY <1>5, <2>1 DEF EvaluateRateLimit, Verdicts, Verdict
  <2>3. AllEnforced => \A m \in Ceilings : loc[h].sess.calls < m
    BY <1>5, <1>c DEF EvaluateRateLimit, PassedBelowCeilings, Passed
  <2> QED BY <1>5, <2>2, <2>3, JudgeStep DEF EvaluateRateLimit
<1>6. ASSUME NEW h \in Handler, EvaluateEscalation(h) PROVE BudgetInv'
  <2>1. EscalationEvaluator(loc[h].tool, loc[h].args, Pol,
            HasApprovedEscalation(loc[h].session, loc[h].tool, loc[h].args)) \in Verdict
    BY <1>0, StagesReturnVerdicts DEF Local
  <2>2. PICK v \in Verdict : Judge(h, v, "append")
    BY <1>6, <2>1 DEF EvaluateEscalation, Verdicts, Verdict
  <2>3. AllEnforced => \A m \in Ceilings : loc[h].sess.calls < m
    BY <1>6, <1>c DEF EvaluateEscalation, PassedBelowCeilings, Passed
  <2> QED BY <1>6, <2>2, <2>3, JudgeStep DEF EvaluateEscalation
<1>7. ASSUME NEW h \in Handler, AppendEvent(h) PROVE BudgetInv'
  <2> DEFINE n == Len(events[loc[h].session]) + 1
             l == [loc[h] EXCEPT !.pc = "audit", !.seq = n]
  <2>0. /\ row' = row /\ forwarded' = forwarded /\ uncounted' = uncounted
        /\ loc[h].pc = "append" /\ n \in Nat
    BY <1>0, <1>7 DEF AppendEvent
  <2>1. Become(h, l) \/ Return(h)
    BY <1>7 DEF AppendEvent
  <2> HIDE DEF n
  <2>2. /\ l \in Local /\ l.pc = "audit" /\ l.session = loc[h].session
        /\ l.sess = loc[h].sess /\ l.action = loc[h].action
    BY <1>0, <2>0 DEF Local, PC
  <2> HIDE DEF l
  <2>3. CASE Become(h, l)
    BY <2>0, <2>2, <2>3, MoveStep
  <2>4. CASE Return(h)
    BY <2>0, <2>4, ReturnStep
  <2> QED BY <2>1, <2>3, <2>4
<1>8. ASSUME NEW h \in Handler, WriteAudit(h) PROVE BudgetInv'
  <2> DEFINE p == IF loc[h].tainted # loc[h].sess.tainted THEN "taint" ELSE "respond"
             k == [loc[h] EXCEPT !.pc = p]
             l == [loc[h] EXCEPT !.pc = p, !.auditFailed = TRUE]
  <2>0. /\ row' = row /\ forwarded' = forwarded /\ uncounted' = uncounted
        /\ loc[h].pc = "audit" /\ p \in {"taint", "respond"}
    BY <1>8 DEF WriteAudit
  <2>1. Become(h, l) \/ Become(h, k)
    BY <1>8 DEF WriteAudit, Goto
  <2> HIDE DEF p
  <2>2. /\ l \in Local /\ l.pc = p /\ l.session = loc[h].session
        /\ l.sess = loc[h].sess /\ l.action = loc[h].action
    BY <1>0, <2>0 DEF Local, PC
  <2>3. /\ k \in Local /\ k.pc = p /\ k.session = loc[h].session
        /\ k.sess = loc[h].sess /\ k.action = loc[h].action
    BY <1>0, <2>0 DEF Local, PC
  <2> HIDE DEF k, l
  <2> QED BY <2>0, <2>1, <2>2, <2>3, MoveStep
<1>9. ASSUME NEW h \in Handler, UpdateSessionTaint(h) PROVE BudgetInv'
  <2> DEFINE k == [loc[h] EXCEPT !.pc = "respond"]
             r == [row[loc[h].session] EXCEPT !.tainted = loc[h].tainted]
  <2>0. forwarded' = forwarded /\ uncounted' = uncounted /\ loc[h].pc = "taint"
    BY <1>9 DEF UpdateSessionTaint
  <2>1. /\ Become(h, k) \/ Return(h)
        /\ row' = row \/ row' = [row EXCEPT ![loc[h].session] = r]
    BY <1>9 DEF UpdateSessionTaint, Goto
  <2>2. /\ r.calls = row[loc[h].session].calls /\ r.cost = row[loc[h].session].cost
        /\ r.exists = row[loc[h].session].exists
    BY <1>0 DEF Row
  <2> HIDE DEF r
  <2>3. \A s \in Session : /\ row'[s].calls = row[s].calls
                           /\ row'[s].cost = row[s].cost
                           /\ row[s].exists => row'[s].exists
    BY <1>0, <2>1, <2>2
  <2>4. /\ k \in Local /\ k.pc = "respond" /\ k.session = loc[h].session
        /\ k.sess = loc[h].sess /\ k.action = loc[h].action
    BY <1>0 DEF Local, PC
  <2> HIDE DEF k
  <2>5. CASE Become(h, k)
    BY <2>0, <2>3, <2>4, <2>5, MoveStep
  <2>6. CASE Return(h)
    BY <2>0, <2>3, <2>6, ReturnStep
  <2> QED BY <2>1, <2>5, <2>6
<1>10. ASSUME NEW h \in Handler, Refuse(h) PROVE BudgetInv'
  BY <1>10, ReturnStep DEF Refuse
<1>11. ASSUME NEW h \in Handler, CreateEscalation(h) PROVE BudgetInv'
  BY <1>11, ReturnStep DEF CreateEscalation
<1>12. ASSUME NEW s \in Session, TerminateSession(s) PROVE BudgetInv'
  <2> DEFINE r == [row[s] EXCEPT !.terminated = TRUE]
  <2>1. r.calls = row[s].calls /\ r.cost = row[s].cost /\ r.exists = row[s].exists
    BY <1>0 DEF Row
  <2>2. /\ row' = [row EXCEPT ![s] = r] /\ loc' = loc
        /\ forwarded' = forwarded /\ uncounted' = uncounted
    BY <1>12 DEF TerminateSession
  <2> HIDE DEF r
  <2>3. \A u \in Session : /\ row'[u].calls = row[u].calls
                           /\ row'[u].cost = row[u].cost
                           /\ row'[u].exists = row[u].exists
    BY <1>0, <2>1, <2>2
  <2>4. RowsConsistent'
    BY <1>c, <2>3 DEF RowsConsistent
  <2>5. LocalsConsistent' /\ PassedBelowCeilings'
    BY <1>0, <1>c, <2>2, <2>3
    DEF LocalsConsistent, PassedBelowCeilings, AllEnforced, Ceilings
  <2>6. ClaimsBounded' /\ ForwardsCounted'
    BY <2>2, <2>3, QuietStep DEF BudgetInv, Claims, Forwarding
  <2> QED BY <2>4, <2>5, <2>6 DEF BudgetInv
<1>13. ASSUME Crash PROVE BudgetInv'
  <2>1. /\ \A h \in Handler : loc'[h] = AnIdle
        /\ row' = row /\ forwarded' = forwarded /\ uncounted' = uncounted
    BY <1>13 DEF Crash
  <2>2. AnIdle.pc = "idle" /\ AnIdle.sess.calls = AnIdle.sess.cost
    BY DEF AnIdle, Idle, NoRow, NewRow
  <2>3. RowsConsistent'
    BY <1>c, <2>1 DEF RowsConsistent
  <2>4. LocalsConsistent' /\ PassedBelowCeilings'
    BY <2>1, <2>2 DEF LocalsConsistent, PassedBelowCeilings, Passed
  <2>5. /\ \A s \in Session, m \in Ceilings : Claims(s, m)' \subseteq Claims(s, m)
        /\ \A s \in Session : Forwarding(s)' \subseteq Forwarding(s)
    BY <2>1, <2>2 DEF Claims, Forwarding
  <2>6. ClaimsBounded' /\ ForwardsCounted'
    BY <2>1, <2>5, QuietStep DEF BudgetInv
  <2> QED BY <2>3, <2>4, <2>6 DEF BudgetInv
<1>14. ASSUME row' = row, loc' = loc, forwarded' = forwarded, uncounted' = uncounted
       PROVE  BudgetInv'
  BY <1>14 DEF BudgetInv, RowsConsistent, LocalsConsistent, PassedBelowCeilings,
               ClaimsBounded, ForwardsCounted, Claims, Forwarding, AllEnforced, Ceilings
<1>15. ASSUME NEW i \in 1..Len(escalations), NEW st \in {"approved", "rejected"},
              resolveEscalation(i, st)
       PROVE  BudgetInv'
  BY <1>14, <1>15 DEF resolveEscalation
<1>16. ASSUME Tick PROVE BudgetInv'
  BY <1>14, <1>16 DEF Tick
<1>17. ASSUME UNCHANGED vars PROVE BudgetInv'
  BY <1>14, <1>17 DEF vars
<1> QED
  BY <1>1, <1>2, <1>3, <1>4, <1>5, <1>6, <1>7, <1>8, <1>9, <1>10, <1>11, <1>12,
     <1>13, <1>15, <1>16, <1>17, CountingStep, ForwardingStep DEF Next, HandlerStep

\* The invariant bounds the overshoot.
LEMMA BudgetInvBounds == TypeOK /\ BudgetInv => BudgetOvershootBounded
<1> SUFFICES ASSUME TypeOK, BudgetInv, AllEnforced, NEW s \in Session, NEW m \in Ceilings
             PROVE  /\ row[s].calls <= m + Cardinality(Handler) - 1
                    /\ Cardinality(forwarded[s])
                          <= m + Cardinality(Handler) - 1 + uncounted[s]
  BY DEF BudgetOvershootBounded
<1>1. /\ row[s].calls \in Nat /\ uncounted[s] \in Nat /\ m \in Nat
  BY PolicyTyped DEF TypeOK, Row
<1>2. Cardinality(Handler) \in Nat /\ Cardinality(Handler) >= 1
  BY ProxyAssumption, FS_CardinalityType, FS_EmptySet
<1>3. Claims(s, m) \in SUBSET Handler /\ Forwarding(s) \in SUBSET Handler
  BY DEF Claims, Forwarding
<1>4. Cardinality(Claims(s, m)) \in Nat /\ Cardinality(Forwarding(s)) \in Nat
  BY <1>3, HandlersFinite
<1>5. row[s].calls <= m + Cardinality(Handler) - 1
  BY <1>1, <1>2, <1>4 DEF BudgetInv, ClaimsBounded
<1>6. /\ IsFiniteSet(forwarded[s])
      /\ Cardinality(forwarded[s]) + Cardinality(Forwarding(s))
            <= row[s].calls + uncounted[s]
  BY DEF BudgetInv, ForwardsCounted
<1>7. Cardinality(forwarded[s]) \in Nat
  BY <1>6, FS_CardinalityType
<1> QED BY <1>1, <1>2, <1>4, <1>5, <1>6, <1>7

\* With every tool enforced, and whatever fails, a session is forwarded at most
\* its ceiling plus one call per other concurrent handler, plus one per lost
\* counter update.
THEOREM BudgetSafe == Spec => []BudgetOvershootBounded
<1>1. Init => TypeOK /\ BudgetInv
  BY TypeInit, BudgetInit
<1>2. (TypeOK /\ BudgetInv) /\ [Next]_vars => (TypeOK /\ BudgetInv)'
  BY TypeStep, BudgetStep
<1>3. TypeOK /\ BudgetInv => BudgetOvershootBounded
  BY BudgetInvBounds
<1> QED BY <1>1, <1>2, <1>3, PTL DEF Spec
==============================================================================
