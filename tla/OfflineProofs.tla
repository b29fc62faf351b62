---------------------------- MODULE OfflineProofs ----------------------------
(* Proofs about the commands that work on what a proxy captured: `simulate`, *)
(* `audit replay`, `policy diff` and the diagram of `session inspect`, for   *)
(* any policies, files, sessions, tools and argument values, and any number  *)
(* of calls and losses.                                                      *)
EXTENDS PolicyTools, FiniteSetTheorems, SequenceTheorems, TLAPS

-----------------------------------------------------------------------------
(* The pipeline.                                                            *)

\* Every stage returns a verdict, and so do the stages of the proxy and those
\* of a command together.
LEMMA VerdictsTotal ==
    ASSUME NEW pol, NEW t, NEW a, NEW at, NEW x, NEW b, NEW e, NEW cur, NEW log
    PROVE  /\ ProxyVerdict(pol, t, a, at, x, b) \in Verdict
           /\ CommandVerdict(pol, e, cur, log) \in Verdict
<1>1. ASSUME NEW f \in Verdict, NEW g \in Verdict
      PROVE  Chain(f, g) \in Verdict
  BY <1>1 DEF Chain
<1>2. /\ EnvEvaluator(AgentEnv, pol) \in Verdict
      /\ \A u : MayUseEvaluator(u, pol) \in Verdict
      /\ \A y : BudgetEvaluator(y, pol) \in Verdict
      /\ \A u, y : TaintEvaluator(u, y, pol) \in Verdict
      /\ \A u, q : SequenceEvaluator(u, pol, q) \in Verdict
      /\ \A u, q, n : RateLimitEvaluator(u, n, pol, q) \in Verdict
      /\ \A u, c, d : EscalationEvaluator(u, c, pol, d) \in Verdict
  BY DEF EnvEvaluator, MayUseEvaluator, BudgetEvaluator, TaintEvaluator,
         SequenceEvaluator, RateLimitEvaluator, EscalationEvaluator, Verdict
<1>3. ContentEvaluator(t, a, pol) \in Verdict
  BY DEF ContentEvaluator, evalNeverWhenAll, evalNeverWhenAny, Verdict
<1>4. "allow" \in Verdict
  BY DEF Verdict
<1>5. ProxyVerdict(pol, t, a, at, x, b) \in Verdict
  BY <1>1, <1>2, <1>3 DEF ProxyVerdict
<1>6. CommandVerdict(pol, e, cur, log) \in Verdict
  <2>1. (IF job = "simulate" THEN EscalationEvaluator(e.tool, e.args, pol, FALSE)
         ELSE "allow") \in Verdict
    BY <1>2, <1>4
  <2> QED BY <1>1, <1>2, <2>1 DEF CommandVerdict
<1> QED BY <1>5, <1>6

\* A verdict becomes an action, and only "allow" becomes "allow".
LEMMA DecideIsAction ==
    ASSUME NEW v \in Verdict, NEW t, NEW pol
    PROVE  /\ Decide(v, t, pol) \in Action
           /\ Decide(v, t, pol) = "allow" <=> v = "allow"
BY DEF Decide, Verdict, Action

\* Both policies of a pair are policies.
LEMMA PairTyped ==
    ASSUME pols \in Pairs, NEW w \in Version
    PROVE  pols[w] \in Policy
BY OfflineAssumption DEF Version

\* A set of positions is finite.
LEMMA UpToFinite ==
    ASSUME NEW k \in Nat, NEW S \in SUBSET (1..k)
    PROVE  /\ IsFiniteSet(S) /\ Cardinality(S) \in Nat /\ Cardinality(S) <= k
           /\ IsFiniteSet(1..k) /\ Cardinality(1..k) = k
<1>1. IsFiniteSet(1..k) /\ Cardinality(1..k) = k
  BY FS_Interval
<1>2. IsFiniteSet(S) /\ Cardinality(S) <= Cardinality(1..k)
  BY <1>1, FS_Subset
<1> QED BY <1>1, <1>2, FS_CardinalityType

-----------------------------------------------------------------------------
(* Logs.                                                                    *)

\* The first k calls of two logs are of the same tools with the same decisions.
SameCalls(p, q, k) ==
    \A i \in 1..k : p[i].tool = q[i].tool /\ p[i].action = q[i].action

CountedUpTo(log, k) == {i \in 1..k : Counts(log[i])}

\* The session struct x is what the first k events of the log amount to.
SessIs(x, log, pol, k) ==
    /\ x.calls = Cardinality(CountedUpTo(log, k))
    /\ x.cost  = Cardinality(CountedUpTo(log, k))
    /\ x.tainted <=> TaintedAfter(log, pol, k)

\* What a log amounts to depends on tools and decisions alone.
LEMMA SessIsCongruent ==
    ASSUME NEW p, NEW q, NEW k \in Nat, SameCalls(p, q, k), NEW pol, NEW x
    PROVE  SessIs(x, p, pol, k) <=> SessIs(x, q, pol, k)
<1>1. CountedUpTo(p, k) = CountedUpTo(q, k)
  BY DEF SameCalls, CountedUpTo, Counts
<1>2. TaintedAfter(p, pol, k) <=> TaintedAfter(q, pol, k)
  <2>1. \A j \in 1..k : \A i \in (j + 1)..k : i \in 1..k
    OBVIOUS
  <2> QED BY <2>1 DEF SameCalls, TaintedAfter
<1> QED BY <1>1, <1>2 DEF SessIs

\* Before the first event, a log amounts to a new session.
LEMMA SessIsNew ==
    ASSUME NEW log, NEW pol
    PROVE  SessIs(NewSession, log, pol, 0)
<1>1. CountedUpTo(log, 0) = {}
  BY DEF CountedUpTo
<1>2. ~ TaintedAfter(log, pol, 0)
  BY DEF TaintedAfter
<1> QED BY <1>1, <1>2, FS_EmptySet DEF SessIs, NewSession

\* An event more: the counters and the taint flag of applyTaintMutations.
LEMMA SessIsStep ==
    ASSUME NEW log, NEW pol, NEW k \in Nat, NEW x, SessIs(x, log, pol, k), NEW y,
           y.calls = (IF Counts(log[k + 1]) THEN x.calls + 1 ELSE x.calls),
           y.cost = (IF Counts(log[k + 1]) THEN x.cost + 1 ELSE x.cost),
           y.tainted <=> (IF log[k + 1].action = "allow"
                          THEN applyTaintMutations(log[k + 1].tool, x.tainted, pol)
                          ELSE x.tainted)
    PROVE  SessIs(y, log, pol, k + 1)
<1>1. /\ IsFiniteSet(CountedUpTo(log, k)) /\ Cardinality(CountedUpTo(log, k)) \in Nat
      /\ k + 1 \notin CountedUpTo(log, k)
  <2>1. CountedUpTo(log, k) \in SUBSET (1..k)
    BY DEF CountedUpTo
  <2> QED BY <2>1, UpToFinite
<1>2. CountedUpTo(log, k + 1) = IF Counts(log[k + 1]) THEN CountedUpTo(log, k) \cup {k + 1}
                                ELSE CountedUpTo(log, k)
  BY DEF CountedUpTo
<1>3. Cardinality(CountedUpTo(log, k + 1)) =
         IF Counts(log[k + 1]) THEN Cardinality(CountedUpTo(log, k)) + 1
         ELSE Cardinality(CountedUpTo(log, k))
  <2>1. Cardinality(CountedUpTo(log, k) \cup {k + 1}) = Cardinality(CountedUpTo(log, k)) + 1
    BY <1>1, FS_AddElement
  <2> QED BY <1>2, <2>1
<1>4. TaintedAfter(log, pol, k + 1) <=>
         IF log[k + 1].action = "allow"
         THEN pol.tools[log[k + 1].tool].applies
              \/ (TaintedAfter(log, pol, k) /\ ~ pol.tools[log[k + 1].tool].clears)
         ELSE TaintedAfter(log, pol, k)
  <2>1. 1..(k + 1) = (1..k) \cup {k + 1}
    OBVIOUS
  <2>2. \A j \in 1..k : (j + 1)..(k + 1) = ((j + 1)..k) \cup {k + 1}
    OBVIOUS
  <2>3. (k + 1 + 1)..(k + 1) = {}
    OBVIOUS
  <2> QED BY <2>1, <2>2, <2>3, Zenon DEF TaintedAfter
<1> QED BY <1>3, <1>4 DEF SessIs, applyTaintMutations

-----------------------------------------------------------------------------
(* The proxy that captures.                                                 *)

Struct      == [calls : Nat, cost : Nat, tainted : BOOLEAN]
LogEvent    == [tool : Tool, args : Args, action : Action, at : Nat, rule : {"", "taint.session_tainted"}]
TraceEntry  == [session : Session, tool : Tool, args : Args, at : Nat]
AuditRecord == [session : Session, seq : Nat \ {0}, tool : Tool, action : Action, at : Nat]

CaptureType ==
    /\ pols \in Pairs /\ clock \in Nat
    /\ live \in [Version -> [Session -> [sess : Struct, log : Seq(LogEvent)]]]
    /\ trace \in Seq(TraceEntry)
    /\ audit \in SUBSET AuditRecord /\ IsFiniteSet(audit)
    /\ spoiled \in SUBSET [file : {"trace", "audit"}, session : Session, call : Nat]

\* Timestamps with the resolution of a second are numbers.
LEMMA FormatTyped ==
    ASSUME NEW n \in Nat
    PROVE  FormatRFC3339(n) \in Nat
<1>1. TicksPerSecond \in Nat /\ TicksPerSecond > 0
  BY OfflineAssumption
<1>2. n \div TicksPerSecond \in Nat
  BY <1>1
<1> QED BY <1>1, <1>2 DEF FormatRFC3339

\* The event that a captured call appends under policy w, and the session row.
NewEvent(w, s, t, a, now) ==
    [tool |-> t, args |-> a,
     action |-> Decide(ProxyVerdict(pols[w], t, a, clock, live[w][s], <<s, t, a>> \in approved),
                       t, pols[w]),
     at |-> now, rule |-> ProxyRule(pols[w], t, live[w][s])]

NewStruct(w, s, t, a, now) ==
    LET x == live[w][s].sess
        e == NewEvent(w, s, t, a, now)
    IN  [calls   |-> IF Counts(e) THEN x.calls + 1 ELSE x.calls,
         cost    |-> IF Counts(e) THEN x.cost + 1 ELSE x.cost,
         tainted |-> IF e.action = "allow" THEN applyTaintMutations(t, x.tainted, pols[w])
                     ELSE x.tainted]

Recorded(w, s, t, a, now) ==
    [sess |-> NewStruct(w, s, t, a, now),
     log  |-> Append(live[w][s].log, NewEvent(w, s, t, a, now))]

\* The mark that a lost record leaves.
Lost(s, loss) ==
    [file    |-> IF loss = "audit" THEN "audit" ELSE "trace",
     session |-> s,
     call    |-> Len(live["old"][s].log) + 1]

CaptureDoes(s, t, a, loss, now) ==
    /\ \A w \in Version :
          /\ NewEvent(w, s, t, a, now) \in LogEvent
          /\ NewStruct(w, s, t, a, now) \in Struct
          /\ live'[w] = IF loss = "event" THEN live[w]
                        ELSE [live[w] EXCEPT ![s] = Recorded(w, s, t, a, now)]
    /\ DOMAIN live' = Version
    /\ trace' = IF loss = "trace" THEN trace
                ELSE Append(trace, [session |-> s, tool |-> t, args |-> a,
                                    at |-> FormatRFC3339(clock)])
    /\ audit' = IF loss \in {"event", "audit"} THEN audit
                ELSE audit \cup {[session |-> s, seq |-> Len(live["old"][s].log) + 1,
                                  tool |-> t,
                                  action |-> NewEvent("old", s, t, a, now).action,
                                  at |-> now]}
    /\ spoiled' = IF loss = "none" THEN spoiled ELSE spoiled \cup {Lost(s, loss)}

\* A captured call, with its effect on each table written out.
LEMMA CaptureEffect ==
    ASSUME CaptureType, NEW s \in Session, NEW t \in Tool, NEW a \in Args,
           NEW loss \in Loss, NEW now \in Nat, Capture(s, t, a, loss, now)
    PROVE  CaptureDoes(s, t, a, loss, now)
<1>1. ASSUME NEW w \in Version
      PROVE  /\ NewEvent(w, s, t, a, now) \in LogEvent
             /\ NewStruct(w, s, t, a, now) \in Struct
             /\ ProxyRecords(pols[w], t, a,
                    ProxyVerdict(pols[w], t, a, clock, live[w][s], <<s, t, a>> \in approved),
                    now, live[w][s]) = Recorded(w, s, t, a, now)
  <2> DEFINE v == ProxyVerdict(pols[w], t, a, clock, live[w][s], <<s, t, a>> \in approved)
  <2>1. v \in Verdict
    BY VerdictsTotal
  <2>2. Decide(v, t, pols[w]) \in Action /\ (Decide(v, t, pols[w]) = "allow" <=> v = "allow")
    BY <2>1, DecideIsAction
  <2>3. ProxyRule(pols[w], t, live[w][s]) \in {"", "taint.session_tainted"}
    BY DEF ProxyRule
  <2>4. NewEvent(w, s, t, a, now) \in LogEvent
    BY <2>2, <2>3 DEF NewEvent, LogEvent
  <2>5. live[w][s].sess \in Struct
    BY <1>1 DEF CaptureType
  <2>6. applyTaintMutations(t, live[w][s].sess.tainted, pols[w]) \in BOOLEAN
    <3>1. pols[w].tools[t].applies \in BOOLEAN
      BY <1>1, PairTyped DEF CaptureType, Policy, ToolPolicy
    <3> QED BY <3>1 DEF applyTaintMutations
  <2>7. NewStruct(w, s, t, a, now) \in Struct
    BY <2>5, <2>6 DEF NewStruct, Struct
  <2>8. ProxyRecords(pols[w], t, a, v, now, live[w][s]) = Recorded(w, s, t, a, now)
    BY <2>2 DEF ProxyRecords, Recorded, NewStruct, NewEvent
  <2> QED BY <2>4, <2>7, <2>8
<1>2. ASSUME NEW w \in Version
      PROVE  live'[w] = IF loss = "event" THEN live[w]
                        ELSE [live[w] EXCEPT ![s] = Recorded(w, s, t, a, now)]
  BY <1>1, <1>2 DEF Capture
<1>3. DOMAIN live' = Version
  BY DEF Capture, CaptureType
<1>4. trace' = IF loss = "trace" THEN trace
               ELSE Append(trace, [session |-> s, tool |-> t, args |-> a,
                                   at |-> FormatRFC3339(clock)])
  BY DEF Capture
<1>5. Recorded("old", s, t, a, now).log[Len(live["old"][s].log) + 1]
         = NewEvent("old", s, t, a, now)
  <2>1. "old" \in Version /\ live["old"][s].log \in Seq(LogEvent)
    BY DEF CaptureType, Version
  <2> QED BY <2>1, <1>1 DEF Recorded
<1>6. audit' = IF loss \in {"event", "audit"} THEN audit
               ELSE audit \cup {[session |-> s, seq |-> Len(live["old"][s].log) + 1,
                                 tool |-> t,
                                 action |-> NewEvent("old", s, t, a, now).action,
                                 at |-> now]}
  BY <1>1, <1>5 DEF Capture, Version
<1>7. spoiled' = IF loss = "none" THEN spoiled ELSE spoiled \cup {Lost(s, loss)}
  BY DEF Capture, Lose, Lost
<1> QED BY <1>1, <1>2, <1>3, <1>4, <1>6, <1>7 DEF CaptureDoes

\* Captured tables have their types.
LEMMA CaptureTypeStep ==
    ASSUME CaptureType, NEW s \in Session, NEW t \in Tool, NEW a \in Args,
           NEW loss \in Loss, NEW now \in Nat, Capture(s, t, a, loss, now)
    PROVE  CaptureType'
<1> CaptureDoes(s, t, a, loss, now)
  BY CaptureEffect
<1>1. pols' \in Pairs /\ clock' \in Nat
  BY DEF Capture, CaptureType
<1>2. live' \in [Version -> [Session -> [sess : Struct, log : Seq(LogEvent)]]]
  <2>1. ASSUME NEW w \in Version
        PROVE  live'[w] \in [Session -> [sess : Struct, log : Seq(LogEvent)]]
    <3>1. live[w] \in [Session -> [sess : Struct, log : Seq(LogEvent)]]
      BY <2>1 DEF CaptureType
    <3>2. Recorded(w, s, t, a, now) \in [sess : Struct, log : Seq(LogEvent)]
      BY <2>1, <3>1 DEF Recorded, CaptureDoes
    <3> QED BY <2>1, <3>1, <3>2 DEF CaptureDoes
  <2>2. DOMAIN live' = Version /\ live' = [w \in Version |-> live'[w]]
    BY DEF Capture, CaptureType
  <2> QED BY <2>1, <2>2
<1>3. trace' \in Seq(TraceEntry)
  <2>1. [session |-> s, tool |-> t, args |-> a, at |-> FormatRFC3339(clock)] \in TraceEntry
    BY FormatTyped DEF TraceEntry, CaptureType
  <2> QED BY <2>1 DEF CaptureDoes, CaptureType
<1>4. audit' \in SUBSET AuditRecord /\ IsFiniteSet(audit')
  <2> DEFINE r == [session |-> s, seq |-> Len(live["old"][s].log) + 1, tool |-> t,
                   action |-> NewEvent("old", s, t, a, now).action, at |-> now]
  <2>1. "old" \in Version /\ live["old"][s].log \in Seq(LogEvent)
    BY DEF CaptureType, Version
  <2>2. NewEvent("old", s, t, a, now).action \in Action
    BY <2>1 DEF CaptureDoes, LogEvent
  <2>3. Len(live["old"][s].log) + 1 \in Nat \ {0}
    BY <2>1
  <2>4. r \in AuditRecord
    BY <2>2, <2>3 DEF AuditRecord
  <2>5. IsFiniteSet(audit \cup {r})
    BY FS_AddElement DEF CaptureType
  <2> HIDE DEF r
  <2>6. audit' = audit \/ audit' = audit \cup {r}
    BY DEF CaptureDoes, r
  <2> QED BY <2>4, <2>5, <2>6 DEF CaptureType
<1>5. spoiled' \in SUBSET [file : {"trace", "audit"}, session : Session, call : Nat]
  <2>1. "old" \in Version /\ live["old"][s].log \in Seq(LogEvent)
    BY DEF CaptureType, Version
  <2>2. Len(live["old"][s].log) + 1 \in Nat
    BY <2>1
  <2>3. Lost(s, loss) \in [file : {"trace", "audit"}, session : Session, call : Nat]
    BY <2>2 DEF Lost
  <2> QED BY <2>3 DEF CaptureDoes, CaptureType
<1> QED BY <1>1, <1>2, <1>3, <1>4, <1>5 DEF CaptureType

\* Event i of the log was decided from what the events before it amount to.
DecidedAt(pol, s, log, i, humans) ==
    \E x, at, ok :
        /\ SessIs(x.sess, log, pol, i - 1)
        /\ Len(x.log) = i - 1 /\ SameCalls(x.log, log, i - 1)
        /\ ok => <<s, log[i].tool, log[i].args>> \in humans
        /\ log[i].action = Decide(ProxyVerdict(pol, log[i].tool, log[i].args, at, x, ok),
                                  log[i].tool, pol)
        /\ log[i].rule = ProxyRule(pol, log[i].tool, x)

\* So it stays when events and approvals follow.
LEMMA DecidedExtends ==
    ASSUME NEW pol, NEW s, NEW log \in Seq(LogEvent), NEW i \in 1..Len(log),
           NEW humans, DecidedAt(pol, s, log, i, humans),
           NEW e \in LogEvent, NEW more, humans \subseteq more
    PROVE  /\ DecidedAt(pol, s, log, i, more)
           /\ DecidedAt(pol, s, Append(log, e), i, more)
<1> DEFINE long == Append(log, e)
<1>1. \A j \in 1..i : long[j] = log[j]
  OBVIOUS
<1>2. i - 1 \in Nat /\ SameCalls(log, long, i - 1)
  BY <1>1 DEF SameCalls
<1>3. PICK x, at, ok :
        /\ SessIs(x.sess, log, pol, i - 1)
        /\ Len(x.log) = i - 1 /\ SameCalls(x.log, log, i - 1)
        /\ ok => <<s, log[i].tool, log[i].args>> \in humans
        /\ log[i].action = Decide(ProxyVerdict(pol, log[i].tool, log[i].args, at, x, ok),
                                  log[i].tool, pol)
        /\ log[i].rule = ProxyRule(pol, log[i].tool, x)
  BY DEF DecidedAt
<1>4. SessIs(x.sess, long, pol, i - 1)
  BY <1>2, <1>3, SessIsCongruent
<1>5. SameCalls(x.log, long, i - 1)
  BY <1>2, <1>3 DEF SameCalls
<1>6. long[i] = log[i]
  BY <1>1
<1>7. ok => <<s, log[i].tool, log[i].args>> \in more
  BY <1>3
<1> HIDE DEF long
<1>8. DecidedAt(pol, s, log, i, more)
  BY <1>3, <1>7 DEF DecidedAt
<1>9. DecidedAt(pol, s, long, i, more)
  BY <1>3, <1>4, <1>5, <1>6, <1>7 DEF DecidedAt
<1> QED BY <1>8, <1>9 DEF long

LiveInv ==
    \A w \in Version, s \in Session :
        LET log == live[w][s].log
        IN  /\ SessIs(live[w][s].sess, log, pols[w], Len(log))
            /\ \A i \in 1..Len(log) : DecidedAt(pols[w], s, log, i, approved)

\* Every session is what its log amounts to, and every decision was taken from
\* what the log amounted to before it.
LEMMA LiveStep ==
    ASSUME CaptureType, LiveInv, NEW s \in Session, NEW t \in Tool, NEW a \in Args,
           NEW loss \in Loss, NEW now \in Nat, Capture(s, t, a, loss, now)
    PROVE  LiveInv'
<1> CaptureDoes(s, t, a, loss, now)
  BY CaptureEffect
<1>1. pols' = pols /\ approved' = approved
  BY DEF Capture
<1> SUFFICES ASSUME NEW w \in Version, NEW r \in Session
             PROVE  /\ SessIs(live'[w][r].sess, live'[w][r].log, pols[w], Len(live'[w][r].log))
                    /\ \A i \in 1..Len(live'[w][r].log) :
                          DecidedAt(pols[w], r, live'[w][r].log, i, approved)
  BY <1>1, Zenon DEF LiveInv
<1> DEFINE log == live[w][s].log
           e   == NewEvent(w, s, t, a, now)
           x   == live[w][s].sess
           y   == NewStruct(w, s, t, a, now)
           n   == Len(log)
<1>2. /\ live[w] \in [Session -> [sess : Struct, log : Seq(LogEvent)]]
      /\ log \in Seq(LogEvent) /\ x \in Struct /\ n \in Nat
  BY DEF CaptureType
<1>3. CASE loss = "event" \/ r # s
  <2>1. live'[w][r] = live[w][r]
    BY <1>2, <1>3 DEF CaptureDoes
  <2> QED BY <2>1 DEF LiveInv
<1>4. CASE loss # "event" /\ r = s
  <2>1. live'[w][r].sess = y /\ live'[w][r].log = Append(log, e) /\ e \in LogEvent
    BY <1>2, <1>4 DEF CaptureDoes, Recorded
  <2>2. Len(Append(log, e)) = n + 1 /\ Append(log, e)[n + 1] = e
        /\ \A i \in 1..n : Append(log, e)[i] = log[i]
    BY <1>2, <2>1
  <2>3. SessIs(x, log, pols[w], n) /\ \A i \in 1..n : DecidedAt(pols[w], s, log, i, approved)
    BY DEF LiveInv
  <2>4. SameCalls(log, Append(log, e), n)
    BY <1>2, <2>2 DEF SameCalls
  <2>5. SessIs(x, Append(log, e), pols[w], n)
    BY <1>2, <2>3, <2>4, SessIsCongruent
  <2>6. SessIs(y, Append(log, e), pols[w], n + 1)
    <3>1. /\ y.calls = (IF Counts(e) THEN x.calls + 1 ELSE x.calls)
          /\ y.cost = (IF Counts(e) THEN x.cost + 1 ELSE x.cost)
          /\ y.tainted <=> (IF e.action = "allow" THEN applyTaintMutations(t, x.tainted, pols[w])
                            ELSE x.tainted)
          /\ e.tool = t
      BY DEF NewStruct, NewEvent
    <3> HIDE DEF y, e, x
    <3>2. /\ y.calls = (IF Counts(Append(log, e)[n + 1]) THEN x.calls + 1 ELSE x.calls)
          /\ y.cost = (IF Counts(Append(log, e)[n + 1]) THEN x.cost + 1 ELSE x.cost)
          /\ y.tainted <=> (IF Append(log, e)[n + 1].action = "allow"
                            THEN applyTaintMutations(Append(log, e)[n + 1].tool, x.tainted, pols[w])
                            ELSE x.tainted)
      BY <3>1, <2>2, Zenon
    <3> HIDE DEF n, log
    <3> QED BY <1>2, <2>5, <3>2, SessIsStep
  <2>7. ASSUME NEW i \in 1..n
        PROVE  DecidedAt(pols[w], s, Append(log, e), i, approved)
    BY <1>2, <2>1, <2>3, DecidedExtends
  <2>8. DecidedAt(pols[w], s, Append(log, e), n + 1, approved)
    <3> DEFINE long == Append(log, e)
               z    == live[w][s]
               ok   == <<s, t, a>> \in approved
    <3>1. (n + 1) - 1 = n
      BY <1>2
    <3>2. SessIs(z.sess, long, pols[w], n) /\ Len(z.log) = n /\ SameCalls(z.log, long, n)
      BY <2>4, <2>5
    <3>3. /\ long[n + 1].tool = t /\ long[n + 1].args = a
          /\ long[n + 1].action = Decide(ProxyVerdict(pols[w], t, a, clock, z, ok), t, pols[w])
          /\ long[n + 1].rule = ProxyRule(pols[w], t, z)
      BY <2>2 DEF NewEvent
    <3>4. ok => <<s, long[n + 1].tool, long[n + 1].args>> \in approved
      BY <3>3
    <3> HIDE DEF long, z, n, ok
    <3>5. \E y1, at, ok1 :
             /\ SessIs(y1.sess, long, pols[w], n)
             /\ Len(y1.log) = n /\ SameCalls(y1.log, long, n)
             /\ ok1 => <<s, long[n + 1].tool, long[n + 1].args>> \in approved
             /\ long[n + 1].action = Decide(ProxyVerdict(pols[w], long[n + 1].tool,
                                                 long[n + 1].args, at, y1, ok1),
                                            long[n + 1].tool, pols[w])
             /\ long[n + 1].rule = ProxyRule(pols[w], long[n + 1].tool, y1)
      BY <3>2, <3>3, <3>4
    <3> QED BY <3>1, <3>5 DEF DecidedAt, long
  <2>9. \A i \in 1..(n + 1) : i \in 1..n \/ i = n + 1
    BY <1>2
  <2> QED BY <1>4, <2>1, <2>2, <2>6, <2>7, <2>8, <2>9
<1> QED BY <1>3, <1>4

-----------------------------------------------------------------------------
(* Which call of its session an entry is.                                   *)

\* The number of entries of session s among the first m.
Nth(q, s, m) == Cardinality({j \in 1..m : q[j].session = s})

\* Counting one entry more.
LEMMA NthStep ==
    ASSUME NEW q, NEW s, NEW m \in Nat
    PROVE  /\ Nth(q, s, m) \in Nat /\ Nth(q, s, 0) = 0
           /\ q[m + 1].session = s => Nth(q, s, m + 1) = Nth(q, s, m) + 1
           /\ q[m + 1].session # s => Nth(q, s, m + 1) = Nth(q, s, m)
<1> DEFINE S == {j \in 1..m : q[j].session = s}
<1>1. IsFiniteSet(S) /\ Cardinality(S) \in Nat /\ m + 1 \notin S
  BY UpToFinite
<1>2. {j \in 1..(m + 1) : q[j].session = s} = IF q[m + 1].session = s THEN S \cup {m + 1} ELSE S
  OBVIOUS
<1>3. Cardinality(S \cup {m + 1}) = Cardinality(S) + 1
  <2> HIDE DEF S
  <2> QED BY <1>1, FS_AddElement
<1>4. {j \in 1..0 : q[j].session = s} = {}
  OBVIOUS
<1>5. Nth(q, s, 0) = 0
  BY <1>4, FS_EmptySet DEF Nth
<1> QED BY <1>1, <1>2, <1>3, <1>5 DEF Nth

\* Later entries of a session have larger numbers.
LEMMA NthMonotone ==
    ASSUME NEW q, NEW s, NEW m \in Nat, NEW j \in 1..m, q[j].session = s
    PROVE  /\ Nth(q, s, j) \in 1..Nth(q, s, m)
           /\ \A i \in 1..(j - 1) : Nth(q, s, i) < Nth(q, s, j)
<1> DEFINE Upto(k) == {l \in 1..k : q[l].session = s}
<1>1. ASSUME NEW k \in Nat
      PROVE  IsFiniteSet(Upto(k)) /\ Cardinality(Upto(k)) \in Nat
  BY <1>1, UpToFinite
<1>2. Upto(j) \in SUBSET Upto(m) /\ Upto(j) # {}
  OBVIOUS
<1>3. Cardinality(Upto(j)) <= Cardinality(Upto(m))
  BY <1>1, <1>2, FS_Subset
<1>4. Cardinality(Upto(j)) # 0
  BY <1>1, <1>2, FS_EmptySet
<1>5. ASSUME NEW i \in 1..(j - 1)
      PROVE  Cardinality(Upto(i)) < Cardinality(Upto(j))
  <2>1. Upto(i) \in SUBSET Upto(j) /\ Upto(i) # Upto(j)
    <3>1. j \in Upto(j) /\ j \notin Upto(i)
      BY <1>5
    <3> QED BY <1>5, <3>1
  <2>2. Cardinality(Upto(i)) <= Cardinality(Upto(j)) /\ Cardinality(Upto(i)) # Cardinality(Upto(j))
    <3>1. IsFiniteSet(Upto(j))
      BY <1>1
    <3> HIDE DEF Upto
    <3> QED BY <2>1, <3>1, FS_Subset
  <2>3. Cardinality(Upto(i)) \in Nat /\ Cardinality(Upto(j)) \in Nat
    <3>1. i \in Nat /\ j \in Nat
      BY <1>5
    <3> HIDE DEF Upto
    <3> QED BY <1>1, <3>1
  <2> HIDE DEF Upto
  <2> QED BY <2>2, <2>3
<1>6. Cardinality(Upto(j)) \in Nat /\ Cardinality(Upto(m)) \in Nat
  <2>1. j \in Nat
    OBVIOUS
  <2> HIDE DEF Upto
  <2> QED BY <1>1, <2>1
<1>7. Nth(q, s, j) \in 1..Nth(q, s, m)
  <2> HIDE DEF Upto
  <2>1. Cardinality(Upto(j)) \in 1..Cardinality(Upto(m))
    BY <1>3, <1>4, <1>6
  <2> QED BY <2>1 DEF Nth, Upto
<1>8. \A i \in 1..(j - 1) : Nth(q, s, i) < Nth(q, s, j)
  BY <1>5 DEF Nth
<1> QED BY <1>7, <1>8

\* The numbers depend on the sessions of the entries alone.
LEMMA NthCongruent ==
    ASSUME NEW p, NEW q, NEW s, NEW m \in Nat, \A j \in 1..m : p[j].session = q[j].session
    PROVE  Nth(p, s, m) = Nth(q, s, m)
<1>1. {j \in 1..m : p[j].session = s} = {j \in 1..m : q[j].session = s}
  OBVIOUS
<1> QED BY <1>1 DEF Nth

\* One entry more at the end.
LEMMA NthAppend ==
    ASSUME NEW S, NEW q \in Seq(S), NEW e \in S, NEW s
    PROVE  /\ \A j \in 0..Len(q) : Nth(Append(q, e), s, j) = Nth(q, s, j)
           /\ e.session = s => Nth(Append(q, e), s, Len(q) + 1) = Nth(q, s, Len(q)) + 1
           /\ e.session # s => Nth(Append(q, e), s, Len(q) + 1) = Nth(q, s, Len(q))
<1> DEFINE n    == Len(q)
           long == Append(q, e)
<1>1. n \in Nat /\ Len(long) = n + 1 /\ long[n + 1] = e /\ \A j \in 1..n : long[j] = q[j]
  OBVIOUS
<1> HIDE DEF n, long
<1>2. ASSUME NEW j \in 0..n
      PROVE  Nth(long, s, j) = Nth(q, s, j)
  <2>1. j \in Nat /\ \A l \in 1..j : long[l].session = q[l].session
    BY <1>1, <1>2
  <2> QED BY <2>1, NthCongruent
<1>3. Nth(long, s, n) = Nth(q, s, n)
  BY <1>1, <1>2
<1>4. /\ long[n + 1].session = s => Nth(long, s, n + 1) = Nth(long, s, n) + 1
      /\ long[n + 1].session # s => Nth(long, s, n + 1) = Nth(long, s, n)
  BY <1>1, NthStep
<1> QED BY <1>1, <1>2, <1>3, <1>4 DEF n, long

\* Intact, as a predicate of the marks.
Whole(marks, file, s, i) ==
    \A x \in marks : x.file = file /\ x.session = s => i < x.call

\* What a file has up to a call it has up to every earlier one.
LEMMA IntactBefore ==
    ASSUME CaptureType, NEW file, NEW s, NEW i \in Nat, NEW j \in 0..i, Intact(file, s, i)
    PROVE  Intact(file, s, j)
<1> SUFFICES ASSUME NEW x \in spoiled, x.file = file, x.session = s
             PROVE  j < x.call
  BY DEF Intact
<1>1. x.call \in Nat
  BY DEF CaptureType
<1>2. i < x.call
  BY DEF Intact
<1> QED BY <1>1, <1>2

\* Both proxies receive the same calls.
LogsAlign ==
    \A s \in Session :
        /\ Len(live["old"][s].log) = Len(live["new"][s].log)
        /\ \A i \in 1..Len(live["old"][s].log) :
              /\ live["old"][s].log[i].tool = live["new"][s].log[i].tool
              /\ live["old"][s].log[i].args = live["new"][s].log[i].args

\* The entries of a session are its calls, one after the other, up to the first
\* loss: there are as many entries as calls, or some loss came no later than the
\* next entry will.
TraceFollows ==
    \A s \in Session :
        LET log == live["old"][s].log
        IN  /\ \A j \in 1..Len(trace) :
                  trace[j].session = s /\ Intact("trace", s, Nth(trace, s, j)) =>
                      /\ Nth(trace, s, j) \in 1..Len(log)
                      /\ trace[j].tool = log[Nth(trace, s, j)].tool
                      /\ trace[j].args = log[Nth(trace, s, j)].args
            /\ \/ Nth(trace, s, Len(trace)) = Len(log)
               \/ \E x \in spoiled : /\ x.file = "trace" /\ x.session = s
                                     /\ x.call <= Nth(trace, s, Len(trace)) + 1

\* An audit record is an event, and every event before the first loss has one.
AuditFollows ==
    /\ \A r \in audit :
          LET log == live["old"][r.session].log
          IN  /\ r.seq \in 1..Len(log)
              /\ r.tool = log[r.seq].tool /\ r.action = log[r.seq].action /\ r.at = log[r.seq].at
    /\ \A s \in Session : \A i \in 1..Len(live["old"][s].log) :
          Intact("audit", s, i) => \E r \in audit : r.session = s /\ r.seq = i

CaptureInv == CaptureType /\ LiveInv /\ LogsAlign /\ TraceFollows /\ AuditFollows

\* The log of a session before and after a captured call.
LEMMA LogStep ==
    ASSUME CaptureType, NEW s \in Session, NEW t \in Tool, NEW a \in Args,
           NEW loss \in Loss, NEW now \in Nat, Capture(s, t, a, loss, now),
           NEW w \in Version, NEW r \in Session
    PROVE  /\ live[w][r].log \in Seq(LogEvent) /\ NewEvent(w, s, t, a, now) \in LogEvent
           /\ NewEvent(w, s, t, a, now).tool = t /\ NewEvent(w, s, t, a, now).args = a
           /\ NewEvent(w, s, t, a, now).at = now
           /\ live'[w][r].log = IF loss = "event" \/ r # s THEN live[w][r].log
                                ELSE Append(live[w][r].log, NewEvent(w, s, t, a, now))
<1>1. CaptureDoes(s, t, a, loss, now)
  BY CaptureEffect
<1>2. live[w] \in [Session -> [sess : Struct, log : Seq(LogEvent)]]
  BY DEF CaptureType
<1>3. NewEvent(w, s, t, a, now) \in LogEvent
  BY <1>1 DEF CaptureDoes
<1>4. live'[w][r].log = IF loss = "event" \/ r # s THEN live[w][r].log
                        ELSE Append(live[w][r].log, NewEvent(w, s, t, a, now))
  <2>1. live'[w] = IF loss = "event" THEN live[w]
                   ELSE [live[w] EXCEPT ![s] = Recorded(w, s, t, a, now)]
    BY <1>1 DEF CaptureDoes
  <2>2. Recorded(w, s, t, a, now).log = Append(live[w][s].log, NewEvent(w, s, t, a, now))
    BY DEF Recorded
  <2> QED BY <1>2, <2>1, <2>2
<1> QED BY <1>2, <1>3, <1>4 DEF NewEvent

\* The trace and the audit log keep up with the log.
LEMMA FilesStep ==
    ASSUME CaptureInv, NEW s \in Session, NEW t \in Tool, NEW a \in Args,
           NEW loss \in Loss, NEW now \in Nat, Capture(s, t, a, loss, now)
    PROVE  LogsAlign' /\ TraceFollows' /\ AuditFollows'
<1> USE DEF CaptureInv
<1> DEFINE ev(w) == NewEvent(w, s, t, a, now)
<1>1. "old" \in Version /\ "new" \in Version
  BY DEF Version
<1>2. CaptureDoes(s, t, a, loss, now)
  BY CaptureEffect
<1>3. ASSUME NEW w \in Version, NEW r \in Session
      PROVE  /\ live[w][r].log \in Seq(LogEvent) /\ ev(w) \in LogEvent
             /\ ev(w).tool = t /\ ev(w).args = a /\ ev(w).at = now
             /\ live'[w][r].log = IF loss = "event" \/ r # s THEN live[w][r].log
                                  ELSE Append(live[w][r].log, ev(w))
  BY LogStep
<1> HIDE DEF ev
<1>4. LogsAlign'
  <2> SUFFICES ASSUME NEW r \in Session
               PROVE  /\ Len(live'["old"][r].log) = Len(live'["new"][r].log)
                      /\ \A i \in 1..Len(live'["old"][r].log) :
                            /\ live'["old"][r].log[i].tool = live'["new"][r].log[i].tool
                            /\ live'["old"][r].log[i].args = live'["new"][r].log[i].args
    BY DEF LogsAlign
  <2> DEFINE p == live["old"][r].log
             q == live["new"][r].log
  <2>1. /\ p \in Seq(LogEvent) /\ q \in Seq(LogEvent) /\ Len(p) = Len(q)
        /\ \A i \in 1..Len(p) : p[i].tool = q[i].tool /\ p[i].args = q[i].args
    BY <1>1, <1>3 DEF LogsAlign
  <2>2. CASE loss = "event" \/ r # s
    <3>1. live'["old"][r].log = p /\ live'["new"][r].log = q
      BY <1>1, <1>3, <2>2
    <3> QED BY <2>1, <3>1
  <2>3. CASE loss # "event" /\ r = s
    <3>1. /\ live'["old"][r].log = Append(p, ev("old"))
          /\ live'["new"][r].log = Append(q, ev("new"))
          /\ ev("old").tool = ev("new").tool /\ ev("old").args = ev("new").args
          /\ ev("old") \in LogEvent /\ ev("new") \in LogEvent
      BY <1>1, <1>3, <2>3
    <3> HIDE DEF p, q
    <3> QED BY <2>1, <3>1
  <2> QED BY <2>2, <2>3
<1>5. TraceFollows'
  <2> SUFFICES ASSUME NEW r \in Session
               PROVE  LET log == live'["old"][r].log
                      IN  /\ \A j \in 1..Len(trace') :
                                trace'[j].session = r /\ Whole(spoiled', "trace", r, Nth(trace', r, j)) =>
                                    /\ Nth(trace', r, j) \in 1..Len(log)
                                    /\ trace'[j].tool = log[Nth(trace', r, j)].tool
                                    /\ trace'[j].args = log[Nth(trace', r, j)].args
                          /\ \/ Nth(trace', r, Len(trace')) = Len(log)
                             \/ \E x \in spoiled' : /\ x.file = "trace" /\ x.session = r
                                                    /\ x.call <= Nth(trace', r, Len(trace')) + 1
    BY DEF TraceFollows, Intact, Whole
  <2> DEFINE e == [session |-> s, tool |-> t, args |-> a, at |-> FormatRFC3339(clock)]
             old == live["old"][r].log
             new == live'["old"][r].log
             n == Len(trace)
             bad(x) == x.file = "trace" /\ x.session = r
  <2>1. e \in TraceEntry /\ e.session = s /\ e.tool = t /\ e.args = a /\ trace \in Seq(TraceEntry)
    BY FormatTyped DEF TraceEntry, CaptureType
  <2>2. trace' = IF loss = "trace" THEN trace ELSE Append(trace, e)
    BY <1>2 DEF CaptureDoes
  <2>3. /\ \A j \in 1..n : trace[j].session = r /\ Whole(spoiled, "trace", r, Nth(trace, r, j)) =>
              /\ Nth(trace, r, j) \in 1..Len(old)
              /\ trace[j].tool = old[Nth(trace, r, j)].tool
              /\ trace[j].args = old[Nth(trace, r, j)].args
        /\ \/ Nth(trace, r, n) = Len(old)
           \/ \E x \in spoiled : bad(x) /\ x.call <= Nth(trace, r, n) + 1
    BY DEF TraceFollows, Intact, Whole
  <2>4. /\ old \in Seq(LogEvent) /\ ev("old") \in LogEvent
        /\ ev("old").tool = t /\ ev("old").args = a
        /\ new = IF loss = "event" \/ r # s THEN old ELSE Append(old, ev("old"))
    BY <1>1, <1>3
  <2>5. /\ spoiled' = (IF loss = "none" THEN spoiled ELSE spoiled \cup {Lost(s, loss)})
        /\ Lost(s, loss).session = s /\ Lost(s, loss).call = Len(live["old"][s].log) + 1
        /\ loss \in {"trace", "event"} => Lost(s, loss).file = "trace"
        /\ \A x \in spoiled : x.call \in Nat
    BY <1>2 DEF CaptureDoes, CaptureType, Lost
  <2>6. n \in Nat /\ Nth(trace, r, n) \in Nat /\ Len(old) \in Nat
    <3>1. n \in Nat /\ Len(old) \in Nat
      BY <2>1, <2>4
    <3> QED BY <3>1, NthStep
  <2>7. /\ \A j \in 0..n : Nth(Append(trace, e), r, j) = Nth(trace, r, j)
        /\ e.session = r => Nth(Append(trace, e), r, n + 1) = Nth(trace, r, n) + 1
        /\ e.session # r => Nth(Append(trace, e), r, n + 1) = Nth(trace, r, n)
    BY <2>1, NthAppend
  <2>8. /\ Len(Append(trace, e)) = n + 1 /\ Append(trace, e)[n + 1] = e
        /\ \A j \in 1..n : Append(trace, e)[j] = trace[j]
    BY <2>1
  <2>9. \A i : Whole(spoiled', "trace", r, i) => Whole(spoiled, "trace", r, i)
    BY <2>5 DEF Whole
  <2>10. /\ Len(new) \in Nat /\ Len(old) <= Len(new) /\ \A i \in 1..Len(old) : new[i] = old[i]
         /\ loss # "event" /\ r = s => Len(new) = Len(old) + 1 /\ new[Len(old) + 1] = ev("old")
         /\ r # s \/ loss = "event" => Len(new) = Len(old)
    <3> HIDE DEF old, new
    <3> QED BY <2>4
  <2>11. r = s => Lost(s, loss).call = Len(old) + 1
    BY <2>5
  <2> HIDE DEF e, old, new, n
  <2>12. ASSUME NEW j \in 1..n, trace[j].session = r, Whole(spoiled', "trace", r, Nth(trace, r, j))
         PROVE  /\ Nth(trace, r, j) \in 1..Len(new)
                /\ trace[j].tool = new[Nth(trace, r, j)].tool
                /\ trace[j].args = new[Nth(trace, r, j)].args
    <3>1. Whole(spoiled, "trace", r, Nth(trace, r, j))
      BY <2>9, <2>12
    <3>2. /\ Nth(trace, r, j) \in 1..Len(old)
          /\ trace[j].tool = old[Nth(trace, r, j)].tool
          /\ trace[j].args = old[Nth(trace, r, j)].args
      BY <2>3, <2>12, <3>1
    <3> QED BY <2>6, <2>10, <3>2
  <2>13. CASE loss = "trace"
    <3>1. trace' = trace /\ Len(trace') = n
      BY <2>2, <2>13 DEF n
    <3>2. \/ Nth(trace, r, n) = Len(new)
          \/ \E x \in spoiled' : bad(x) /\ x.call <= Nth(trace, r, n) + 1
      <4>1. CASE \E x \in spoiled : bad(x) /\ x.call <= Nth(trace, r, n) + 1
        BY <2>5, <4>1
      <4>2. CASE Nth(trace, r, n) = Len(old) /\ r # s
        BY <2>10, <4>2
      <4>3. CASE Nth(trace, r, n) = Len(old) /\ r = s
        <5>1. Lost(s, loss) \in spoiled' /\ bad(Lost(s, loss))
              /\ Lost(s, loss).call <= Nth(trace, r, n) + 1
          BY <2>5, <2>6, <2>11, <2>13, <4>3
        <5> QED BY <5>1
      <4> QED BY <2>3, <4>1, <4>2, <4>3
    <3> QED BY <2>12, <3>1, <3>2 DEF n, new
  <2>14. CASE loss # "trace"
    <3> DEFINE long == Append(trace, e)
    <3>1. trace' = long /\ Len(long) = n + 1 /\ long[n + 1] = e
          /\ \A j \in 1..n : long[j] = trace[j] /\ Nth(long, r, j) = Nth(trace, r, j)
      BY <2>2, <2>6, <2>7, <2>8, <2>14
    <3>2. /\ r = s => Nth(long, r, n + 1) = Nth(trace, r, n) + 1
          /\ r # s => Nth(long, r, n + 1) = Nth(trace, r, n)
      BY <2>1, <2>7
    <3> HIDE DEF long
    <3>3. \/ Nth(long, r, n + 1) = Len(new)
          \/ \E x \in spoiled' : bad(x) /\ x.call <= Nth(long, r, n + 1) + 1
      <4>1. CASE \E x \in spoiled : bad(x) /\ x.call <= Nth(trace, r, n) + 1
        <5>1. PICK x \in spoiled : bad(x) /\ x.call <= Nth(trace, r, n) + 1
          BY <4>1
        <5>2. x \in spoiled' /\ x.call \in Nat
          BY <2>5
        <5>3. x.call <= Nth(long, r, n + 1) + 1
          BY <2>6, <3>2, <5>1, <5>2
        <5> QED BY <5>1, <5>2, <5>3
      <4>2. CASE Nth(trace, r, n) = Len(old) /\ ~ (loss = "event" /\ r = s)
        BY <2>6, <2>10, <3>2, <4>2
      <4>3. CASE Nth(trace, r, n) = Len(old) /\ loss = "event" /\ r = s
        <5>1. Lost(s, loss) \in spoiled' /\ bad(Lost(s, loss))
          BY <2>5, <4>3
        <5>2. Lost(s, loss).call <= Nth(long, r, n + 1) + 1
          BY <2>6, <2>11, <3>2, <4>3
        <5> QED BY <5>1, <5>2
      <4> QED BY <2>3, <4>1, <4>2, <4>3
    <3>4. ASSUME r = s, Whole(spoiled', "trace", r, Nth(long, r, n + 1))
          PROVE  /\ Nth(long, r, n + 1) \in 1..Len(new)
                 /\ e.tool = new[Nth(long, r, n + 1)].tool
                 /\ e.args = new[Nth(long, r, n + 1)].args
      <4>1. \A x \in spoiled' : bad(x) => Nth(trace, r, n) + 1 < x.call
        BY <3>2, <3>4 DEF Whole
      <4>2. ~ \E x \in spoiled : bad(x) /\ x.call <= Nth(trace, r, n) + 1
        <5> SUFFICES ASSUME NEW x \in spoiled, bad(x), x.call <= Nth(trace, r, n) + 1
                     PROVE  FALSE
          OBVIOUS
        <5>1. x \in spoiled' /\ x.call \in Nat
          BY <2>5
        <5> QED BY <2>6, <4>1, <5>1
      <4>3. Nth(trace, r, n) = Len(old)
        BY <2>3, <4>2
      <4>4. loss # "event"
        <5> SUFFICES ASSUME loss = "event" PROVE FALSE
          OBVIOUS
        <5>1. Lost(s, loss) \in spoiled' /\ bad(Lost(s, loss)) /\ Lost(s, loss).call = Len(old) + 1
          BY <2>5, <2>11, <3>4
        <5> QED BY <2>6, <4>1, <4>3, <5>1
      <4> QED BY <2>1, <2>4, <2>6, <2>10, <3>2, <3>4, <4>3, <4>4
    <3>5. ASSUME NEW j \in 1..(n + 1), long[j].session = r, Whole(spoiled', "trace", r, Nth(long, r, j))
          PROVE  /\ Nth(long, r, j) \in 1..Len(new)
                 /\ long[j].tool = new[Nth(long, r, j)].tool
                 /\ long[j].args = new[Nth(long, r, j)].args
      <4>1. CASE j \in 1..n
        <5>1. long[j] = trace[j] /\ Nth(long, r, j) = Nth(trace, r, j)
          BY <3>1, <4>1
        <5> QED BY <2>12, <3>5, <4>1, <5>1
      <4>2. CASE j = n + 1
        BY <2>1, <3>1, <3>4, <3>5, <4>2
      <4> QED BY <2>6, <3>5, <4>1, <4>2
    <3> QED BY <3>1, <3>3, <3>5 DEF new
  <2> QED BY <2>13, <2>14
<1>6. AuditFollows'
  <2> DEFINE n   == Len(live["old"][s].log)
             rec == [session |-> s, seq |-> n + 1, tool |-> t, action |-> ev("old").action, at |-> now]
             new(r) == live'["old"][r].log
             old(r) == live["old"][r].log
  <2>1. audit' = IF loss \in {"event", "audit"} THEN audit ELSE audit \cup {rec}
    BY <1>2 DEF CaptureDoes, ev
  <2>2. ASSUME NEW r \in Session
        PROVE  /\ Len(old(r)) \in Nat
               /\ loss = "event" \/ r # s => new(r) = old(r)
               /\ loss # "event" /\ r = s => Len(new(r)) = Len(old(r)) + 1
                                             /\ new(r)[Len(old(r)) + 1] = ev("old")
               /\ Len(new(r)) \in Nat /\ Len(old(r)) <= Len(new(r))
               /\ \A i \in 1..Len(old(r)) : new(r)[i] = old(r)[i]
    <3>1. /\ old(r) \in Seq(LogEvent) /\ ev("old") \in LogEvent
          /\ new(r) = IF loss = "event" \/ r # s THEN old(r) ELSE Append(old(r), ev("old"))
      BY <1>1, <1>3, <2>2
    <3> HIDE DEF old, new
    <3> QED BY <3>1
  <2>3. /\ rec.session = s /\ rec.seq = n + 1 /\ rec.tool = t /\ rec.at = now
        /\ rec.action = ev("old").action
    OBVIOUS
  <2>4. ev("old").tool = t /\ ev("old").at = now /\ audit \subseteq AuditRecord
    BY <1>1, <1>3 DEF CaptureType
  <2>5. \A r \in audit : r.session \in Session
    BY <2>4 DEF AuditRecord
  <2>6. /\ \A r, i : Whole(spoiled', "audit", r, i) => Whole(spoiled, "audit", r, i)
        /\ Whole(spoiled', "audit", s, n + 1) => loss # "audit"
    <3>1. spoiled' = IF loss = "none" THEN spoiled ELSE spoiled \cup {Lost(s, loss)}
      BY <1>2 DEF CaptureDoes
    <3>2. \A r, i : Whole(spoiled', "audit", r, i) => Whole(spoiled, "audit", r, i)
      BY <3>1 DEF Whole
    <3>3. ASSUME loss = "audit" PROVE ~ Whole(spoiled', "audit", s, n + 1)
      <4>1. Lost(s, loss) \in spoiled' /\ Lost(s, loss).file = "audit"
            /\ Lost(s, loss).session = s /\ Lost(s, loss).call = n + 1
        BY <3>1, <3>3 DEF Lost
      <4>2. n \in Nat
        BY <1>1, <1>3
      <4>3. ~ n + 1 < n + 1
        BY <4>2
      <4> HIDE DEF n
      <4> QED BY <4>1, <4>3 DEF Whole
    <3> QED BY <3>2, <3>3
  <2>7. n = Len(old(s))
    OBVIOUS
  <2> HIDE DEF new, old, rec, n
  <2>8. ASSUME NEW r \in audit'
        PROVE  /\ r.seq \in 1..Len(new(r.session))
               /\ r.tool = new(r.session)[r.seq].tool /\ r.action = new(r.session)[r.seq].action
               /\ r.at = new(r.session)[r.seq].at
    <3>1. CASE r \in audit
      <4>1. /\ r.seq \in 1..Len(old(r.session))
            /\ r.tool = old(r.session)[r.seq].tool /\ r.action = old(r.session)[r.seq].action
            /\ r.at = old(r.session)[r.seq].at
        BY <3>1 DEF AuditFollows, old
      <4>2. r.session \in Session
        BY <2>5, <3>1
      <4> QED BY <2>2, <4>1, <4>2
    <3>2. CASE r = rec /\ loss \notin {"event", "audit"}
      BY <2>2, <2>3, <2>4, <2>7, <3>2
    <3> QED BY <2>1, <2>8, <3>1, <3>2
  <2>9. ASSUME NEW r \in Session, NEW i \in 1..Len(new(r)), Whole(spoiled', "audit", r, i)
        PROVE  \E x \in audit' : x.session = r /\ x.seq = i
    <3>1. i \in 1..Len(old(r)) => \E x \in audit : x.session = r /\ x.seq = i
      <4>1. Whole(spoiled, "audit", r, i)
        BY <2>6, <2>9
      <4>2. Intact("audit", r, i)
        BY <4>1 DEF Intact, Whole
      <4> QED BY <2>9, <4>2 DEF AuditFollows, old
    <3>2. audit \subseteq audit'
      BY <2>1
    <3>3. CASE i \in 1..Len(old(r))
      BY <3>1, <3>2, <3>3
    <3>4. CASE i \notin 1..Len(old(r))
      <4>1. r = s /\ loss # "event" /\ i = Len(old(s)) + 1
        BY <2>2, <2>9, <3>4
      <4>2. rec \in audit'
        BY <2>1, <2>6, <2>7, <2>9, <4>1
      <4> QED BY <2>3, <2>7, <4>1, <4>2
    <3> QED BY <3>3, <3>4
  <2> QED BY <2>8, <2>9 DEF AuditFollows, new, Intact, Whole
<1> QED BY <1>4, <1>5, <1>6

\* It holds before the first call.
LEMMA CaptureInvInit ==
    Init => CaptureInv
<1> SUFFICES ASSUME Init PROVE CaptureInv
  OBVIOUS
<1>1. NewSession \in Struct
  BY DEF NewSession, Struct
<1>2. \A w \in Version, s \in Session : live[w][s].sess = NewSession /\ live[w][s].log = << >>
  BY DEF Init
<1>3. CaptureType
  <2>1. live \in [Version -> [Session -> [sess : Struct, log : Seq(LogEvent)]]]
    BY <1>1 DEF Init
  <2> QED BY <2>1, FS_EmptySet DEF Init, CaptureType
<1>4. LiveInv
  <2>1. \A pol : SessIs(NewSession, << >>, pol, 0)
    BY SessIsNew
  <2> QED BY <1>2, <2>1 DEF LiveInv
<1>5. "old" \in Version /\ "new" \in Version
  BY DEF Version
<1>6. LogsAlign
  BY <1>2, <1>5 DEF LogsAlign
<1>7. TraceFollows
  <2>1. \A s : Nth(<< >>, s, 0) = 0
    BY NthStep
  <2>2. trace = << >> /\ \A s \in Session : live["old"][s].log = << >>
    BY <1>2, <1>5 DEF Init
  <2> QED BY <2>1, <2>2 DEF TraceFollows
<1>8. AuditFollows
  BY <1>2, <1>5 DEF AuditFollows, Init
<1> QED BY <1>3, <1>4, <1>6, <1>7, <1>8 DEF CaptureInv

\* An approval changes no log.
LEMMA CaptureInvApprove ==
    ASSUME CaptureInv, NEW s \in Session, NEW t \in Tool, NEW a \in Args, Approve(s, t, a)
    PROVE  CaptureInv'
<1>1. /\ UNCHANGED <<pols, clock, live, trace, audit, spoiled>>
      /\ approved \subseteq approved'
  BY DEF Approve
<1>2. LiveInv'
  <2> SUFFICES ASSUME NEW w \in Version, NEW r \in Session
               PROVE  LET log == live[w][r].log
                      IN  /\ SessIs(live[w][r].sess, log, pols[w], Len(log))
                          /\ \A i \in 1..Len(log) : DecidedAt(pols[w], r, log, i, approved')
    BY <1>1 DEF LiveInv
  <2> DEFINE log == live[w][r].log
  <2>1. SessIs(live[w][r].sess, log, pols[w], Len(log))
        /\ \A i \in 1..Len(log) : DecidedAt(pols[w], r, log, i, approved)
    BY DEF CaptureInv, LiveInv
  <2>2. log \in Seq(LogEvent)
    BY DEF CaptureInv, CaptureType
  <2>3. ASSUME NEW i \in 1..Len(log)
        PROVE  DecidedAt(pols[w], r, log, i, approved')
    <3>1. PICK x, at, ok :
            /\ SessIs(x.sess, log, pols[w], i - 1)
            /\ Len(x.log) = i - 1 /\ SameCalls(x.log, log, i - 1)
            /\ ok => <<r, log[i].tool, log[i].args>> \in approved
            /\ log[i].action = Decide(ProxyVerdict(pols[w], log[i].tool, log[i].args, at, x, ok),
                                      log[i].tool, pols[w])
            /\ log[i].rule = ProxyRule(pols[w], log[i].tool, x)
      BY <2>1 DEF DecidedAt
    <3> HIDE DEF log
    <3> QED BY <1>1, <3>1 DEF DecidedAt
  <2> QED BY <2>1, <2>3
<1>3. CaptureType'
  BY <1>1 DEF CaptureInv, CaptureType
<1>4. LogsAlign'
  BY <1>1 DEF CaptureInv, LogsAlign
<1>5. TraceFollows'
  BY <1>1 DEF CaptureInv, TraceFollows, Intact
<1>6. AuditFollows'
  BY <1>1 DEF CaptureInv, AuditFollows, Intact
<1> QED BY <1>2, <1>3, <1>4, <1>5, <1>6 DEF CaptureInv

\* A call, with whatever it loses, keeps it.
LEMMA CaptureInvCapture ==
    ASSUME CaptureInv, NEW s \in Session, NEW t \in Tool, NEW a \in Args,
           NEW loss \in Loss, NEW now \in Nat, Capture(s, t, a, loss, now)
    PROVE  CaptureInv'
<1>1. CaptureType'
  BY CaptureTypeStep DEF CaptureInv
<1>2. LiveInv'
  BY LiveStep DEF CaptureInv
<1>3. LogsAlign' /\ TraceFollows' /\ AuditFollows'
  BY FilesStep
<1> QED BY <1>1, <1>2, <1>3 DEF CaptureInv

\* It is about the variables of the capture only.
LEMMA CaptureInvFrozen ==
    CaptureInv /\ UNCHANGED captureVars => CaptureInv'
BY DEF CaptureInv, captureVars, CaptureType, LiveInv, LogsAlign, TraceFollows, AuditFollows, Intact

\* The steps of a command leave the proxy's tables alone.
LEMMA CommandsDoNotCapture ==
    \/ runSimulate \/ runReplay \/ ReadEntry \/ EndOfFile \/ Evaluate \/ OldPass
    => UNCHANGED captureVars
BY DEF runSimulate, runReplay, Start, ReadEntry, EndOfFile, Evaluate, OldPass

\* Every step of Offline keeps it.
LEMMA CaptureInvNext ==
    CaptureInv /\ [Next]_vars => CaptureInv'
<1> SUFFICES ASSUME CaptureInv, [Next]_vars PROVE CaptureInv'
  OBVIOUS
<1>1. CASE \E s \in Session, t \in Tool, a \in Args : Approve(s, t, a)
  BY <1>1, CaptureInvApprove
<1>2. CASE \E s \in Session, t \in Tool, a \in Args, loss \in Loss : \E now \in clock..MaxTime :
              Capture(s, t, a, loss, now)
  <2>1. clock..MaxTime \subseteq Nat
    BY OfflineAssumption DEF CaptureInv, CaptureType
  <2> QED BY <1>2, <2>1, CaptureInvCapture
<1>3. CASE runSimulate \/ runReplay \/ ReadEntry \/ EndOfFile \/ Evaluate \/ OldPass
  BY <1>3, CommandsDoNotCapture, CaptureInvFrozen
<1>4. CASE UNCHANGED vars
  <2>1. UNCHANGED captureVars
    BY <1>4 DEF vars, captureVars
  <2> QED BY <2>1, CaptureInvFrozen
<1> QED BY <1>1, <1>2, <1>3, <1>4, Zenon DEF Next

\* And every step of PolicyTools.
LEMMA CaptureInvTools ==
    CaptureInv /\ [ToolsNext]_toolsVars => CaptureInv'
<1> SUFFICES ASSUME CaptureInv, [ToolsNext]_toolsVars PROVE CaptureInv'
  OBVIOUS
<1>1. CASE \E s \in Session, t \in Tool, a \in Args : Approve(s, t, a)
  BY <1>1, CaptureInvApprove
<1>2. CASE \E s \in Session, t \in Tool, a \in Args : Capture(s, t, a, "none", clock)
  <2>1. clock \in Nat /\ "none" \in Loss
    BY DEF CaptureInv, CaptureType, Loss
  <2> QED BY <1>2, <2>1, CaptureInvCapture
<1>3. CASE runSimulate \/ ReadEntry \/ EndOfFile \/ Evaluate \/ OldPass
  BY <1>3, CommandsDoNotCapture, CaptureInvFrozen
<1>4. CASE \E s \in Session : runInspect(s) \/ detectTaintCausingEvents(s)
  <2>1. UNCHANGED captureVars
    BY <1>4 DEF runInspect, detectTaintCausingEvents, vars, captureVars
  <2> QED BY <2>1, CaptureInvFrozen
<1>5. CASE UNCHANGED toolsVars
  <2>1. UNCHANGED captureVars
    BY <1>5 DEF toolsVars, vars, captureVars
  <2> QED BY <2>1, CaptureInvFrozen
<1> QED BY <1>1, <1>2, <1>3, <1>4, <1>5, Zenon DEF ToolsNext

-----------------------------------------------------------------------------
(* session inspect.                                                         *)

Scan == [session : SUBSET Session, seq : Nat, last : Nat, active : BOOLEAN, result : SUBSET Nat]

\* From event i of the log to event n, the session was tainted.
TaintedFromTo(log, pol, i, n) == \A k \in i..n : TaintedAfter(log, pol, k)

\* The loop has a candidate after which no call was allowed; while a cycle is
\* open the session has been tainted since a marked call; and all the denials
\* so far are explained.
Scanned(acc, log, pol) ==
    /\ acc.seq <= Len(log) /\ acc.last <= acc.seq
    /\ \A k \in (acc.last + 1)..acc.seq : log[k].action # "allow"
    /\ acc.active => \E i \in acc.result : i <= acc.seq /\ TaintedFromTo(log, pol, i, acc.seq)
    /\ \A n \in 1..acc.seq : TaintDenial(log[n]) =>
          \E i \in acc.result : i < n /\ TaintedFromTo(log, pol, i, n - 1)

\* A call that is not allowed leaves the taint as it is.
LEMMA TaintStays ==
    ASSUME NEW log, NEW pol, NEW k \in Nat, TaintedAfter(log, pol, k),
           log[k + 1].action # "allow"
    PROVE  TaintedAfter(log, pol, k + 1)
<1>1. PICK j \in 1..k :
        /\ log[j].action = "allow" /\ pol.tools[log[j].tool].applies
        /\ \A i \in (j + 1)..k : log[i].action = "allow" => ~ pol.tools[log[i].tool].clears
  BY DEF TaintedAfter
<1>2. j \in 1..(k + 1)
  OBVIOUS
<1>3. \A i \in (j + 1)..(k + 1) : i \in (j + 1)..k \/ i = k + 1
  OBVIOUS
<1>4. \A i \in (j + 1)..(k + 1) : log[i].action = "allow" => ~ pol.tools[log[i].tool].clears
  BY <1>1, <1>3
<1> QED BY <1>1, <1>2, <1>4 DEF TaintedAfter

\* After the last allowed call, the session is tainted all along or not at all.
LEMMA TaintSinceLast ==
    ASSUME NEW log, NEW pol, NEW n \in Nat, NEW last \in Nat, last <= n,
           \A k \in (last + 1)..n : log[k].action # "allow", TaintedAfter(log, pol, n)
    PROVE  last > 0 /\ TaintedFromTo(log, pol, last, n)
<1>1. PICK j \in 1..n :
        /\ log[j].action = "allow" /\ pol.tools[log[j].tool].applies
        /\ \A i \in (j + 1)..n : log[i].action = "allow" => ~ pol.tools[log[i].tool].clears
  BY DEF TaintedAfter
<1>2. j <= last
  BY <1>1
<1>3. ASSUME NEW k \in last..n
      PROVE  TaintedAfter(log, pol, k)
  <2>1. j \in 1..k /\ \A i \in (j + 1)..k : i \in (j + 1)..n
    BY <1>2, <1>3
  <2> QED BY <1>1, <2>1 DEF TaintedAfter
<1> QED BY <1>2, <1>3 DEF TaintedFromTo

\* One iteration.
LEMMA ScanStep ==
    ASSUME NEW log \in Seq(LogEvent), NEW pol, NEW acc \in Scan, Scanned(acc, log, pol),
           acc.seq < Len(log),
           \A n \in 1..Len(log) :
              log[n].rule = "taint.session_tainted" => TaintedAfter(log, pol, n - 1)
    PROVE  LET new == ScanEvent([acc EXCEPT !.seq = @ + 1], log[acc.seq + 1])
           IN  /\ new \in Scan /\ new.session = acc.session
               /\ Scanned(new, log, pol)
<1> DEFINE n   == acc.seq
           e   == log[n + 1]
           b   == [acc EXCEPT !.seq = @ + 1]
           new == ScanEvent(b, e)
<1> SUFFICES new \in Scan /\ new.session = acc.session /\ Scanned(new, log, pol)
  OBVIOUS
<1>0. /\ b \in Scan /\ b.session = acc.session /\ b.seq = n + 1 /\ b.last = acc.last
      /\ b.active = acc.active /\ b.result = acc.result
  BY DEF Scan
<1> HIDE DEF b
<1>1. /\ n \in Nat /\ acc.last \in Nat /\ acc.result \in SUBSET Nat /\ acc.active \in BOOLEAN
      /\ n + 1 \in 1..Len(log) /\ Len(log) \in Nat /\ e \in LogEvent
      /\ acc.last <= n
  BY DEF Scan, Scanned
<1>2. \A k \in 1..(n + 1) : k \in 1..n \/ k = n + 1
  BY <1>1
<1>3. ASSUME NEW R \in SUBSET Nat, acc.result \subseteq R, NEW k \in 1..n, TaintDenial(log[k])
      PROVE  \E i \in R : i < k /\ TaintedFromTo(log, pol, i, k - 1)
  BY <1>3 DEF Scanned
<1>4. CASE TaintDenial(e) /\ ~ acc.active
  <2>1. e.rule = "taint.session_tainted" /\ e.action = "deny"
    BY <1>4 DEF TaintDenial
  <2>2. TaintedAfter(log, pol, n)
    <3>1. (n + 1) - 1 = n
      BY <1>1
    <3> QED BY <1>1, <2>1, <3>1
  <2>3. acc.last > 0 /\ TaintedFromTo(log, pol, acc.last, n)
    BY <1>1, <2>2, TaintSinceLast DEF Scanned
  <2>4. new = [b EXCEPT !.result = b.result \cup {b.last}, !.active = TRUE]
    BY <1>0, <1>4, <2>3 DEF ScanEvent, Scan
  <2>5. TaintedAfter(log, pol, n + 1)
    BY <1>1, <2>1, <2>2, TaintStays
  <2>6. TaintedFromTo(log, pol, acc.last, n + 1)
    <3>1. \A k \in acc.last..(n + 1) : k \in acc.last..n \/ k = n + 1
      BY <1>1
    <3> QED BY <2>3, <2>5, <3>1 DEF TaintedFromTo
  <2>7. /\ new \in Scan /\ new.session = acc.session /\ new.seq = n + 1 /\ new.last = acc.last
        /\ new.result = acc.result \cup {acc.last}
    BY <1>0, <1>1, <2>4 DEF Scan
  <2> HIDE DEF new
  <2>8. \A k \in (new.last + 1)..new.seq : log[k].action # "allow"
    <3>1. \A k \in (acc.last + 1)..(n + 1) : k \in (acc.last + 1)..n \/ k = n + 1
      BY <1>1
    <3> QED BY <2>1, <2>7, <3>1 DEF Scanned
  <2>9. \E i \in new.result : i <= new.seq /\ TaintedFromTo(log, pol, i, new.seq)
    BY <1>1, <2>6, <2>7
  <2>10. ASSUME NEW k \in 1..new.seq, TaintDenial(log[k])
         PROVE  \E i \in new.result : i < k /\ TaintedFromTo(log, pol, i, k - 1)
    <3>1. CASE k \in 1..n
      BY <1>1, <1>3, <2>7, <2>10, <3>1
    <3>2. CASE k = n + 1
      <4>1. k - 1 = n /\ acc.last < k
        BY <1>1, <3>2
      <4> QED BY <2>3, <2>7, <4>1
    <3> QED BY <1>2, <2>7, <3>1, <3>2
  <2> QED BY <1>1, <2>7, <2>8, <2>9, <2>10 DEF Scanned
<1>5. CASE ~ (TaintDenial(e) /\ ~ acc.active) /\ e.action = "allow"
  <2>1. new = [b EXCEPT !.last = b.seq, !.active = FALSE]
    BY <1>0, <1>5 DEF ScanEvent, Scan
  <2>2. /\ new \in Scan /\ new.session = acc.session /\ new.seq = n + 1 /\ new.last = n + 1
        /\ new.result = acc.result /\ ~ new.active
    BY <1>0, <1>1, <2>1 DEF Scan
  <2>3. ~ TaintDenial(e)
    BY <1>5 DEF TaintDenial
  <2> HIDE DEF new
  <2>4. ASSUME NEW k \in 1..new.seq, TaintDenial(log[k])
        PROVE  \E i \in new.result : i < k /\ TaintedFromTo(log, pol, i, k - 1)
    BY <1>1, <1>2, <1>3, <2>2, <2>3, <2>4
  <2>5. (new.last + 1)..new.seq = {}
    BY <1>1, <2>2
  <2> QED BY <1>1, <2>2, <2>4, <2>5 DEF Scanned
<1>6. CASE ~ (TaintDenial(e) /\ ~ acc.active) /\ e.action # "allow"
  <2> DEFINE moved == Counts(e) /\ e.rule # "taint.session_tainted"
  <2>1. new = IF moved THEN [b EXCEPT !.last = b.seq] ELSE b
    BY <1>0, <1>6 DEF ScanEvent
  <2>2. /\ new \in Scan /\ new.session = acc.session /\ new.seq = n + 1
        /\ new.last \in {acc.last, n + 1}
        /\ new.result = acc.result /\ new.active = acc.active
    BY <1>0, <1>1, <2>1 DEF Scan
  <2> HIDE DEF new, moved
  <2>3. \A k \in (new.last + 1)..new.seq : log[k].action # "allow"
    <3>1. \A k \in (new.last + 1)..(n + 1) : k \in (acc.last + 1)..n \/ k = n + 1
      BY <1>1, <2>2
    <3> QED BY <1>6, <2>2, <3>1 DEF Scanned
  <2>4. ASSUME acc.active
        PROVE  \E i \in acc.result : i <= n /\ TaintedFromTo(log, pol, i, n)
                                     /\ TaintedFromTo(log, pol, i, n + 1)
    <3>1. PICK i \in acc.result : i <= n /\ TaintedFromTo(log, pol, i, n)
      BY <2>4 DEF Scanned
    <3>2. i \in Nat /\ n \in i..n
      BY <1>1, <3>1
    <3>3. TaintedAfter(log, pol, n)
      BY <3>1, <3>2 DEF TaintedFromTo
    <3>4. TaintedAfter(log, pol, n + 1)
      BY <1>1, <1>6, <3>3, TaintStays
    <3>5. \A k \in i..(n + 1) : k \in i..n \/ k = n + 1
      BY <1>1, <3>2
    <3> QED BY <3>1, <3>4, <3>5 DEF TaintedFromTo
  <2>5. new.active => \E i \in new.result : i <= new.seq /\ TaintedFromTo(log, pol, i, new.seq)
    BY <1>1, <2>2, <2>4
  <2>6. ASSUME NEW k \in 1..new.seq, TaintDenial(log[k])
        PROVE  \E i \in new.result : i < k /\ TaintedFromTo(log, pol, i, k - 1)
    <3>1. CASE k \in 1..n
      BY <1>1, <1>3, <2>2, <2>6, <3>1
    <3>2. CASE k = n + 1
      <4>1. acc.active
        BY <1>6, <2>6, <3>2
      <4>2. PICK i \in acc.result : i <= n /\ TaintedFromTo(log, pol, i, n)
        BY <2>4, <4>1
      <4>3. i \in Nat /\ i < k /\ k - 1 = n
        BY <1>1, <3>2, <4>2
      <4> QED BY <2>2, <4>2, <4>3
    <3> QED BY <1>2, <2>2, <3>1, <3>2
  <2> QED BY <1>1, <2>2, <2>3, <2>5, <2>6 DEF Scanned
<1> QED BY <1>4, <1>5, <1>6

\* An event carries the rule of the taint stage only in a tainted session.
LEMMA TaintRuleMeansTainted ==
    ASSUME CaptureInv, NEW s \in Session, NEW n \in 1..Len(live["old"][s].log),
           live["old"][s].log[n].rule = "taint.session_tainted"
    PROVE  TaintedAfter(live["old"][s].log, pols["old"], n - 1)
<1> DEFINE log == live["old"][s].log
           pol == pols["old"]
<1>1. DecidedAt(pol, s, log, n, approved)
  BY DEF CaptureInv, LiveInv, Version
<1>2. PICK x, at, ok :
        /\ SessIs(x.sess, log, pol, n - 1)
        /\ log[n].rule = ProxyRule(pol, log[n].tool, x)
  BY <1>1 DEF DecidedAt
<1>3. TaintEvaluator(log[n].tool, x.sess, pol) # "allow"
  BY <1>2 DEF ProxyRule
<1>4. x.sess.tainted
  BY <1>3 DEF TaintEvaluator
<1> QED BY <1>2, <1>4 DEF SessIs

\* One session is inspected, and the scan of its log is as Scanned says.
ScanInv ==
    /\ scan \in Scan
    /\ job # "inspect" => scan = [session |-> {}, seq |-> 0, last |-> 0,
                                  active |-> FALSE, result |-> {}]
    /\ \A r, s \in scan.session : r = s
    /\ \A s \in scan.session : Scanned(scan, live["old"][s].log, pols["old"])

\* Nothing has been scanned.
LEMMA ScanInvInit ==
    ToolsInit => ScanInv
BY DEF ToolsInit, Init, ScanInv, Scan

\* Every step keeps it: the session does not change while it is inspected.
LEMMA ScanInvNext ==
    CaptureInv /\ ScanInv /\ [ToolsNext]_toolsVars => ScanInv'
<1> SUFFICES ASSUME CaptureInv, ScanInv, [ToolsNext]_toolsVars PROVE ScanInv'
  OBVIOUS
<1>1. CASE \E s \in Session : runInspect(s)
  <2>1. PICK s \in Session : runInspect(s)
    BY <1>1
  <2>2. /\ scan = [session |-> {}, seq |-> 0, last |-> 0, active |-> FALSE, result |-> {}]
        /\ job' = "inspect" /\ live' = live /\ pols' = pols
    BY <2>1 DEF runInspect, ScanInv, captureVars
  <2>3. scan' = [session |-> {s}, seq |-> 0, last |-> 0, active |-> FALSE, result |-> {}]
    BY <2>1, <2>2 DEF runInspect
  <2>4. Len(live["old"][s].log) \in Nat
    BY DEF CaptureInv, CaptureType, Version
  <2>5. Scanned(scan', live["old"][s].log, pols["old"])
    BY <2>3, <2>4 DEF Scanned
  <2>6. scan' \in Scan /\ scan'.session = {s}
    BY <2>3 DEF Scan
  <2> QED BY <2>2, <2>5, <2>6 DEF ScanInv
<1>2. CASE \E s \in Session : detectTaintCausingEvents(s)
  <2>1. PICK s \in Session : detectTaintCausingEvents(s)
    BY <1>2
  <2>2. /\ s \in scan.session /\ scan.seq < Len(live["old"][s].log)
        /\ scan' = ScanEvent([scan EXCEPT !.seq = @ + 1], live["old"][s].log[scan.seq + 1])
        /\ job = "inspect" /\ job' = job /\ live' = live /\ pols' = pols
    BY <2>1 DEF detectTaintCausingEvents, vars
  <2>3. ASSUME NEW r \in scan.session, scan.seq < Len(live["old"][r].log),
               scan' = ScanEvent([scan EXCEPT !.seq = @ + 1], live["old"][r].log[scan.seq + 1])
        PROVE  scan' \in Scan /\ scan'.session = scan.session
               /\ Scanned(scan', live["old"][r].log, pols["old"])
    <3>1. r \in Session /\ scan \in Scan /\ Scanned(scan, live["old"][r].log, pols["old"])
      BY <2>3 DEF ScanInv, Scan
    <3>2. live["old"][r].log \in Seq(LogEvent)
      BY <3>1 DEF CaptureInv, CaptureType, Version
    <3>3. \A n \in 1..Len(live["old"][r].log) :
             live["old"][r].log[n].rule = "taint.session_tainted"
             => TaintedAfter(live["old"][r].log, pols["old"], n - 1)
      BY <3>1, TaintRuleMeansTainted
    <3> QED BY <2>3, <3>1, <3>2, <3>3, ScanStep
  <2>4. scan.session = {s}
    BY <2>2 DEF ScanInv
  <2> QED BY <2>2, <2>3, <2>4 DEF ScanInv
<1>3. CASE /\ \/ \E s \in Session, t \in Tool, a \in Args :
                   Capture(s, t, a, "none", clock) \/ Approve(s, t, a)
              \/ runSimulate
              \/ ReadEntry
              \/ EndOfFile
              \/ Evaluate
              \/ OldPass
           /\ UNCHANGED scan
  <2>1. CASE \E s \in Session, t \in Tool, a \in Args :
                Capture(s, t, a, "none", clock) \/ Approve(s, t, a)
    <3>1. job = "capture" /\ job' = "capture"
      BY <2>1 DEF Capture, Approve, commandVars
    <3> QED BY <1>3, <3>1 DEF ScanInv
  <2>2. CASE runSimulate \/ ReadEntry \/ EndOfFile \/ Evaluate \/ OldPass
    <3>1. job # "inspect" /\ job' # "inspect"
      BY <2>2 DEF runSimulate, Start, ReadEntry, EndOfFile, Evaluate, OldPass
    <3> QED BY <1>3, <3>1 DEF ScanInv
  <2> QED BY <1>3, <2>1, <2>2
<1>4. CASE UNCHANGED toolsVars
  <2>1. scan' = scan /\ job' = job /\ live' = live /\ pols' = pols
    BY <1>4 DEF toolsVars, vars
  <2> QED BY <2>1 DEF ScanInv
<1> QED BY <1>1, <1>2, <1>3, <1>4 DEF ToolsNext

\* Every call denied because of the taint is explained by the diagram of
\* `session inspect`: detectTaintCausingEvents marks a call before it from which
\* on the session was tainted, whatever the policies and the calls are.
THEOREM InspectExplains ==
    ToolsSpec => []TaintDenialsExplained
<1>1. ToolsInit => CaptureInv /\ ScanInv
  BY CaptureInvInit, ScanInvInit DEF ToolsInit
<1>2. CaptureInv /\ ScanInv /\ [ToolsNext]_toolsVars => CaptureInv' /\ ScanInv'
  BY CaptureInvTools, ScanInvNext
<1>3. ScanInv => TaintDenialsExplained
  BY DEF ScanInv, Scanned, TaintedFromTo, TaintDenialsExplained
<1> QED BY <1>1, <1>2, <1>3, PTL DEF ToolsSpec

-----------------------------------------------------------------------------
(* policy diff: when it is silent, the files have the same rules.           *)

\* The policies agree on all that `simulate` reads.
SameRules(p, q) ==
    /\ p.mode = q.mode /\ p.mayUse = q.mayUse
    /\ p.maxCalls = q.maxCalls /\ p.maxCost = q.maxCost
    /\ \A t \in Tool :
          /\ p.tools[t].mode = q.tools[t].mode
          /\ p.tools[t].onlyAfter = q.tools[t].onlyAfter
          /\ p.tools[t].neverAfter = q.tools[t].neverAfter
          /\ p.tools[t].priorN = q.tools[t].priorN
          /\ p.tools[t].applies = q.tools[t].applies
          /\ p.tools[t].clears = q.tools[t].clears
          /\ p.tools[t].rateLimit = q.tools[t].rateLimit
          /\ p.tools[t].escalateWhen = q.tools[t].escalateWhen

\* Lists without repetitions that sameStringSet accepts have the same members.
LEMMA SameStringSetSound ==
    ASSUME NEW a \in Seq(Tool), NEW b \in Seq(Tool), IsInjective(a), IsInjective(b),
           sameStringSet(a, b)
    PROVE  ToSet(a) = ToSet(b)
<1>1. ASSUME NEW c \in Seq(Tool), IsInjective(c)
      PROVE  IsFiniteSet(ToSet(c)) /\ Cardinality(ToSet(c)) = Len(c)
  <2>1. Len(c) \in Nat /\ DOMAIN c = 1..Len(c)
    OBVIOUS
  <2>2. c \in Bijection(1..Len(c), ToSet(c))
    <3>1. c \in [1..Len(c) -> ToSet(c)]
      BY <1>1, <2>1 DEF ToSet
    <3>2. \A x \in ToSet(c) : \E i \in 1..Len(c) : c[i] = x
      BY <2>1 DEF ToSet
    <3> QED BY <1>1, <3>1, <3>2 DEF Bijection, Injection, Surjection
  <2>3. IsFiniteSet(1..Len(c)) /\ Cardinality(1..Len(c)) = Len(c)
    BY <2>1, UpToFinite
  <2>4. ExistsBijection(1..Len(c), ToSet(c))
    BY <2>2 DEF ExistsBijection
  <2> QED BY <2>3, <2>4, FS_Bijection
<1>2. Len(a) = Len(b) /\ ToSet(b) \subseteq ToSet(a)
  BY DEF sameStringSet
<1> QED BY <1>1, <1>2, FS_Subset

\* What the diff compares of one tool that both files have.
LEMMA NoChangedFields ==
    ASSUME NEW o \in ToolEntry, NEW n \in ToolEntry, ChangedFields(o, n) = {}
    PROVE  /\ sameStringSet(o.onlyAfter, n.onlyAfter) /\ sameStringSet(o.neverAfter, n.neverAfter)
           /\ o.mode = n.mode /\ o.priorN = n.priorN /\ o.applies = n.applies /\ o.clears = n.clears
           /\ sameEscalateRule(o.escalateWhen, n.escalateWhen)
<1>1. \A f \in {"onlyAfter", "neverAfter"} : sameStringSet(o[f], n[f])
  BY DEF ChangedFields
<1>2. \A f \in {"mode", "priorN", "applies", "clears"} : o[f] = n[f]
  BY DEF ChangedFields
<1>3. \A f \in {"escalateWhen"} : sameEscalateRule(o[f], n[f])
  BY DEF ChangedFields
<1> QED BY <1>1, <1>2, <1>3

\* The fields of a parsed file.
LEMMA ParseFields ==
    ASSUME NEW f
    PROVE  /\ ParseFile(f).mode = f.mode /\ ParseFile(f).mayUse = ToSet(f.mayUse)
           /\ ParseFile(f).maxCalls = f.maxCalls /\ ParseFile(f).maxCost = f.maxCost
           /\ \A t \in Tool :
                 /\ t \in DOMAIN f.tools => ParseFile(f).tools[t] = ParseEntry(f.tools[t])
                 /\ t \notin DOMAIN f.tools => ParseFile(f).tools[t] = NoEntry
BY DEF ParseFile

\* The fields of a parsed entry.
LEMMA ParseEntryFields ==
    ASSUME NEW e \in ToolEntry
    PROVE  /\ ParseEntry(e).mode = e.mode /\ ParseEntry(e).priorN = e.priorN
           /\ ParseEntry(e).applies = e.applies /\ ParseEntry(e).clears = e.clears
           /\ ParseEntry(e).onlyAfter = ToSet(e.onlyAfter)
           /\ ParseEntry(e).neverAfter = ToSet(e.neverAfter)
           /\ ParseEntry(e).escalateWhen = {r.outcomes : r \in e.escalateWhen}
BY DEF ParseEntry, ToolEntry

\* A silent diff compares everything that `simulate` reads but the rate limits.
LEMMA SilentMeansSameRules ==
    ASSUME pols \in Pairs, NEW fp \in Compared, printDiff(fp.old, fp.new) = {},
           NoRepeats(fp.old), NoRepeats(fp.new), SameTypes(fp),
           RateLimits(pols.old) = RateLimits(pols.new)
    PROVE  SameRules(pols["old"], pols["new"])
<1> DEFINE o == fp.old
           n == fp.new
           p == pols["old"]
           q == pols["new"]
<1>1. fp \in FilePairs /\ p = ParseFile(o) /\ q = ParseFile(n)
  BY DEF Compared, Parsed
<1>2. /\ o.mayUse \in Seq(Tool) /\ n.mayUse \in Seq(Tool)
      /\ \A t \in DOMAIN o.tools : o.tools[t] \in ToolEntry
      /\ \A t \in DOMAIN n.tools : n.tools[t] \in ToolEntry
      /\ \A t \in DOMAIN o.tools \cap DOMAIN n.tools :
            \A a \in o.tools[t].escalateWhen, b \in n.tools[t].escalateWhen :
               a.text = b.text /\ a.type = b.type => a.outcomes = b.outcomes
  BY <1>1, ToolsAssumption DEF Version
<1>3. ASSUME NEW f \in {"mode", "maxCalls", "maxCost", "maxHistory"}, o[f] # n[f]
      PROVE  FALSE
  <2>1. <<f>> \in printDiff(o, n)
    BY <1>3 DEF printDiff
  <2> QED BY <2>1
<1>4. ToSet(o.mayUse) = ToSet(n.mayUse)
  <2>1. ASSUME NEW t \in ToSet(n.mayUse) \ ToSet(o.mayUse) PROVE FALSE
    <3>1. <<"may_use", "added", t>> \in printDiff(o, n)
      BY <2>1 DEF printDiff
    <3> QED BY <3>1
  <2>2. ASSUME NEW t \in ToSet(o.mayUse) \ ToSet(n.mayUse) PROVE FALSE
    <3>1. <<"may_use", "removed", t>> \in printDiff(o, n)
      BY <2>2 DEF printDiff
    <3> QED BY <3>1
  <2> QED BY <2>1, <2>2
<1>5. DOMAIN o.tools = DOMAIN n.tools
  <2>1. ASSUME NEW t \in DOMAIN n.tools \ DOMAIN o.tools PROVE FALSE
    <3>1. <<"tools", "added", t>> \in printDiff(o, n)
      BY <2>1 DEF printDiff
    <3> QED BY <3>1
  <2>2. ASSUME NEW t \in DOMAIN o.tools \ DOMAIN n.tools PROVE FALSE
    <3>1. <<"tools", "removed", t>> \in printDiff(o, n)
      BY <2>2 DEF printDiff
    <3> QED BY <3>1
  <2> QED BY <2>1, <2>2
<1>6. ASSUME NEW t \in DOMAIN o.tools
      PROVE  ChangedFields(o.tools[t], n.tools[t]) = {}
  <2>1. ASSUME NEW f \in ChangedFields(o.tools[t], n.tools[t]) PROVE FALSE
    <3>1. <<"tools", f, t>> \in {<<"tools", g, t>> : g \in ChangedFields(o.tools[t], n.tools[t])}
      BY <2>1
    <3>2. t \in DOMAIN o.tools \cap DOMAIN n.tools
      BY <1>5, <1>6
    <3>3. <<"tools", f, t>> \in UNION {{<<"tools", g, u>> : g \in ChangedFields(o.tools[u], n.tools[u])} :
                                         u \in DOMAIN o.tools \cap DOMAIN n.tools}
      BY <3>1, <3>2
    <3>4. <<"tools", f, t>> \in printDiff(o, n)
      BY <3>3 DEF printDiff
    <3> QED BY <3>4
  <2> QED BY <2>1
<1>7. p.mode = q.mode /\ p.mayUse = q.mayUse /\ p.maxCalls = q.maxCalls /\ p.maxCost = q.maxCost
  <2>1. o.mode = n.mode /\ o.maxCalls = n.maxCalls /\ o.maxCost = n.maxCost
    BY <1>3
  <2> QED BY <1>1, <1>4, <2>1, ParseFields
<1>8. ASSUME NEW t \in Tool
      PROVE  /\ p.tools[t].mode = q.tools[t].mode
             /\ p.tools[t].onlyAfter = q.tools[t].onlyAfter
             /\ p.tools[t].neverAfter = q.tools[t].neverAfter
             /\ p.tools[t].priorN = q.tools[t].priorN
             /\ p.tools[t].applies = q.tools[t].applies
             /\ p.tools[t].clears = q.tools[t].clears
             /\ p.tools[t].escalateWhen = q.tools[t].escalateWhen
  <2>1. CASE t \notin DOMAIN o.tools
    <3>1. p.tools[t] = q.tools[t]
      BY <1>1, <1>5, <1>8, <2>1, ParseFields
    <3> QED BY <3>1
  <2>2. CASE t \in DOMAIN o.tools
    <3> DEFINE a == o.tools[t]
               b == n.tools[t]
    <3>1. a \in ToolEntry /\ b \in ToolEntry /\ ChangedFields(a, b) = {}
      BY <1>2, <1>5, <1>6, <2>2
    <3>2. p.tools[t] = ParseEntry(a) /\ q.tools[t] = ParseEntry(b)
      BY <1>1, <1>5, <1>8, <2>2, ParseFields
    <3>3. ToSet(a.onlyAfter) = ToSet(b.onlyAfter) /\ ToSet(a.neverAfter) = ToSet(b.neverAfter)
      <4>1. /\ a.onlyAfter \in Seq(Tool) /\ b.onlyAfter \in Seq(Tool)
            /\ a.neverAfter \in Seq(Tool) /\ b.neverAfter \in Seq(Tool)
        BY <3>1 DEF ToolEntry
      <4>2. /\ IsInjective(a.onlyAfter) /\ IsInjective(b.onlyAfter)
            /\ IsInjective(a.neverAfter) /\ IsInjective(b.neverAfter)
        BY <1>5, <2>2 DEF NoRepeats
      <4>3. sameStringSet(a.onlyAfter, b.onlyAfter) /\ sameStringSet(a.neverAfter, b.neverAfter)
        BY <3>1, NoChangedFields
      <4> HIDE DEF a, b
      <4> QED BY <4>1, <4>2, <4>3, SameStringSetSound
    <3>4. a.mode = b.mode /\ a.priorN = b.priorN /\ a.applies = b.applies /\ a.clears = b.clears
      BY <3>1, NoChangedFields
    <3>5. {r.outcomes : r \in a.escalateWhen} = {r.outcomes : r \in b.escalateWhen}
      <4>1. {r.text : r \in a.escalateWhen} = {r.text : r \in b.escalateWhen}
        BY <3>1, NoChangedFields DEF sameEscalateRule
      <4>2. \A x \in a.escalateWhen, y \in b.escalateWhen :
               x.type = y.type /\ (x.text = y.text => x.outcomes = y.outcomes)
        BY <1>2, <1>5, <2>2 DEF SameTypes
      <4> HIDE DEF a, b
      <4>3. \A x \in a.escalateWhen : \E y \in b.escalateWhen : x.outcomes = y.outcomes
        <5>1. \A x \in a.escalateWhen : \E y \in b.escalateWhen : x.text = y.text
          BY <4>1
        <5> QED BY <4>2, <5>1
      <4>4. \A y \in b.escalateWhen : \E x \in a.escalateWhen : x.outcomes = y.outcomes
        <5>1. ASSUME NEW y \in b.escalateWhen PROVE \E x \in a.escalateWhen : x.text = y.text
          <6>1. y.text \in {r.text : r \in b.escalateWhen}
            OBVIOUS
          <6>2. y.text \in {r.text : r \in a.escalateWhen}
            BY <4>1, <6>1
          <6> QED BY <6>2
        <5> QED BY <4>2, <5>1
      <4> QED BY <4>3, <4>4
    <3> HIDE DEF a, b, p, q
    <3> QED BY <3>1, <3>2, <3>3, <3>4, <3>5, ParseEntryFields
  <2> QED BY <2>1, <2>2
<1>9. \A t \in Tool : p.tools[t].rateLimit = q.tools[t].rateLimit
  BY DEF RateLimits
<1> QED BY <1>7, <1>8, <1>9 DEF SameRules

-----------------------------------------------------------------------------
(* The commands.                                                            *)

FileEntry  == IF job = "replay" THEN AuditRecord ELSE TraceEntry
StoreEvent == [tool : Tool, action : Action, at : Nat]
Row        == [session : Session, seq : Nat, action : Action]
Position   == [group : Nat \ {0}, entry : Nat \ {0}]

First    == [group |-> 1, entry |-> 1]
NoEvents == [s \in Session |-> << >>]

CommandType ==
    /\ job \in {"capture", "simulate", "replay", "inspect"}
    /\ pass \in {"read", "new", "old"} /\ (job = "replay" => pass # "old")
    /\ job \in {"capture", "inspect"} =>
          input = << >> /\ line = 1 /\ groups = << >> /\ pass = "read"
    /\ pass = "read" => /\ pos = First /\ sess = NewSession /\ store = NoEvents
                        /\ results = [v \in Version |-> << >>]
    /\ input \in Seq(FileEntry) /\ line \in Nat \ {0}
    /\ groups \in Seq(Seq(FileEntry)) /\ \A g \in 1..Len(groups) : groups[g] # << >>
    /\ pos \in Position
    /\ pos.group <= Len(groups) => pos.entry <= Len(groups[pos.group])
    /\ sess \in Struct
    /\ store \in [Session -> Seq(StoreEvent)]
    /\ results \in [Version -> Seq(Row)]

\* Both kinds of entries name a session, a tool and a time.
LEMMA EntryFields ==
    ASSUME NEW e \in FileEntry
    PROVE  /\ e.session \in Session /\ e.tool \in Tool /\ e.at \in Nat
           /\ job = "replay" => e \in AuditRecord
           /\ job # "replay" => e \in TraceEntry
BY DEF FileEntry, AuditRecord, TraceEntry

\* What the next evaluation does to the command's state w under policy pol.
At(w)  == groups[w.pos.group][w.pos.entry]
Cur(w) == IF w.pos.entry = 1 THEN NewSession ELSE w.sess
VerdictAt(pol, w) == CommandVerdict(pol, At(w), Cur(w), w.store[At(w).session])
ActionAt(pol, w)  == Decide(VerdictAt(pol, w), At(w).tool, pol)

StepAt(pol, w) ==
    [pos   |-> NextPos(w.pos),
     sess  |-> SessionAfter(pol, At(w), VerdictAt(pol, w), Cur(w)),
     store |-> [w.store EXCEPT ![At(w).session] =
                   Append(@, [tool |-> At(w).tool, action |-> ActionAt(pol, w), at |-> At(w).at])]]

RowAt(pol, w) ==
    [session |-> At(w).session, seq |-> RowSeq(w.pos), action |-> ActionAt(pol, w)]

Here == [pos |-> pos, sess |-> sess, store |-> store]

\* Evaluate, written with these.
EvaluateDoes ==
    /\ job \in {"simulate", "replay"} /\ pass \in Version /\ pos.group <= Len(groups)
    /\ At(Here) \in FileEntry
    /\ Here' = StepAt(pols[pass], Here)
    /\ results'[pass] = Append(results[pass], RowAt(pols[pass], Here))
    /\ \A w \in Version \ {pass} :
          results'[w] = IF job = "replay"
                        THEN Append(results[w], [RowAt(pols[pass], Here) EXCEPT !.action = At(Here).action])
                        ELSE results[w]
    /\ RowAt(pols[pass], Here) \in Row

\* Evaluate is a step from one such state to the next.
LEMMA EvaluateEffect ==
    ASSUME CommandType, pols \in Pairs, Evaluate
    PROVE  EvaluateDoes
<1>1. job \in {"simulate", "replay"} /\ pass \in Version /\ pos.group <= Len(groups)
  BY DEF Evaluate, CommandType, Version
<1>2. Here.pos = pos /\ Here.sess = sess /\ Here.store = store
  BY DEF Here
<1>3. At(Here) = Entry /\ Cur(Here) = CurrentSession
  BY <1>2 DEF At, Entry, Cur, CurrentSession
<1>4. Entry \in FileEntry
  <2>1. pos.group \in 1..Len(groups) /\ groups[pos.group] \in Seq(FileEntry)
    BY <1>1 DEF CommandType, Position
  <2>2. pos.entry \in 1..Len(groups[pos.group])
    BY <1>1, <2>1 DEF CommandType, Position
  <2> QED BY <2>1, <2>2 DEF Entry
<1>5. Entry.session \in Session /\ Entry.tool \in Tool
      /\ (job = "replay" => Entry.action \in Action)
  BY <1>4, EntryFields DEF AuditRecord
<1>6. /\ VerdictAt(pols[pass], Here)
            = CommandVerdict(pols[pass], Entry, CurrentSession, store[Entry.session])
      /\ VerdictAt(pols[pass], Here) \in Verdict
  BY <1>2, <1>3, VerdictsTotal DEF VerdictAt
<1>7. ActionAt(pols[pass], Here) \in Action
      /\ ActionAt(pols[pass], Here) = Decide(VerdictAt(pols[pass], Here), Entry.tool, pols[pass])
  BY <1>3, <1>6, DecideIsAction DEF ActionAt
<1>8. RowSeq(pos) \in Nat
  <2>1. CASE job = "simulate"
    BY <2>1 DEF RowSeq, CommandType, Position
  <2>2. CASE job # "simulate"
    <3>1. Entry \in AuditRecord
      BY <1>1, <1>4, <2>2, EntryFields
    <3> QED BY <2>2, <3>1 DEF RowSeq, Entry, AuditRecord
  <2> QED BY <2>1, <2>2
<1>9. RowAt(pols[pass], Here)
         = [session |-> Entry.session, seq |-> RowSeq(pos), action |-> ActionAt(pols[pass], Here)]
      /\ RowAt(pols[pass], Here) \in Row
  BY <1>2, <1>3, <1>5, <1>7, <1>8 DEF RowAt, Row
<1>10. Here' = StepAt(pols[pass], Here)
  <2>1. /\ pos' = NextPos(pos)
        /\ sess' = SessionAfter(pols[pass], Entry, VerdictAt(pols[pass], Here), CurrentSession)
        /\ store' = [store EXCEPT ![Entry.session] =
                        Append(@, [tool |-> Entry.tool, action |-> ActionAt(pols[pass], Here),
                                   at |-> Entry.at])]
    BY <1>6, <1>7 DEF Evaluate
  <2> QED BY <1>2, <1>3, <2>1 DEF StepAt, Here
<1>11. results'[pass] = Append(results[pass], RowAt(pols[pass], Here))
  BY <1>1, <1>6, <1>7, <1>9 DEF Evaluate
<1>12. ASSUME NEW w \in Version \ {pass}
       PROVE  results'[w] = IF job = "replay"
                  THEN Append(results[w], [RowAt(pols[pass], Here) EXCEPT !.action = At(Here).action])
                  ELSE results[w]
  <2>1. [RowAt(pols[pass], Here) EXCEPT !.action = At(Here).action]
           = [session |-> Entry.session, seq |-> RowSeq(pos), action |-> Entry.action]
    BY <1>3, <1>9
  <2> QED BY <1>1, <1>12, <2>1 DEF Evaluate
<1> QED BY <1>1, <1>3, <1>4, <1>9, <1>10, <1>11, <1>12 DEF EvaluateDoes

\* A function on 1..n is a sequence of length n.
LEMMA FunIsSeq ==
    ASSUME NEW n \in Nat, NEW T, NEW f \in [1..n -> T]
    PROVE  f \in Seq(T) /\ Len(f) = n
<1>1. f \in Seq(T) /\ DOMAIN f = 1..n
  OBVIOUS
<1> QED BY <1>1

\* A sorted group has the entries of the group, each once.
LEMMA SortedGroup ==
    ASSUME NEW S, NEW q \in Seq(S), NEW r \in sortBySeq(q)
    PROVE  /\ r \in Seq(S) /\ Len(r) = Len(q)
           /\ \E p \in [1..Len(q) -> 1..Len(q)] :
                 IsInjective(p) /\ \A i \in 1..Len(q) : r[i] = q[p[i]]
           /\ \A i, j \in 1..Len(q) : i < j => r[i].seq <= r[j].seq
<1>1. PICK p \in [1..Len(q) -> 1..Len(q)] : IsInjective(p) /\ r = [i \in 1..Len(q) |-> q[p[i]]]
  BY DEF sortBySeq
<1>2. \A i \in 1..Len(q) : r[i] = q[p[i]] /\ r[i] \in S
  BY <1>1
<1>3. r \in [1..Len(q) -> S]
  BY <1>1, <1>2
<1>4. r \in Seq(S) /\ Len(r) = Len(q)
  <2>1. Len(q) \in Nat
    OBVIOUS
  <2>2. r \in Seq(S) /\ DOMAIN r = 1..Len(q)
    BY <1>3, <2>1
  <2> QED BY <2>1, <2>2
<1>5. \A i, j \in 1..Len(q) : i < j => r[i].seq <= r[j].seq
  BY DEF sortBySeq
<1> QED BY <1>1, <1>2, <1>4, <1>5

\* The groups after the file has been read.
LEMMA EndOfFileEffect ==
    ASSUME CommandType, EndOfFile
    PROVE  /\ groups' \in Seq(Seq(FileEntry)) /\ Len(groups') = Len(groups)
           /\ job = "simulate" => groups' = groups
           /\ \A g \in 1..Len(groups) :
                 /\ groups'[g] \in Seq(FileEntry) /\ Len(groups'[g]) = Len(groups[g])
                 /\ job = "replay" => groups'[g] \in sortBySeq(groups[g])
<1>1. groups \in Seq(Seq(FileEntry)) /\ Len(groups) \in Nat
      /\ \A g \in 1..Len(groups) : groups[g] \in Seq(FileEntry)
  BY DEF CommandType
<1>2. CASE job = "simulate"
  BY <1>1, <1>2 DEF EndOfFile
<1>3. CASE job = "replay"
  <2>1. DOMAIN groups' = 1..Len(groups) /\ groups' = [g \in 1..Len(groups) |-> groups'[g]]
        /\ \A g \in 1..Len(groups) : groups'[g] \in sortBySeq(groups[g])
    BY <1>3 DEF EndOfFile
  <2>2. \A g \in 1..Len(groups) : groups'[g] \in Seq(FileEntry) /\ Len(groups'[g]) = Len(groups[g])
    BY <1>1, <2>1, SortedGroup
  <2>3. groups' \in [1..Len(groups) -> Seq(FileEntry)]
    BY <2>1, <2>2
  <2>4. groups' \in Seq(Seq(FileEntry)) /\ Len(groups') = Len(groups)
    BY <1>1, <2>3, FunIsSeq
  <2> QED BY <1>3, <2>1, <2>2, <2>4
<1> QED BY <1>2, <1>3 DEF EndOfFile

\* Reading an entry.
LEMMA AppendToGroupTyped ==
    ASSUME NEW S, NEW gs \in Seq(Seq(S)), NEW e \in S, \A g \in 1..Len(gs) : gs[g] # << >>
    PROVE  LET new == appendToGroup(gs, e)
           IN  new \in Seq(Seq(S)) /\ \A g \in 1..Len(new) : new[g] # << >>
<1>1. CASE \E g \in 1..Len(gs) : gs[g][1].session = e.session
  <2> DEFINE new == [g \in 1..Len(gs) |->
                        IF gs[g][1].session = e.session THEN Append(gs[g], e) ELSE gs[g]]
  <2>1. appendToGroup(gs, e) = new
    BY <1>1 DEF appendToGroup
  <2>2. ASSUME NEW g \in 1..Len(gs) PROVE new[g] \in Seq(S) /\ new[g] # << >>
    <3>1. gs[g] \in Seq(S) /\ gs[g] # << >>
      OBVIOUS
    <3>2. Append(gs[g], e) \in Seq(S) /\ Len(Append(gs[g], e)) = Len(gs[g]) + 1 /\ Len(gs[g]) \in Nat
      BY <3>1
    <3>3. Append(gs[g], e) # << >>
      BY <3>1, AppendProperties
    <3>4. new[g] = Append(gs[g], e) \/ new[g] = gs[g]
      BY <2>2
    <3> QED BY <3>1, <3>2, <3>3, <3>4
  <2>3. new \in [1..Len(gs) -> Seq(S)] /\ Len(gs) \in Nat
    BY <2>2
  <2> HIDE DEF new
  <2>4. new \in Seq(Seq(S)) /\ Len(new) = Len(gs)
    BY <2>3, FunIsSeq
  <2> QED BY <2>1, <2>2, <2>4
<1>2. CASE ~ \E g \in 1..Len(gs) : gs[g][1].session = e.session
  <2>1. appendToGroup(gs, e) = Append(gs, <<e>>) /\ <<e>> \in Seq(S) /\ <<e>> # << >>
    BY <1>2 DEF appendToGroup
  <2> QED BY <2>1
<1> QED BY <1>1, <1>2

\* No command has been started.
LEMMA CommandTypeInit ==
    Init => CommandType
<1> SUFFICES ASSUME Init PROVE CommandType
  OBVIOUS
<1>1. NewSession \in Struct
  BY DEF NewSession, Struct
<1> QED BY <1>1 DEF Init, CommandType, First, NoEvents, Position

\* The file of a command.
LEMMA StartType ==
    ASSUME CommandType, CaptureType, runSimulate \/ runReplay \/ \E s \in Session : runInspect(s)
    PROVE  CommandType'
<1>1. /\ job = "capture"
      /\ UNCHANGED <<line, groups, pass, pos, sess, store, results>>
      /\ \/ job' = "simulate" /\ input' = trace
         \/ job' = "replay" /\ input' \in Exports
         \/ job' = "inspect" /\ input' = input
  BY DEF runSimulate, runReplay, Start, runInspect
<1>2. groups = << >> /\ input = << >> /\ line = 1 /\ pass = "read"
  BY <1>1 DEF CommandType
<1>3. input' \in Seq(FileEntry')
  <2>1. CASE job' = "simulate" /\ input' = trace
    BY <2>1 DEF FileEntry, CaptureType
  <2>2. CASE job' = "replay" /\ input' \in Exports
    <3>1. input' \in [1..Cardinality(audit) -> audit]
      BY <2>2 DEF Exports, SetToSeqs
    <3>2. Cardinality(audit) \in Nat /\ audit \subseteq AuditRecord
      BY FS_CardinalityType DEF CaptureType
    <3>3. input' \in [1..Cardinality(audit) -> AuditRecord]
      BY <3>1, <3>2
    <3>4. input' \in Seq(AuditRecord)
      BY <3>2, <3>3
    <3> QED BY <2>2, <3>4 DEF FileEntry
  <2>3. CASE job' = "inspect" /\ input' = input
    BY <1>2, <2>3
  <2> QED BY <1>1, <2>1, <2>2, <2>3
<1>4. groups' = << >> /\ line' = 1 /\ pass' = "read" /\ pos' = First /\ sess' = NewSession
      /\ store' = NoEvents /\ results' = [v \in Version |-> << >>]
      /\ job' \in {"simulate", "replay", "inspect"}
      /\ (job' = "inspect" => input' = << >>)
  BY <1>1, <1>2 DEF CommandType
<1>5. groups' \in Seq(Seq(FileEntry')) /\ \A g \in 1..Len(groups') : groups'[g] # << >>
  BY <1>4
<1>6. /\ pos' \in Position /\ sess' \in Struct /\ store' \in [Session -> Seq(StoreEvent)]
      /\ results' \in [Version -> Seq(Row)] /\ ~ pos'.group <= Len(groups')
  BY <1>4 DEF First, Position, NewSession, Struct, NoEvents
<1> QED BY <1>3, <1>4, <1>5, <1>6 DEF CommandType, First, NoEvents, Position, StoreEvent, Row

\* Reading, evaluating, and going on with the old policy.
LEMMA EvaluateType ==
    ASSUME CommandType, pols \in Pairs, Evaluate
    PROVE  CommandType'
<1>1. EvaluateDoes
  BY EvaluateEffect
<1>2. UNCHANGED <<job, input, line, groups, pass>> /\ pass # "read"
      /\ job \in {"simulate", "replay"}
  BY DEF Evaluate
<1> DEFINE e == At(Here)
           v == VerdictAt(pols[pass], Here)
<1>3. e \in FileEntry /\ e.session \in Session /\ e.tool \in Tool /\ e.at \in Nat
  BY <1>1, EntryFields DEF EvaluateDoes
<1>4. v \in Verdict /\ ActionAt(pols[pass], Here) \in Action
  BY VerdictsTotal, DecideIsAction DEF VerdictAt, ActionAt
<1>5. Here.pos = pos /\ Here.store = store /\ Cur(Here) \in Struct
  BY DEF Here, Cur, CommandType, NewSession, Struct
<1>6. Here'.pos = pos' /\ Here'.sess = sess' /\ Here'.store = store'
  BY DEF Here
<1>7. sess' \in Struct
  <2>1. sess' = SessionAfter(pols[pass], e, v, Cur(Here))
    BY <1>1, <1>6 DEF EvaluateDoes, StepAt
  <2>2. pols[pass].tools[e.tool].applies \in BOOLEAN
    BY <1>1, <1>3, PairTyped DEF EvaluateDoes, Policy, ToolPolicy
  <2>3. applyTaintMutations(e.tool, Cur(Here).tainted, pols[pass]) \in BOOLEAN
    BY <2>2 DEF applyTaintMutations
  <2> HIDE DEF e, v
  <2> QED BY <1>5, <2>1, <2>3 DEF SessionAfter, Struct
<1>8. store' \in [Session -> Seq(StoreEvent)]
  <2>1. store' = [store EXCEPT ![e.session] =
                     Append(@, [tool |-> e.tool, action |-> ActionAt(pols[pass], Here), at |-> e.at])]
    BY <1>1, <1>5, <1>6 DEF EvaluateDoes, StepAt
  <2>2. [tool |-> e.tool, action |-> ActionAt(pols[pass], Here), at |-> e.at] \in StoreEvent
    BY <1>3, <1>4 DEF StoreEvent
  <2>3. store \in [Session -> Seq(StoreEvent)]
    BY DEF CommandType
  <2> HIDE DEF e
  <2> QED BY <1>3, <2>1, <2>2, <2>3
<1>9. results' \in [Version -> Seq(Row)]
  <2>1. results' = [w \in Version |-> results'[w]] /\ DOMAIN results' = Version
    BY DEF Evaluate
  <2>2. ASSUME NEW w \in Version PROVE results'[w] \in Seq(Row)
    <3>1. results[w] \in Seq(Row)
      BY <2>2 DEF CommandType
    <3>2. job = "replay" => [RowAt(pols[pass], Here) EXCEPT !.action = e.action] \in Row
      BY <1>1, <1>3, EntryFields DEF EvaluateDoes, Row, AuditRecord
    <3>3. RowAt(pols[pass], Here) \in Row
      BY <1>1 DEF EvaluateDoes
    <3>4. CASE w = pass
      <4>1. results'[w] = Append(results[w], RowAt(pols[pass], Here))
        BY <1>1, <3>4 DEF EvaluateDoes
      <4> QED BY <3>1, <3>3, <4>1
    <3>5. CASE w # pass /\ job = "replay"
      <4>1. results'[w] = Append(results[w], [RowAt(pols[pass], Here) EXCEPT !.action = e.action])
        BY <1>1, <2>2, <3>5 DEF EvaluateDoes
      <4> QED BY <3>1, <3>2, <3>5, <4>1
    <3>6. CASE w # pass /\ job # "replay"
      <4>1. results'[w] = results[w]
        BY <1>1, <2>2, <3>6 DEF EvaluateDoes
      <4> QED BY <3>1, <4>1
    <3> QED BY <3>4, <3>5, <3>6
  <2> QED BY <2>1, <2>2
<1>10. pos' \in Position /\ (pos'.group <= Len(groups) => pos'.entry <= Len(groups[pos'.group]))
  <2>1. pos' = NextPos(pos)
    BY DEF Evaluate
  <2>2. /\ pos \in Position /\ Len(groups) \in Nat /\ pos.group <= Len(groups)
        /\ pos.entry <= Len(groups[pos.group])
        /\ \A g \in 1..Len(groups) : Len(groups[g]) \in Nat /\ Len(groups[g]) >= 1
    <3>1. pos \in Position /\ groups \in Seq(Seq(FileEntry))
          /\ (pos.group <= Len(groups) => pos.entry <= Len(groups[pos.group]))
          /\ \A g \in 1..Len(groups) : groups[g] # << >>
      BY DEF CommandType
    <3>2. pos.group <= Len(groups)
      BY <1>1 DEF EvaluateDoes
    <3>3. ASSUME NEW g \in 1..Len(groups)
          PROVE  Len(groups[g]) \in Nat /\ Len(groups[g]) >= 1
      <4>1. groups[g] \in Seq(FileEntry) /\ groups[g] # << >>
        BY <3>1
      <4> QED BY <4>1
    <3> QED BY <3>1, <3>2, <3>3
  <2>3. pos.group \in 1..Len(groups)
    BY <2>2 DEF Position
  <2>4. CASE pos.entry = Len(groups[pos.group])
    <3>1. pos'.group = pos.group + 1 /\ pos'.entry = 1 /\ pos' \in Position
      BY <2>1, <2>2, <2>4 DEF NextPos, Position
    <3>2. pos.group + 1 <= Len(groups) => pos.group + 1 \in 1..Len(groups)
      BY <2>2, <2>3
    <3> QED BY <2>2, <3>1, <3>2
  <2>5. CASE pos.entry # Len(groups[pos.group])
    <3>1. pos'.group = pos.group /\ pos'.entry = pos.entry + 1 /\ pos' \in Position
      BY <2>1, <2>2, <2>5 DEF NextPos, Position
    <3> QED BY <2>2, <2>3, <2>5, <3>1 DEF Position
  <2> QED BY <2>4, <2>5
<1>11. FileEntry' = FileEntry
  BY <1>2 DEF FileEntry
<1> QED BY <1>2, <1>7, <1>8, <1>9, <1>10, <1>11 DEF CommandType

\* An entry read keeps the types of the groups.
LEMMA ReadEntryType ==
    ASSUME CommandType, ReadEntry
    PROVE  CommandType'
<1>1. /\ job \in {"simulate", "replay"} /\ pass = "read" /\ line <= Len(input)
      /\ groups' = appendToGroup(groups, input[line]) /\ line' = line + 1
      /\ UNCHANGED <<job, input, pass, pos, sess, store, results>>
  BY DEF ReadEntry
<1>2. /\ input \in Seq(FileEntry) /\ line \in Nat \ {0} /\ groups \in Seq(Seq(FileEntry))
      /\ \A g \in 1..Len(groups) : groups[g] # << >>
  BY DEF CommandType
<1>3. input[line] \in FileEntry
  BY <1>1, <1>2
<1>4. groups' \in Seq(Seq(FileEntry)) /\ \A g \in 1..Len(groups') : groups'[g] # << >>
  BY <1>1, <1>2, <1>3, AppendToGroupTyped
<1>5. pos' = First
  BY <1>1 DEF CommandType
<1>6. pos'.group <= Len(groups') => pos'.entry <= Len(groups'[pos'.group])
  <2> SUFFICES ASSUME pos'.group <= Len(groups') PROVE pos'.entry <= Len(groups'[pos'.group])
    OBVIOUS
  <2>1. pos'.group = 1 /\ pos'.entry = 1 /\ 1 \in 1..Len(groups')
    BY <1>4, <1>5 DEF First
  <2>2. groups'[1] \in Seq(FileEntry) /\ groups'[1] # << >>
    BY <1>4, <2>1
  <2>3. Len(groups'[1]) \in Nat \ {0}
    BY <2>2, EmptySeq
  <2> QED BY <2>1, <2>3
<1>7. FileEntry' = FileEntry
  BY <1>1 DEF FileEntry
<1> QED BY <1>1, <1>2, <1>4, <1>6, <1>7 DEF CommandType

\* So does the end of the file: a sorted group has the same entries.
LEMMA EndOfFileType ==
    ASSUME CommandType, EndOfFile
    PROVE  CommandType'
<1>1. /\ job \in {"simulate", "replay"} /\ pass = "read" /\ pass' = "new"
      /\ input' = << >> /\ line' = 1
      /\ UNCHANGED <<job, pos, sess, store, results>>
  BY DEF EndOfFile
<1>2. /\ groups' \in Seq(Seq(FileEntry)) /\ Len(groups') = Len(groups)
      /\ \A g \in 1..Len(groups) : groups'[g] \in Seq(FileEntry) /\ Len(groups'[g]) = Len(groups[g])
  BY EndOfFileEffect
<1>3. groups \in Seq(Seq(FileEntry)) /\ \A g \in 1..Len(groups) : groups[g] # << >>
  BY DEF CommandType
<1>4. ASSUME NEW g \in 1..Len(groups) PROVE Len(groups'[g]) \in Nat \ {0} /\ groups'[g] # << >>
  <2>1. groups[g] \in Seq(FileEntry) /\ groups[g] # << >>
    BY <1>3, <1>4
  <2>2. Len(groups[g]) \in Nat \ {0}
    BY <2>1, EmptySeq
  <2> QED BY <1>2, <1>4, <2>2, EmptySeq
<1>5. pos' = First
  BY <1>1 DEF CommandType
<1>6. pos'.group <= Len(groups') => pos'.entry <= Len(groups'[pos'.group])
  <2> SUFFICES ASSUME pos'.group <= Len(groups') PROVE pos'.entry <= Len(groups'[pos'.group])
    OBVIOUS
  <2>1. pos'.group = 1 /\ pos'.entry = 1 /\ 1 \in 1..Len(groups)
    BY <1>2, <1>3, <1>5 DEF First
  <2> QED BY <1>4, <2>1
<1>7. FileEntry' = FileEntry
  BY <1>1 DEF FileEntry
<1>8. /\ sess' \in Struct /\ store' \in [Session -> Seq(StoreEvent)]
      /\ results' \in [Version -> Seq(Row)] /\ pos' \in Position
  BY <1>1 DEF CommandType
<1> QED BY <1>1, <1>2, <1>4, <1>6, <1>7, <1>8 DEF CommandType

\* The second pass starts from the state the first one started from.
LEMMA OldPassType ==
    ASSUME CommandType, OldPass
    PROVE  CommandType'
<1>1. /\ job = "simulate" /\ pass' = "old" /\ pos' = First /\ sess' = NewSession
      /\ store' = NoEvents /\ UNCHANGED <<job, input, line, groups, results>>
  BY DEF OldPass, First, NoEvents
<1>2. FileEntry' = FileEntry
  BY <1>1 DEF FileEntry
<1>3. pos' \in Position /\ sess' \in Struct /\ store' \in [Session -> Seq(StoreEvent)]
  BY <1>1 DEF First, Position, NewSession, Struct, NoEvents
<1>4. pos'.group <= Len(groups) => pos'.entry <= Len(groups[pos'.group])
  <2> SUFFICES ASSUME pos'.group <= Len(groups) PROVE pos'.entry <= Len(groups[pos'.group])
    OBVIOUS
  <2>1. groups \in Seq(Seq(FileEntry)) /\ \A g \in 1..Len(groups) : groups[g] # << >>
    BY DEF CommandType
  <2>2. pos'.group = 1 /\ pos'.entry = 1 /\ 1 \in 1..Len(groups)
    BY <1>1, <2>1 DEF First
  <2>3. groups[1] \in Seq(FileEntry) /\ groups[1] # << >>
    BY <2>1, <2>2
  <2>4. Len(groups[1]) \in Nat \ {0}
    BY <2>3, EmptySeq
  <2> QED BY <2>2, <2>4
<1> QED BY <1>1, <1>2, <1>3, <1>4 DEF CommandType

\* Steps that leave the commands alone.
LEMMA CommandTypeFrozen ==
    ASSUME CommandType, UNCHANGED commandVars
    PROVE  CommandType'
<1>1. FileEntry' = FileEntry
  BY DEF FileEntry, commandVars
<1> QED BY <1>1 DEF CommandType, commandVars

\* Every step keeps the types of the commands' variables.
LEMMA CommandTypeNext ==
    ASSUME CommandType, CaptureType, [Next]_vars \/ [ToolsNext]_toolsVars
    PROVE  CommandType'
<1>1. CASE UNCHANGED commandVars
  BY <1>1, CommandTypeFrozen
<1>2. CASE runSimulate \/ runReplay \/ \E s \in Session : runInspect(s)
  BY <1>2, StartType
<1>3. CASE ReadEntry
  BY <1>3, ReadEntryType
<1>4. CASE EndOfFile
  BY <1>4, EndOfFileType
<1>5. CASE Evaluate
  BY <1>5, EvaluateType DEF CaptureType
<1>6. CASE OldPass
  BY <1>6, OldPassType
<1>7. UNCHANGED vars => UNCHANGED commandVars
  BY DEF vars, commandVars
<1>8. ASSUME NEW s \in Session, NEW t \in Tool, NEW a \in Args, NEW loss, NEW now,
             Approve(s, t, a) \/ Capture(s, t, a, loss, now)
      PROVE  UNCHANGED commandVars
  BY <1>8 DEF Approve, Capture
<1>9. ASSUME NEW s, detectTaintCausingEvents(s) PROVE UNCHANGED commandVars
  BY <1>7, <1>9 DEF detectTaintCausingEvents
<1>10. CASE [Next]_vars
  BY <1>1, <1>2, <1>3, <1>4, <1>5, <1>6, <1>7, <1>8, <1>10 DEF Next
<1>11. CASE [ToolsNext]_toolsVars
  <2>1. UNCHANGED toolsVars => UNCHANGED vars
    BY DEF toolsVars
  <2> QED BY <1>1, <1>2, <1>3, <1>4, <1>5, <1>6, <1>7, <1>8, <1>9, <1>11, <2>1 DEF ToolsNext
<1> QED BY <1>10, <1>11

-----------------------------------------------------------------------------
(* simulate: the two passes.                                                *)

\* Policies with the same rules do the same with an entry.
LEMMA SameRulesSameStep ==
    ASSUME NEW p, NEW q, SameRules(p, q), NEW w, At(w).tool \in Tool
    PROVE  StepAt(p, w) = StepAt(q, w) /\ RowAt(p, w) = RowAt(q, w)
<1> DEFINE e == At(w)
           t == e.tool
           cur == Cur(w)
           log == w.store[e.session]
<1>1. /\ p.mode = q.mode /\ p.mayUse = q.mayUse /\ p.maxCalls = q.maxCalls /\ p.maxCost = q.maxCost
      /\ p.tools[t].mode = q.tools[t].mode /\ p.tools[t].onlyAfter = q.tools[t].onlyAfter
      /\ p.tools[t].neverAfter = q.tools[t].neverAfter /\ p.tools[t].priorN = q.tools[t].priorN
      /\ p.tools[t].applies = q.tools[t].applies /\ p.tools[t].clears = q.tools[t].clears
      /\ p.tools[t].rateLimit = q.tools[t].rateLimit
      /\ p.tools[t].escalateWhen = q.tools[t].escalateWhen
  BY DEF SameRules
<1>2. taintApplyingTools(p) = taintApplyingTools(q)
  BY DEF SameRules, taintApplyingTools
<1> HIDE DEF e, t, cur, log
<1>3. MayUseEvaluator(t, p) = MayUseEvaluator(t, q) /\ BudgetEvaluator(cur, p) = BudgetEvaluator(cur, q)
  BY <1>1 DEF MayUseEvaluator, BudgetEvaluator, BudgetExceeded
<1>4. TaintEvaluator(t, cur, p) = TaintEvaluator(t, cur, q)
  BY <1>1, <1>2 DEF TaintEvaluator
<1>5. SequenceEvaluator(t, p, log) = SequenceEvaluator(t, q, log)
  BY <1>1 DEF SequenceEvaluator
<1>6. RateLimitEvaluator(t, e.at, p, log) = RateLimitEvaluator(t, e.at, q, log)
  BY <1>1 DEF RateLimitEvaluator
<1>7. EscalationEvaluator(t, e.args, p, FALSE) = EscalationEvaluator(t, e.args, q, FALSE)
  BY <1>1 DEF EscalationEvaluator
<1>8. CommandVerdict(p, e, cur, log) = CommandVerdict(q, e, cur, log)
  BY <1>3, <1>4, <1>5, <1>6, <1>7 DEF CommandVerdict, t
<1>9. \A v : Decide(v, t, p) = Decide(v, t, q)
  BY <1>1 DEF Decide, effectiveMode
<1>10. VerdictAt(p, w) = VerdictAt(q, w) /\ ActionAt(p, w) = ActionAt(q, w)
  BY <1>8, <1>9 DEF VerdictAt, ActionAt, e, t, cur, log
<1>11. \A v, x : SessionAfter(p, e, v, x) = SessionAfter(q, e, v, x)
  <2>1. \A b : applyTaintMutations(t, b, p) = applyTaintMutations(t, b, q)
    BY <1>1 DEF applyTaintMutations
  <2> QED BY <1>9, <2>1 DEF SessionAfter, t
<1> QED BY <1>10, <1>11 DEF StepAt, RowAt, e

\* The passes as a history W of the states before each entry: the first pass
\* went through them, and so does the second one if the rules are the same.
FirstPass(W) ==
    /\ W[1] = [pos |-> First, sess |-> NewSession, store |-> NoEvents]
    /\ \A i \in 1..Len(results["new"]) :
          /\ W[i + 1] = StepAt(pols["new"], W[i]) /\ results["new"][i] = RowAt(pols["new"], W[i])
          /\ At(W[i]).tool \in Tool

SecondPass(W) ==
    /\ W[Len(results["new"]) + 1].pos.group > Len(groups)
    /\ Len(results["old"]) <= Len(results["new"])
    /\ pos = W[Len(results["old"]) + 1].pos
    /\ \A i \in 1..Len(results["old"]) :
          /\ results["old"][i].session = results["new"][i].session
          /\ results["old"][i].seq = results["new"][i].seq
    /\ SameRules(pols["old"], pols["new"]) =>
          /\ Here = W[Len(results["old"]) + 1]
          /\ \A i \in 1..Len(results["old"]) : results["old"][i] = results["new"][i]

RunInv ==
    job = "simulate" /\ pass # "read" =>
        \E W : /\ FirstPass(W)
               /\ pass = "new" => Here = W[Len(results["new"]) + 1] /\ results["old"] = << >>
               /\ pass = "old" => SecondPass(W)

\* What an entry does depends on the groups, the command and the policies.
LEMMA StepsFrozen ==
    ASSUME UNCHANGED <<job, groups, pols>>, NEW w
    PROVE  /\ At(w)' = At(w)
           /\ StepAt(pols["new"], w)' = StepAt(pols["new"], w)
           /\ RowAt(pols["new"], w)' = RowAt(pols["new"], w)
<1>1. At(w)' = At(w)
  BY DEF At
<1>2. \A e, c, l : CommandVerdict(pols["new"], e, c, l)' = CommandVerdict(pols["new"], e, c, l)
  BY DEF CommandVerdict
<1>3. VerdictAt(pols["new"], w)' = VerdictAt(pols["new"], w)
  BY <1>1, <1>2 DEF VerdictAt
<1>4. ActionAt(pols["new"], w)' = ActionAt(pols["new"], w)
  BY <1>1, <1>3 DEF ActionAt
<1>5. NextPos(w.pos)' = NextPos(w.pos) /\ RowSeq(w.pos)' = RowSeq(w.pos)
  BY DEF NextPos, RowSeq
<1> QED BY <1>1, <1>3, <1>4, <1>5 DEF StepAt, RowAt

\* An entry of the first pass extends the history.
LEMMA FirstPassStep ==
    ASSUME CommandType, pols \in Pairs, Evaluate, pass = "new", NEW W, FirstPass(W),
           Here = W[Len(results["new"]) + 1]
    PROVE  \E V : FirstPass(V)' /\ Here' = V[Len(results'["new"]) + 1]
<1>1. EvaluateDoes
  BY EvaluateEffect
<1>2. UNCHANGED <<job, groups, pols>> /\ pass = "new"
  BY DEF Evaluate, captureVars
<1> DEFINE n == Len(results["new"])
<1> PICK V : V = [i \in 1..(n + 2) |-> IF i = n + 2 THEN StepAt(pols["new"], Here) ELSE W[i]]
  OBVIOUS
<1>3. results["new"] \in Seq(Row) /\ n \in Nat
  BY DEF CommandType, Version
<1>4. /\ results'["new"] = Append(results["new"], RowAt(pols["new"], Here))
      /\ Here' = StepAt(pols["new"], Here) /\ At(Here).tool \in Tool
      /\ RowAt(pols["new"], Here) \in Row
  BY <1>1, <1>2, EntryFields DEF EvaluateDoes
<1>5. /\ Len(results'["new"]) = n + 1 /\ results'["new"][n + 1] = RowAt(pols["new"], Here)
      /\ \A i \in 1..n : results'["new"][i] = results["new"][i]
  BY <1>3, <1>4
<1>6. V[n + 2] = StepAt(pols["new"], Here) /\ \A i \in 1..(n + 1) : V[i] = W[i]
  BY <1>3
<1>7. Here' = V[Len(results'["new"]) + 1]
  BY <1>3, <1>4, <1>5, <1>6
<1> HIDE DEF n
<1>8. ASSUME NEW i \in 1..(n + 1)
      PROVE  /\ V[i + 1] = StepAt(pols["new"], V[i]) /\ results'["new"][i] = RowAt(pols["new"], V[i])
             /\ At(V[i]).tool \in Tool
  <2>1. CASE i = n + 1
    <3>1. V[i] = Here /\ V[i + 1] = StepAt(pols["new"], Here)
      BY <1>3, <1>6, <2>1 DEF n
    <3> QED BY <1>4, <1>5, <2>1, <3>1
  <2>2. CASE i # n + 1
    <3>1. i \in 1..n /\ i + 1 \in 1..(n + 1) /\ V[i] = W[i] /\ V[i + 1] = W[i + 1]
      BY <1>3, <1>6, <1>8, <2>2
    <3>2. /\ W[i + 1] = StepAt(pols["new"], W[i]) /\ results["new"][i] = RowAt(pols["new"], W[i])
          /\ At(W[i]).tool \in Tool
      BY <3>1 DEF FirstPass, n
    <3> QED BY <1>5, <3>1, <3>2
  <2> QED BY <2>1, <2>2
<1>9. V[1] = [pos |-> First, sess |-> NewSession, store |-> NoEvents]
  BY <1>3, <1>6 DEF FirstPass
<1>10. FirstPass(V)'
  <2> SUFFICES ASSUME NEW i \in 1..(n + 1)
               PROVE  /\ V[i + 1] = StepAt(pols["new"], V[i])'
                      /\ results'["new"][i] = RowAt(pols["new"], V[i])'
                      /\ At(V[i])'.tool \in Tool
    BY <1>5, <1>9 DEF FirstPass
  <2> QED BY <1>2, <1>8, StepsFrozen
<1> QED BY <1>7, <1>10

\* An entry of the second pass.
LEMMA SecondPassStep ==
    ASSUME CommandType, pols \in Pairs, Evaluate, pass = "old", job = "simulate",
           NEW W, FirstPass(W), SecondPass(W)
    PROVE  FirstPass(W)' /\ SecondPass(W)'
<1>1. EvaluateDoes
  BY EvaluateEffect
<1>2. UNCHANGED <<job, groups, pols>> /\ pass = "old"
  BY DEF Evaluate, captureVars
<1> DEFINE n == Len(results["new"])
           m == Len(results["old"])
<1>3. results["new"] \in Seq(Row) /\ n \in Nat /\ results["old"] \in Seq(Row) /\ m \in Nat
  BY DEF CommandType, Version
<1>4. /\ results'["old"] = Append(results["old"], RowAt(pols["old"], Here))
      /\ results'["new"] = results["new"]
      /\ Here' = StepAt(pols["old"], Here) /\ At(Here).tool \in Tool
      /\ RowAt(pols["old"], Here) \in Row /\ pos.group <= Len(groups)
  BY <1>1, <1>2, EntryFields DEF EvaluateDoes, Version
<1>5. /\ Len(results'["old"]) = m + 1 /\ results'["old"][m + 1] = RowAt(pols["old"], Here)
      /\ \A i \in 1..m : results'["old"][i] = results["old"][i]
  BY <1>3, <1>4
<1>6. FirstPass(W)'
  BY <1>2, <1>4, StepsFrozen DEF FirstPass
<1>7. m < n
  <2>1. m <= n /\ (m = n => pos.group > Len(groups))
    BY DEF SecondPass
  <2>2. pos.group \in Nat /\ Len(groups) \in Nat
    BY DEF CommandType, Position
  <2> QED BY <1>3, <1>4, <2>1, <2>2
<1>8. m + 1 \in 1..n /\ pos = W[m + 1].pos /\ Here.pos = pos
  BY <1>3, <1>7 DEF SecondPass, Here
<1>9. At(W[m + 1]) = At(Here) /\ RowSeq(W[m + 1].pos) = RowSeq(Here.pos)
      /\ NextPos(W[m + 1].pos) = NextPos(Here.pos)
  BY <1>8 DEF At
<1>10. W[m + 2] = StepAt(pols["new"], W[m + 1]) /\ results["new"][m + 1] = RowAt(pols["new"], W[m + 1])
  <2>1. W[m + 1 + 1] = StepAt(pols["new"], W[m + 1])
        /\ results["new"][m + 1] = RowAt(pols["new"], W[m + 1])
    BY <1>8 DEF FirstPass
  <2> QED BY <1>3, <2>1
<1>11. pos' = W[m + 2].pos
  <2>1. Here'.pos = NextPos(Here.pos) /\ W[m + 2].pos = NextPos(W[m + 1].pos)
    BY <1>4, <1>10 DEF StepAt
  <2> QED BY <1>9, <2>1 DEF Here
<1>12. /\ results'["old"][m + 1].session = results["new"][m + 1].session
       /\ results'["old"][m + 1].seq = results["new"][m + 1].seq
  BY <1>5, <1>9, <1>10 DEF RowAt
<1>13. ASSUME SameRules(pols["old"], pols["new"])
       PROVE  Here' = W[m + 2] /\ results'["old"][m + 1] = results["new"][m + 1]
  <2>1. Here = W[m + 1]
    BY <1>13 DEF SecondPass
  <2> QED BY <1>4, <1>5, <1>10, <1>13, <2>1, SameRulesSameStep
<1> HIDE DEF m, n
<1>14. /\ W[n + 1].pos.group > Len(groups)
       /\ \A i \in 1..m : /\ results["old"][i].session = results["new"][i].session
                          /\ results["old"][i].seq = results["new"][i].seq
                          /\ SameRules(pols["old"], pols["new"]) => results["old"][i] = results["new"][i]
  BY DEF SecondPass, m, n
<1>15. 1..(m + 1) = (1..m) \cup {m + 1} /\ m + 1 <= n /\ m + 1 + 1 = m + 2
  BY <1>3, <1>7
<1>16. Len(results'["new"]) = n /\ Len(results'["old"]) = m + 1
  BY <1>4, <1>5 DEF n
<1>17. \A i \in 1..(m + 1) :
          /\ results'["old"][i].session = results'["new"][i].session
          /\ results'["old"][i].seq = results'["new"][i].seq
          /\ SameRules(pols["old"], pols["new"]) => results'["old"][i] = results'["new"][i]
  BY <1>4, <1>5, <1>12, <1>13, <1>14, <1>15
<1>18. SecondPass(W)'
  BY <1>2, <1>11, <1>13, <1>14, <1>15, <1>16, <1>17 DEF SecondPass
<1> QED BY <1>6, <1>18

\* Every step keeps the run: evaluating extends it or follows it.
LEMMA RunInvNext ==
    ASSUME CommandType, pols \in Pairs, RunInv, [Next]_vars \/ [ToolsNext]_toolsVars
    PROVE  RunInv'
<1>1. CASE Evaluate
  <2> SUFFICES ASSUME (job = "simulate")', (pass # "read")'
               PROVE  RunInv'
    BY DEF RunInv
  <2>1. job = "simulate" /\ pass # "read" /\ UNCHANGED <<job, pass>>
    BY <1>1 DEF Evaluate
  <2>2. PICK W : /\ FirstPass(W)
                 /\ pass = "new" => Here = W[Len(results["new"]) + 1] /\ results["old"] = << >>
                 /\ pass = "old" => SecondPass(W)
    BY <2>1 DEF RunInv
  <2>3. CASE pass = "new"
    <3>1. PICK V : FirstPass(V)' /\ Here' = V[Len(results'["new"]) + 1]
      BY <1>1, <2>2, <2>3, FirstPassStep
    <3>2. results'["old"] = << >>
      BY <1>1, <2>1, <2>2, <2>3 DEF Evaluate, Version
    <3> QED BY <2>1, <2>3, <3>1, <3>2 DEF RunInv
  <2>4. CASE pass = "old"
    <3>1. FirstPass(W)' /\ SecondPass(W)'
      BY <1>1, <2>1, <2>2, <2>4, SecondPassStep
    <3> QED BY <2>1, <2>4, <3>1 DEF RunInv
  <2> QED BY <2>1, <2>3, <2>4 DEF CommandType
<1>2. CASE EndOfFile
  <2>1. pass' = "new" /\ results' = [v \in Version |-> << >>]
        /\ Here' = [pos |-> First, sess |-> NewSession, store |-> NoEvents]
    BY <1>2 DEF EndOfFile, CommandType, Here
  <2> PICK W : W = [i \in {1} |-> [pos |-> First, sess |-> NewSession, store |-> NoEvents]]
    OBVIOUS
  <2>2. results'["new"] = << >> /\ results'["old"] = << >>
    BY <2>1 DEF Version
  <2>3. FirstPass(W)' /\ Here' = W[Len(results'["new"]) + 1]
    BY <2>1, <2>2 DEF FirstPass
  <2> QED BY <2>1, <2>2, <2>3 DEF RunInv
<1>3. CASE OldPass
  <2>1. /\ job = "simulate" /\ pass = "new" /\ pass' = "old" /\ pos.group > Len(groups)
        /\ Here' = [pos |-> First, sess |-> NewSession, store |-> NoEvents]
        /\ pos' = First /\ UNCHANGED <<job, groups, results, pols>>
    BY <1>3 DEF OldPass, captureVars, First, NoEvents, Here
  <2>2. PICK W : FirstPass(W) /\ Here = W[Len(results["new"]) + 1] /\ results["old"] = << >>
    BY <2>1 DEF RunInv
  <2>3. FirstPass(W)'
    BY <2>1, <2>2, StepsFrozen DEF FirstPass
  <2>4. results["new"] \in Seq(Row) /\ Len(results["new"]) \in Nat
    BY DEF CommandType, Version
  <2>5. SecondPass(W)'
    <3>1. W[1] = [pos |-> First, sess |-> NewSession, store |-> NoEvents]
      BY <2>2 DEF FirstPass
    <3>2. W[Len(results["new"]) + 1].pos.group > Len(groups)
      BY <2>1, <2>2 DEF Here
    <3>3. Len(results'["old"]) = 0 /\ results' = results /\ groups' = groups
      BY <2>1, <2>2
    <3>4. pos' = W[1].pos /\ Here' = W[1]
      BY <2>1, <3>1
    <3> QED BY <2>4, <3>2, <3>3, <3>4 DEF SecondPass
  <2> QED BY <2>1, <2>3, <2>5 DEF RunInv
<1>4. CASE runSimulate \/ runReplay \/ (\E s \in Session : runInspect(s)) \/ ReadEntry
  <2>1. pass' = "read"
    BY <1>4 DEF runSimulate, runReplay, Start, runInspect, ReadEntry, CommandType
  <2> QED BY <2>1 DEF RunInv
<1>5. ASSUME NEW s \in Session, NEW t \in Tool, NEW a \in Args, NEW loss, NEW now,
             Approve(s, t, a) \/ Capture(s, t, a, loss, now)
      PROVE  RunInv'
  <2>1. job' = "capture"
    BY <1>5 DEF Approve, Capture, commandVars
  <2> QED BY <2>1 DEF RunInv
<1>6. CASE UNCHANGED vars
  <2>1. UNCHANGED <<job, groups, pols, results, pos, sess, store, pass>>
    BY <1>6 DEF vars
  <2>2. Here' = Here
    BY <2>1 DEF Here
  <2>3. ASSUME NEW W PROVE (FirstPass(W) => FirstPass(W)') /\ (SecondPass(W) => SecondPass(W)')
    BY <2>1, <2>2, StepsFrozen DEF FirstPass, SecondPass
  <2> QED BY <2>1, <2>2, <2>3 DEF RunInv
<1>7. CASE [Next]_vars
  BY <1>1, <1>2, <1>3, <1>4, <1>5, <1>6, <1>7 DEF Next
<1>8. CASE [ToolsNext]_toolsVars
  <2>1. UNCHANGED toolsVars => UNCHANGED vars
    BY DEF toolsVars
  <2>2. ASSUME NEW s, detectTaintCausingEvents(s) PROVE UNCHANGED vars
    BY <2>2 DEF detectTaintCausingEvents
  <2> QED BY <1>1, <1>2, <1>3, <1>4, <1>5, <1>6, <1>8, <2>1, <2>2 DEF ToolsNext
<1> QED BY <1>7, <1>8

\* Where `policy diff` detects no changes, `simulate` reports the same decision
\* under both files for every traced call: both passes go through the same
\* sessions, whatever the calls and their number, and whatever the files, if
\* their lists have no repeated names, their thresholds the same YAML type and
\* their tools the same rate limits.
THEOREM DiffSound ==
    ToolsSpec => []SilentDiffChangesNothing
<1>1. ToolsInit => CaptureInv /\ CommandType /\ RunInv
  BY CaptureInvInit, CommandTypeInit DEF ToolsInit, Init, RunInv
<1>2. CaptureInv /\ CommandType /\ RunInv /\ [ToolsNext]_toolsVars
         => CaptureInv' /\ CommandType' /\ RunInv'
  BY CaptureInvTools, CommandTypeNext, RunInvNext DEF CaptureInv, CaptureType
<1>3. CaptureInv /\ CommandType /\ RunInv => SilentDiffChangesNothing
  <2> SUFFICES ASSUME CaptureInv, CommandType, RunInv, NEW fp \in Compared,
                      job = "simulate", printDiff(fp.old, fp.new) = {},
                      NoRepeats(fp.old), NoRepeats(fp.new), SameTypes(fp),
                      RateLimits(pols.old) = RateLimits(pols.new),
                      NEW i \in 1..Len(mergeResults)
               PROVE  mergeResults[i].old \in {"", mergeResults[i].new}
    BY DEF SilentDiffChangesNothing
  <2>1. SameRules(pols["old"], pols["new"])
    BY SilentMeansSameRules DEF CaptureInv, CaptureType
  <2>2. results["new"] \in Seq(Row) /\ results["old"] \in Seq(Row)
    BY DEF CommandType, Version
  <2>3. DOMAIN mergeResults = 1..Len(results["new"]) /\ Len(results["new"]) \in Nat
    BY <2>2 DEF mergeResults
  <2>4. Len(mergeResults) = Len(results["new"])
    BY <2>3
  <2>5. /\ mergeResults[i].new = results["new"][i].action
        /\ mergeResults[i].old = IF i <= Len(results["old"]) THEN results["old"][i].action ELSE ""
    BY <2>4 DEF mergeResults
  <2>6. CASE i <= Len(results["old"])
    <3>1. i \in 1..Len(results["old"])
      BY <2>2, <2>3, <2>4, <2>6
    <3>2. pass = "old"
      <4>1. pass # "read"
        BY <3>1 DEF CommandType, Version
      <4>2. pass # "new"
        BY <3>1, <4>1 DEF RunInv
      <4> QED BY <4>1, <4>2 DEF CommandType
    <3>3. results["old"][i] = results["new"][i]
      BY <2>1, <3>1, <3>2 DEF RunInv, SecondPass
    <3> QED BY <2>5, <2>6, <3>3
  <2>7. CASE ~ i <= Len(results["old"])
    BY <2>5, <2>7
  <2> QED BY <2>6, <2>7
<1> QED BY <1>1, <1>2, <1>3, PTL DEF ToolsSpec

-----------------------------------------------------------------------------
(* simulate and audit replay: their stages decide what the proxy decided.   *)

\* The history rules depend on the calls of the log alone.
LEMMA SequenceCongruent ==
    ASSUME NEW p, NEW q, NEW k \in Nat, Len(p) = k, Len(q) = k, SameCalls(p, q, k), NEW t, NEW pol
    PROVE  SequenceEvaluator(t, pol, p) = SequenceEvaluator(t, pol, q)
<1>1. \A u : CallsOf(p, u) = CallsOf(q, u)
  BY DEF CallsOf, SameCalls, Counts
<1> QED BY <1>1 DEF SequenceEvaluator

\* Call i of the log, evaluated by a command that knows what the calls before
\* it amount to: the stages that the commands leave out have nothing to say,
\* and so has a human who approved nothing.
LEMMA VerdictsAgree ==
    ASSUME job \in {"simulate", "replay"},
           NEW pol, Visible(pol), NEW s, NEW log, NEW i \in Nat \ {0},
           DecidedAt(pol, s, log, i, approved),
           NEW e, e.tool \in Tool, e.tool = log[i].tool,
           job = "simulate" => e.args = log[i].args /\ <<s, log[i].tool, log[i].args>> \notin approved,
           job = "replay" => pol.tools[e.tool].escalateWhen = {},
           NEW cur \in Struct, SessIs(cur, log, pol, i - 1),
           NEW st, Len(st) = i - 1, SameCalls(st, log, i - 1)
    PROVE  Decide(CommandVerdict(pol, e, cur, st), e.tool, pol) = log[i].action
<1> DEFINE t == e.tool
<1>1. PICK x, at, ok :
        /\ SessIs(x.sess, log, pol, i - 1)
        /\ Len(x.log) = i - 1 /\ SameCalls(x.log, log, i - 1)
        /\ ok => <<s, log[i].tool, log[i].args>> \in approved
        /\ log[i].action = Decide(ProxyVerdict(pol, log[i].tool, log[i].args, at, x, ok),
                                  log[i].tool, pol)
        /\ log[i].rule = ProxyRule(pol, log[i].tool, x)
  BY DEF DecidedAt
<1>2. EnvEvaluator(AgentEnv, pol) = "allow" /\ ContentEvaluator(t, log[i].args, pol) = "allow"
  BY DEF Visible, ContentEvaluator
<1>3. \A n, l : RateLimitEvaluator(t, n, pol, l) = "allow"
  <2>1. pol.tools[t].rateLimit = {}
    BY DEF Visible
  <2> QED BY <2>1 DEF RateLimitEvaluator
<1>4. BudgetEvaluator(x.sess, pol) = BudgetEvaluator(cur, pol)
  <2>1. x.sess.calls = cur.calls /\ x.sess.cost = cur.cost
    BY <1>1 DEF SessIs
  <2> QED BY <2>1 DEF BudgetEvaluator, BudgetExceeded
<1>5. TaintEvaluator(t, x.sess, pol) = TaintEvaluator(t, cur, pol)
  <2>1. x.sess.tainted <=> cur.tainted
    BY <1>1 DEF SessIs
  <2> QED BY <2>1 DEF TaintEvaluator
<1>6. SequenceEvaluator(t, pol, x.log) = SequenceEvaluator(t, pol, st)
  <2>1. i - 1 \in Nat /\ SameCalls(x.log, st, i - 1)
    BY <1>1 DEF SameCalls
  <2> QED BY <1>1, <2>1, SequenceCongruent
<1>7. EscalationEvaluator(t, log[i].args, pol, ok)
         = IF job = "simulate" THEN EscalationEvaluator(e.tool, e.args, pol, FALSE) ELSE "allow"
  <2>1. CASE job = "simulate"
    <3>1. ~ ok /\ e.args = log[i].args
      BY <1>1, <2>1
    <3> QED BY <2>1, <3>1 DEF EscalationEvaluator
  <2>2. CASE job = "replay"
    <3>1. {p[log[i].args] : p \in pol.tools[t].escalateWhen} = {}
      BY <2>2
    <3> QED BY <2>2, <3>1 DEF EscalationEvaluator
  <2> QED BY <2>1, <2>2
<1>8. ProxyVerdict(pol, t, log[i].args, at, x, ok) = CommandVerdict(pol, e, cur, st)
  BY <1>2, <1>3, <1>4, <1>5, <1>6, <1>7 DEF ProxyVerdict, CommandVerdict, Chain
<1> QED BY <1>1, <1>8

Increasing(f, m) == \A i, j \in 1..m : i < j => f[i] < f[j]
Covers(f, m, n)  == \A v \in 1..n : \E i \in 1..m : f[i] = v

\* A strictly increasing function is nowhere below the identity, and it is the
\* identity as far as it leaves out no number.
LEMMA Staircase ==
    ASSUME NEW m \in Nat, NEW f \in [1..m -> Nat \ {0}], Increasing(f, m), NEW i \in 1..m
    PROVE  i <= f[i] /\ (Covers(f, m, f[i]) => f[i] = i)
<1> USE DEF Increasing, Covers
<1> DEFINE h == [j \in 1..i |-> f[j]]
<1>1. f[i] \in Nat \ {0} /\ i \in Nat
  OBVIOUS
<1>2. ASSUME NEW j \in 1..i PROVE f[j] \in 1..f[i]
  <2>1. j \in 1..m /\ (j = i \/ j < i) /\ f[j] \in Nat \ {0}
    BY <1>2
  <2> QED BY <1>1, <2>1
<1>3. \A j, k \in 1..i : f[j] = f[k] => j = k
  <2> SUFFICES ASSUME NEW j \in 1..i, NEW k \in 1..i, f[j] = f[k], j # k PROVE FALSE
    OBVIOUS
  <2>1. j \in 1..m /\ k \in 1..m /\ (j < k \/ k < j) /\ f[j] \in Nat /\ f[k] \in Nat
    OBVIOUS
  <2> QED BY <2>1
<1>4. h \in [1..i -> 1..f[i]]
  BY <1>2
<1>5. /\ IsFiniteSet(1..i) /\ Cardinality(1..i) = i
      /\ IsFiniteSet(1..f[i]) /\ Cardinality(1..f[i]) = f[i]
  BY <1>1, UpToFinite
<1>6. i <= f[i]
  <2> SUFFICES ASSUME f[i] < i PROVE FALSE
    BY <1>1
  <2>1. Cardinality(1..f[i]) < Cardinality(1..i)
    BY <1>5
  <2>2. \E j, k \in 1..i : j # k /\ h[j] = h[k]
    <3> DEFINE A == 1..i
               B == 1..f[i]
    <3>1. h \in [A -> B] /\ IsFiniteSet(A) /\ IsFiniteSet(B) /\ Cardinality(B) < Cardinality(A)
      BY <1>4, <1>5, <2>1
    <3> HIDE DEF h, A, B
    <3>2. \E j, k \in A : j # k /\ h[j] = h[k]
      BY ONLY <3>1, FS_PigeonHole
    <3> QED BY <3>2 DEF A
  <2> QED BY <1>3, <2>2
<1>7. ASSUME Covers(f, m, f[i]) PROVE f[i] = i
  <2>1. \A v \in 1..f[i] : \E j \in 1..i : f[j] = v
    <3> TAKE v \in 1..f[i]
    <3>1. PICK j \in 1..m : f[j] = v
      BY <1>7
    <3>2. ~ i < j
      BY <1>1, <3>1
    <3> QED BY <3>1, <3>2
  <2>2. h \in Bijection(1..i, 1..f[i])
    BY <1>3, <1>4, <2>1 DEF Bijection, Injection, Surjection, IsInjective
  <2>3. ExistsBijection(1..i, 1..f[i])
    BY <2>2 DEF ExistsBijection
  <2>4. Cardinality(1..f[i]) = Cardinality(1..i)
    BY <1>5, <2>3, FS_Bijection
  <2> QED BY <1>5, <2>4
<1> QED BY <1>6, <1>7

-----------------------------------------------------------------------------
(* Reading the file.                                                        *)

\* A group has the entries of its session among the first k, in order.
GroupUpTo(p, q, k) ==
    LET s == p[1].session
    IN  /\ Len(p) = Nth(q, s, k)
        /\ \A i \in 1..Len(p) :
              p[i].session = s /\ \E j \in 1..k : p[i] = q[j] /\ Nth(q, s, j) = i

ReadUpTo(gs, q, k) ==
    /\ \A g \in 1..Len(gs) : GroupUpTo(gs[g], q, k)
    /\ \A g, h \in 1..Len(gs) : gs[g][1].session = gs[h][1].session => g = h
    /\ \A j \in 1..k : \E g \in 1..Len(gs) : \E i \in 1..Len(gs[g]) : gs[g][i] = q[j]

\* The next entry, for a group.
LEMMA GroupStep ==
    ASSUME NEW S, NEW q \in Seq(S), NEW p \in Seq(S), p # << >>, NEW k \in Nat, k < Len(q),
           GroupUpTo(p, q, k)
    PROVE  /\ q[k + 1].session = p[1].session => GroupUpTo(Append(p, q[k + 1]), q, k + 1)
           /\ q[k + 1].session # p[1].session => GroupUpTo(p, q, k + 1)
<1> DEFINE s == p[1].session
           n == Len(p)
           e == q[k + 1]
           long == Append(p, e)
<1>1. n \in Nat \ {0} /\ e \in S /\ k + 1 \in Nat
  BY EmptySeq
<1>2. /\ n = Nth(q, s, k)
      /\ \A i \in 1..n : p[i].session = s /\ \E j \in 1..k : p[i] = q[j] /\ Nth(q, s, j) = i
  BY DEF GroupUpTo
<1>3. /\ e.session = s => Nth(q, s, k + 1) = Nth(q, s, k) + 1
      /\ e.session # s => Nth(q, s, k + 1) = Nth(q, s, k)
  BY NthStep
<1>4. \A j \in 1..k : j \in 1..(k + 1)
  OBVIOUS
<1>5. ASSUME e.session # s PROVE GroupUpTo(p, q, k + 1)
  BY <1>2, <1>3, <1>4, <1>5 DEF GroupUpTo
<1>6. ASSUME e.session = s PROVE GroupUpTo(long, q, k + 1)
  <2>1. Len(long) = n + 1 /\ long[n + 1] = e /\ \A i \in 1..n : long[i] = p[i]
    BY <1>1
  <2>2. long[1].session = s /\ Nth(q, s, k + 1) = n + 1
    BY <1>1, <1>2, <1>3, <1>6, <2>1
  <2>3. ASSUME NEW i \in 1..(n + 1)
        PROVE  long[i].session = s /\ \E j \in 1..(k + 1) : long[i] = q[j] /\ Nth(q, s, j) = i
    <3>1. CASE i = n + 1
      <4>1. k + 1 \in 1..(k + 1)
        BY <1>1
      <4> QED BY <1>6, <2>1, <2>2, <3>1, <4>1
    <3>2. CASE i # n + 1
      <4>1. i \in 1..n
        BY <1>1, <2>3, <3>2
      <4> QED BY <1>2, <1>4, <2>1, <4>1
    <3> QED BY <3>1, <3>2
  <2> HIDE DEF long, s, n, e
  <2> QED BY <2>1, <2>2, <2>3 DEF GroupUpTo
<1> QED BY <1>5, <1>6

\* The next entry, for all groups.
LEMMA ReadStep ==
    ASSUME NEW S, NEW q \in Seq(S), NEW gs \in Seq(Seq(S)),
           \A g \in 1..Len(gs) : gs[g] # << >>,
           NEW k \in Nat, k < Len(q), ReadUpTo(gs, q, k)
    PROVE  ReadUpTo(appendToGroup(gs, q[k + 1]), q, k + 1)
<1> DEFINE e == q[k + 1]
           n == Len(gs)
<1>1. e \in S /\ n \in Nat /\ k + 1 \in 1..(k + 1) /\ 1..(k + 1) = (1..k) \cup {k + 1}
  OBVIOUS
<1>2. /\ \A g \in 1..n : GroupUpTo(gs[g], q, k)
      /\ \A g, h \in 1..n : gs[g][1].session = gs[h][1].session => g = h
      /\ \A j \in 1..k : \E g \in 1..n : \E i \in 1..Len(gs[g]) : gs[g][i] = q[j]
  BY DEF ReadUpTo
<1>3. ASSUME NEW g \in 1..n
      PROVE  /\ gs[g] \in Seq(S) /\ Len(gs[g]) \in Nat \ {0}
             /\ e.session = gs[g][1].session => GroupUpTo(Append(gs[g], e), q, k + 1)
             /\ e.session # gs[g][1].session => GroupUpTo(gs[g], q, k + 1)
             /\ Len(Append(gs[g], e)) = Len(gs[g]) + 1 /\ Append(gs[g], e)[Len(gs[g]) + 1] = e
             /\ \A i \in 1..Len(gs[g]) : Append(gs[g], e)[i] = gs[g][i]
  <2>1. gs[g] \in Seq(S) /\ gs[g] # << >>
    BY <1>3
  <2>2. Len(gs[g]) \in Nat \ {0}
    BY <2>1, EmptySeq
  <2>3. /\ e.session = gs[g][1].session => GroupUpTo(Append(gs[g], e), q, k + 1)
        /\ e.session # gs[g][1].session => GroupUpTo(gs[g], q, k + 1)
    BY <1>2, <1>3, <2>1, GroupStep
  <2> QED BY <1>1, <2>1, <2>2, <2>3
<1>4. CASE \E g \in 1..n : gs[g][1].session = e.session
  <2> DEFINE new == [g \in 1..n |->
                        IF gs[g][1].session = e.session THEN Append(gs[g], e) ELSE gs[g]]
  <2>1. appendToGroup(gs, e) = new
    BY <1>4 DEF appendToGroup
  <2>2. ASSUME NEW g \in 1..n
        PROVE  /\ new[g] \in Seq(S) /\ new[g][1].session = gs[g][1].session
               /\ GroupUpTo(new[g], q, k + 1)
               /\ \A i \in 1..Len(gs[g]) : i \in 1..Len(new[g]) /\ new[g][i] = gs[g][i]
               /\ gs[g][1].session = e.session => \E i \in 1..Len(new[g]) : new[g][i] = e
    <3>1. CASE gs[g][1].session = e.session
      <4>1. new[g] = Append(gs[g], e)
        BY <2>2, <3>1
      <4>2. Len(new[g]) = Len(gs[g]) + 1 /\ new[g] \in Seq(S) /\ new[g][1] = gs[g][1]
            /\ new[g][Len(gs[g]) + 1] = e /\ \A i \in 1..Len(gs[g]) : new[g][i] = gs[g][i]
        BY <1>1, <1>3, <2>2, <4>1
      <4>3. Len(gs[g]) + 1 \in 1..Len(new[g]) /\ \A i \in 1..Len(gs[g]) : i \in 1..Len(new[g])
        BY <1>3, <2>2, <4>2
      <4>4. GroupUpTo(new[g], q, k + 1)
        BY <1>3, <2>2, <3>1, <4>1
      <4> QED BY <4>2, <4>3, <4>4
    <3>2. CASE gs[g][1].session # e.session
      <4>1. new[g] = gs[g]
        BY <2>2, <3>2
      <4> QED BY <1>3, <2>2, <3>2, <4>1
    <3> QED BY <3>1, <3>2
  <2>3. Len(new) = n
    <3>1. new \in [1..n -> Seq(S)]
      BY <2>2
    <3> HIDE DEF new
    <3> QED BY <1>1, <3>1, FunIsSeq
  <2> HIDE DEF new
  <2>4. ASSUME NEW j \in 1..(k + 1)
        PROVE  \E g \in 1..n : \E i \in 1..Len(new[g]) : new[g][i] = q[j]
    <3>1. CASE j = k + 1
      BY <1>4, <2>2, <3>1
    <3>2. CASE j \in 1..k
      <4>1. PICK g \in 1..n : \E i \in 1..Len(gs[g]) : gs[g][i] = q[j]
        BY <1>2, <3>2
      <4>2. PICK i \in 1..Len(gs[g]) : gs[g][i] = q[j]
        BY <4>1
      <4>3. i \in 1..Len(new[g]) /\ new[g][i] = q[j]
        BY <2>2, <4>2
      <4> QED BY <4>3
    <3> QED BY <1>1, <2>4, <3>1, <3>2
  <2>5. \A g, h \in 1..n : new[g][1].session = new[h][1].session => g = h
    BY <1>2, <2>2
  <2>6. ReadUpTo(new, q, k + 1)
    BY <2>2, <2>3, <2>4, <2>5 DEF ReadUpTo
  <2> QED BY <2>1, <2>6
<1>5. CASE ~ \E g \in 1..n : gs[g][1].session = e.session
  <2> DEFINE new == Append(gs, <<e>>)
             s == e.session
  <2>1. appendToGroup(gs, e) = new
    BY <1>5 DEF appendToGroup
  <2>2. Len(new) = n + 1 /\ new[n + 1] = <<e>> /\ \A g \in 1..n : new[g] = gs[g]
    BY <1>1
  <2>3. \A j \in 1..k : q[j].session # s
    <3> SUFFICES ASSUME NEW j \in 1..k, q[j].session = s PROVE FALSE
      OBVIOUS
    <3>1. PICK g \in 1..n : \E i \in 1..Len(gs[g]) : gs[g][i] = q[j]
      BY <1>2
    <3>2. GroupUpTo(gs[g], q, k)
      BY <1>2
    <3>3. gs[g][1].session = q[j].session
      BY <3>1, <3>2 DEF GroupUpTo
    <3> QED BY <1>5, <3>3
  <2>4. Nth(q, s, k) = 0 /\ Nth(q, s, k + 1) = 1
    <3>1. {j \in 1..k : q[j].session = s} = {}
      BY <2>3
    <3>2. Nth(q, s, k) = 0
      BY <3>1, FS_EmptySet DEF Nth
    <3> QED BY <3>2, NthStep
  <2>5. GroupUpTo(<<e>>, q, k + 1)
    <3>1. Len(<<e>>) = 1 /\ <<e>>[1] = e
      OBVIOUS
    <3> HIDE DEF e
    <3>2. \A i \in 1..1 : <<e>>[i].session = s
             /\ \E j \in 1..(k + 1) : <<e>>[i] = q[j] /\ Nth(q, s, j) = i
      BY <1>1, <2>4, <3>1 DEF e
    <3> QED BY <2>4, <3>1, <3>2 DEF GroupUpTo
  <2>6. 1..(n + 1) = (1..n) \cup {n + 1} /\ n + 1 \in 1..(n + 1)
    BY <1>1
  <2>7. <<e>>[1] = e /\ 1 \in 1..Len(<<e>>)
    OBVIOUS
  <2> HIDE DEF new, e, n
  <2>8. \A g \in 1..(n + 1) : GroupUpTo(new[g], q, k + 1)
    BY <1>3, <1>5, <2>2, <2>5, <2>6
  <2>9. \A g, h \in 1..(n + 1) : new[g][1].session = new[h][1].session => g = h
    <3> SUFFICES ASSUME NEW g \in 1..(n + 1), NEW h \in 1..(n + 1),
                        new[g][1].session = new[h][1].session
                 PROVE  g = h
      OBVIOUS
    <3>1. new[n + 1][1].session = e.session
      BY <2>2, <2>7
    <3>2. \A x \in 1..n : new[x][1].session = gs[x][1].session /\ gs[x][1].session # e.session
      BY <1>5, <2>2
    <3>3. CASE g \in 1..n /\ h \in 1..n
      BY <1>2, <3>2, <3>3
    <3>4. CASE g \notin 1..n \/ h \notin 1..n
      BY <2>6, <3>1, <3>2, <3>4
    <3> QED BY <3>3, <3>4
  <2>10. ASSUME NEW j \in 1..(k + 1)
         PROVE  \E g \in 1..(n + 1) : \E i \in 1..Len(new[g]) : new[g][i] = q[j]
    <3>1. CASE j = k + 1
      BY <2>2, <2>6, <2>7, <3>1 DEF e
    <3>2. CASE j \in 1..k
      <4>1. PICK g \in 1..n : \E i \in 1..Len(gs[g]) : gs[g][i] = q[j]
        BY <1>2, <3>2
      <4>2. g \in 1..(n + 1) /\ new[g] = gs[g]
        BY <2>2, <2>6, <4>1
      <4> QED BY <4>1, <4>2
    <3> QED BY <1>1, <2>10, <3>1, <3>2
  <2> QED BY <2>1, <2>2, <2>8, <2>9, <2>10 DEF ReadUpTo, e
<1> QED BY <1>4, <1>5

\* An export has every audit record once.
LEMMA ExportComplete ==
    ASSUME CaptureType, NEW f \in Exports
    PROVE  /\ f \in Seq(audit) /\ Len(f) \in Nat
           /\ \A i, j \in 1..Len(f) : f[i] = f[j] => i = j
           /\ \A r \in audit : \E j \in 1..Len(f) : f[j] = r
<1> DEFINE n == Cardinality(audit)
<1>1. f \in [1..n -> audit] /\ \A i, j \in 1..n : i # j => f[i] # f[j]
  BY DEF Exports, SetToSeqs
<1>2. IsFiniteSet(audit) /\ n \in Nat
  BY FS_CardinalityType DEF CaptureType
<1>3. f \in Seq(audit) /\ Len(f) = n
  BY <1>1, <1>2, FunIsSeq
<1>4. f \in Injection(1..n, audit)
  BY <1>1 DEF Injection, IsInjective
<1>5. Cardinality(1..n) = Cardinality(audit)
  BY <1>2, UpToFinite
<1>6. f \in Surjection(1..n, audit)
  BY <1>2, <1>4, <1>5, FS_Injection
<1>7. \A r \in audit : \E j \in 1..n : f[j] = r
  BY <1>6 DEF Surjection
<1> QED BY <1>1, <1>2, <1>3, <1>7

\* The entries have different numbers.
Numbered(q) ==
    /\ \A i \in 1..Len(q) : q[i].seq \in Nat \ {0}
    /\ \A i, j \in 1..Len(q) : q[i].seq = q[j].seq => i = j

\* Up to number n they leave none out.
Complete(q, n) == \A v \in 1..n : \E i \in 1..Len(q) : q[i].seq = v

\* Sorting such entries puts entry i at place i, as far as none is left out.
LEMMA SortedFollows ==
    ASSUME NEW S, NEW q \in Seq(S), NEW r \in sortBySeq(q), Numbered(q), NEW i \in 1..Len(q)
    PROVE  /\ i <= r[i].seq
           /\ Complete(q, i) \/ Complete(q, r[i].seq) => r[i].seq = i
<1> USE DEF Numbered
<1> DEFINE m == Len(q)
           f == [k \in 1..m |-> r[k].seq]
<1>1. m \in Nat /\ \A k, j \in 1..m : k < j => r[k].seq <= r[j].seq
  BY SortedGroup
<1>2. PICK p \in [1..m -> 1..m] : IsInjective(p) /\ \A k \in 1..m : r[k] = q[p[k]]
  BY SortedGroup
<1>3. \A k \in 1..m : /\ f[k] = r[k].seq /\ f[k] = q[p[k]].seq
                      /\ f[k] \in Nat \ {0} /\ p[k] \in 1..m
  BY <1>2
<1>4. f \in [1..m -> Nat \ {0}]
  BY <1>3
<1> HIDE DEF f
<1>5. ASSUME NEW k \in 1..m, NEW j \in 1..m, k < j PROVE f[k] < f[j]
  <2>1. f[k] <= f[j] /\ f[k] \in Nat /\ f[j] \in Nat
    <3>1. f[k] = r[k].seq /\ f[j] = r[j].seq /\ f[k] \in Nat /\ f[j] \in Nat
      BY <1>3, <1>5
    <3>2. r[k].seq <= r[j].seq
      BY <1>1, <1>5
    <3> QED BY <3>1, <3>2
  <2>2. f[k] # f[j]
    <3> SUFFICES ASSUME f[k] = f[j] PROVE FALSE
      OBVIOUS
    <3>1. p[k] \in 1..m /\ p[j] \in 1..m /\ q[p[k]].seq = q[p[j]].seq
      BY <1>3, <1>5
    <3>2. p[k] = p[j]
      BY <3>1
    <3>3. k = j
      BY <1>2, <1>5, <3>2 DEF IsInjective
    <3> QED BY <1>1, <1>5, <3>3
  <2> QED BY <2>1, <2>2
<1>6. \A a \in 1..m : \E k \in 1..m : p[k] = a
  <2>1. p \in Injection(1..m, 1..m)
    BY <1>2 DEF Injection
  <2>2. IsFiniteSet(1..m)
    BY <1>1, UpToFinite
  <2>3. p \in Surjection(1..m, 1..m)
    BY <2>1, <2>2, FS_Injection
  <2> QED BY <2>3 DEF Surjection
<1>7. ASSUME NEW n, Complete(q, n) PROVE Covers(f, m, n)
  <2> SUFFICES ASSUME NEW v \in 1..n PROVE \E k \in 1..m : f[k] = v
    BY DEF Covers
  <2>1. PICK a \in 1..m : q[a].seq = v
    BY <1>7 DEF Complete
  <2>2. PICK k \in 1..m : p[k] = a
    BY <1>6
  <2> QED BY <1>3, <2>1, <2>2
<1>8. ASSUME NEW k \in 1..m
      PROVE  k <= f[k] /\ (Covers(f, m, f[k]) => f[k] = k)
  <2> HIDE DEF m
  <2>1. Increasing(f, m)
    BY <1>5 DEF Increasing
  <2>2. m \in Nat
    BY <1>1
  <2> QED BY ONLY <1>4, <1>8, <2>1, <2>2, Staircase
<1>9. ASSUME Complete(q, i) PROVE f[i] = i
  <2>1. Covers(f, m, i) /\ i \in 1..i
    BY <1>1, <1>7, <1>9
  <2>2. PICK k \in 1..m : f[k] = i
    BY <2>1 DEF Covers
  <2>3. f[k] = k
    BY <1>8, <2>1, <2>2
  <2> QED BY <2>2, <2>3
<1>10. ASSUME Complete(q, r[i].seq) PROVE f[i] = i
  <2>1. f[i] = r[i].seq
    BY <1>3
  <2> QED BY <1>7, <1>8, <1>10, <2>1
<1> QED BY <1>3, <1>8, <1>9, <1>10

ReadInv ==
    pass = "read" /\ job \in {"simulate", "replay"} =>
        /\ job = "simulate" => input = trace
        /\ job = "replay"   => input \in Exports
        /\ line <= Len(input) + 1
        /\ ReadUpTo(groups, input, line - 1)

\* Each group is of one session, and each session has one group.
Grouped ==
    /\ \A g \in 1..Len(groups) : \A i \in 1..Len(groups[g]) :
          groups[g][i].session = groups[g][1].session
    /\ \A g, h \in 1..Len(groups) : groups[g][1].session = groups[h][1].session => g = h

\* Entry i of the group of session s is call i of the session, if the file of
\* the command lost nothing of the session up to it.
Matches(s, i, e) ==
    LET log == live["old"][s].log
    IN  /\ job = "simulate" /\ Intact("trace", s, i) =>
              i \in 1..Len(log) /\ e.tool = log[i].tool /\ e.args = log[i].args
        /\ job = "replay" /\ (Intact("audit", s, i) \/ Intact("audit", s, e.seq)) =>
              /\ i \in 1..Len(log) /\ e.tool = log[i].tool
              /\ e.seq = i /\ e.action = log[i].action

GroupsInv ==
    pass # "read" =>
        /\ Grouped
        /\ \A g \in 1..Len(groups) : \A i \in 1..Len(groups[g]) :
              Matches(groups[g][1].session, i, groups[g][i])

\* The trace: the order of the file is that of the calls.
LEMMA TraceGroups ==
    ASSUME CaptureInv, CommandType, ReadInv, EndOfFile, job = "simulate"
    PROVE  /\ Grouped
           /\ \A g \in 1..Len(groups) : \A i \in 1..Len(groups[g]) :
                 Matches(groups[g][1].session, i, groups[g][i])
<1>1. /\ input = trace /\ line <= Len(input) + 1 /\ ReadUpTo(groups, input, line - 1)
      /\ line > Len(input)
  BY DEF ReadInv, EndOfFile
<1>2. trace \in Seq(TraceEntry) /\ Len(trace) \in Nat /\ line \in Nat
  BY DEF CaptureInv, CaptureType, CommandType
<1>3. line - 1 = Len(trace)
  BY <1>1, <1>2
<1>4. \A g \in 1..Len(groups) : GroupUpTo(groups[g], trace, Len(trace))
  BY <1>1, <1>3 DEF ReadUpTo
<1>5. Grouped
  BY <1>1, <1>4 DEF Grouped, GroupUpTo, ReadUpTo
<1>6. ASSUME NEW g \in 1..Len(groups), NEW i \in 1..Len(groups[g])
      PROVE  Matches(groups[g][1].session, i, groups[g][i])
  <2> DEFINE s == groups[g][1].session
             log == live["old"][s].log
  <2>1. PICK j \in 1..Len(trace) : groups[g][i] = trace[j] /\ Nth(trace, s, j) = i
    BY <1>4, <1>6 DEF GroupUpTo
  <2>2. trace[j].session = s /\ s \in Session
    <3>1. trace[j].session = s
      BY <1>4, <1>6, <2>1 DEF GroupUpTo
    <3>2. trace[j] \in TraceEntry
      BY <1>2, <2>1
    <3> QED BY <3>1, <3>2 DEF TraceEntry
  <2>3. Intact("trace", s, i) =>
           i \in 1..Len(log) /\ trace[j].tool = log[i].tool /\ trace[j].args = log[i].args
    BY <2>1, <2>2 DEF CaptureInv, TraceFollows
  <2> HIDE DEF s
  <2>4. Matches(s, i, groups[g][i])
    BY <2>1, <2>3 DEF Matches
  <2> QED BY <2>4 DEF s
<1> QED BY <1>5, <1>6

\* The audit log: sorting restores the order of the calls.
LEMMA AuditGroups ==
    ASSUME CaptureInv, CommandType, ReadInv, EndOfFile, job = "replay",
           NEW g \in 1..Len(groups), NEW i \in 1..Len(groups'[g])
    PROVE  /\ groups'[g][i].session = groups[g][1].session
           /\ Matches(groups[g][1].session, i, groups'[g][i])
<1> DEFINE q == groups[g]
           r == groups'[g]
           s == q[1].session
           log == live["old"][s].log
<1>1. /\ input \in Exports /\ line <= Len(input) + 1 /\ ReadUpTo(groups, input, line - 1)
      /\ line > Len(input)
  BY DEF ReadInv, EndOfFile
<1>2. /\ input \in Seq(audit) /\ Len(input) \in Nat
      /\ \A a, b \in 1..Len(input) : input[a] = input[b] => a = b
      /\ \A x \in audit : \E j \in 1..Len(input) : input[j] = x
  BY <1>1, ExportComplete DEF CaptureInv
<1>3. line - 1 = Len(input)
  BY <1>1, <1>2 DEF CommandType
<1>4. \A h \in 1..Len(groups) : GroupUpTo(groups[h], input, Len(input))
  BY <1>1, <1>3 DEF ReadUpTo
<1>5. q \in Seq(FileEntry) /\ r \in sortBySeq(q) /\ Len(r) = Len(q) /\ Len(q) \in Nat
  BY EndOfFileEffect DEF CommandType
<1>6. ASSUME NEW a \in 1..Len(q)
      PROVE  /\ q[a] \in audit /\ q[a].session = s
             /\ \E j \in 1..Len(input) : q[a] = input[j] /\ Nth(input, s, j) = a
  <2>1. q[a].session = s /\ \E j \in 1..Len(input) : q[a] = input[j] /\ Nth(input, s, j) = a
    BY <1>4, <1>6 DEF GroupUpTo
  <2> QED BY <1>2, <2>1
<1>7. PICK p \in [1..Len(q) -> 1..Len(q)] : \A a \in 1..Len(q) : r[a] = q[p[a]]
  BY <1>5, SortedGroup
<1>8. p[i] \in 1..Len(q) /\ r[i] = q[p[i]] /\ r[i] \in audit /\ r[i].session = s
  <2>1. i \in 1..Len(q)
    BY <1>5
  <2> HIDE DEF q, r, s
  <2>2. p[i] \in 1..Len(q) /\ r[i] = q[p[i]]
    BY <1>7, <2>1
  <2> QED BY <1>6, <2>2
<1>9. ASSUME Intact("audit", s, i) \/ Intact("audit", s, r[i].seq)
      PROVE  /\ i \in 1..Len(log) /\ r[i].tool = log[i].tool
             /\ r[i].seq = i /\ r[i].action = log[i].action
  <2>1. s \in Session /\ audit \subseteq AuditRecord
    BY <1>8 DEF CaptureInv, CaptureType, AuditRecord
  <2>2. ASSUME NEW x \in audit, x.session = s
        PROVE  /\ x.seq \in 1..Len(log) /\ x.tool = log[x.seq].tool
               /\ x.action = log[x.seq].action /\ x.at = log[x.seq].at
    BY <2>2 DEF CaptureInv, AuditFollows
  <2>3. Len(log) \in Nat
    <3>1. log \in Seq(LogEvent)
      BY <2>1 DEF CaptureInv, CaptureType, Version
    <3> HIDE DEF log
    <3> QED BY <3>1
  <2>4. \A a \in 1..Len(q) : q[a].seq \in Nat \ {0}
    BY <1>6, <2>1 DEF AuditRecord
  <2>5. ASSUME NEW a \in 1..Len(q), NEW b \in 1..Len(q), q[a].seq = q[b].seq
        PROVE  a = b
    <3>1. q[a] \in AuditRecord /\ q[b] \in AuditRecord /\ q[a] \in audit /\ q[b] \in audit
          /\ q[a].session = s /\ q[b].session = s
      BY <1>6, <2>1, <2>5
    <3>2. q[a].tool = q[b].tool /\ q[a].action = q[b].action /\ q[a].at = q[b].at
      BY <2>2, <2>5, <3>1
    <3>3. q[a] = q[b]
      <4> HIDE DEF q, s
      <4> QED BY <2>5, <3>1, <3>2 DEF AuditRecord
    <3>4. PICK j \in 1..Len(input) : q[a] = input[j] /\ Nth(input, s, j) = a
      BY <1>6, <2>5
    <3>5. PICK k \in 1..Len(input) : q[b] = input[k] /\ Nth(input, s, k) = b
      BY <1>6, <2>5
    <3>6. j = k
      BY <1>2, <3>3, <3>4, <3>5
    <3> QED BY <3>4, <3>5, <3>6
  <2>6. ASSUME NEW v \in 1..Len(log), Intact("audit", s, v)
        PROVE  \E a \in 1..Len(q) : q[a].seq = v
    <3>1. PICK x \in audit : x.session = s /\ x.seq = v
      BY <2>1, <2>6 DEF CaptureInv, AuditFollows
    <3>2. PICK j \in 1..Len(input) : input[j] = x
      BY <1>2
    <3>3. PICK h \in 1..Len(groups) : \E a \in 1..Len(groups[h]) : groups[h][a] = input[j]
      BY <1>1, <1>3 DEF ReadUpTo
    <3>4. PICK a \in 1..Len(groups[h]) : groups[h][a] = x
      BY <3>2, <3>3
    <3>5. groups[h][1].session = s
      BY <1>4, <3>1, <3>4 DEF GroupUpTo
    <3>6. h = g
      BY <1>1, <3>5 DEF ReadUpTo
    <3> QED BY <3>1, <3>4, <3>6
  <2>7. r[i].seq \in 1..Len(log)
    BY <1>8, <2>2
  <2>8. /\ i <= r[i].seq
        /\ Complete(q, i) \/ Complete(q, r[i].seq) => r[i].seq = i
    <3>1. Numbered(q)
      BY <2>4, <2>5 DEF Numbered
    <3>2. i \in 1..Len(q)
      BY <1>5
    <3> HIDE DEF q, r, log
    <3> QED BY <1>5, <3>1, <3>2, SortedFollows
  <2>9. ASSUME NEW n \in 1..Len(log), Intact("audit", s, n)
        PROVE  Complete(q, n)
    <3> SUFFICES ASSUME NEW v \in 1..n PROVE \E a \in 1..Len(q) : q[a].seq = v
      BY DEF Complete
    <3>1. n \in Nat /\ v \in 0..n /\ v \in 1..Len(log)
      BY <2>3, <2>9
    <3>2. Intact("audit", s, v)
      <4> HIDE DEF s
      <4> QED BY <2>9, <3>1, IntactBefore DEF CaptureInv
    <3> QED BY <2>6, <3>1, <3>2
  <2>10. i \in 1..Len(log)
    <3>1. i \in Nat \ {0}
      BY <1>5
    <3> HIDE DEF r, log
    <3> QED BY <2>3, <2>7, <2>8, <3>1
  <2>11. r[i].seq = i
    BY <1>9, <2>7, <2>8, <2>9, <2>10
  <2> QED BY <1>8, <2>2, <2>10, <2>11
<1> HIDE DEF q, r, s
<1>10. Matches(s, i, r[i])
  BY <1>9 DEF Matches
<1> QED BY <1>8, <1>10 DEF s, q, r

\* At the end of the file the groups are the calls of the logs.
LEMMA GroupsReady ==
    ASSUME CaptureInv, CommandType, ReadInv, EndOfFile
    PROVE  GroupsInv'
<1>1. job \in {"simulate", "replay"} /\ UNCHANGED <<job, live, spoiled>>
  BY DEF EndOfFile, captureVars
<1>2. /\ Len(groups') = Len(groups)
      /\ job = "simulate" => groups' = groups
      /\ \A g \in 1..Len(groups) : Len(groups'[g]) = Len(groups[g])
  BY EndOfFileEffect
<1>3. CASE job = "simulate"
  <2>1. Grouped'
    BY <1>2, <1>3, TraceGroups DEF Grouped
  <2>2. ASSUME NEW g \in 1..Len(groups), NEW i \in 1..Len(groups[g])
        PROVE  Matches(groups[g][1].session, i, groups[g][i])'
    <3>1. Matches(groups[g][1].session, i, groups[g][i])
      BY <1>3, <2>2, TraceGroups
    <3>2. groups' = groups
      BY <1>2, <1>3
    <3> QED BY <1>1, <3>1, <3>2 DEF Matches, Intact
  <2> QED BY <1>2, <1>3, <2>1, <2>2 DEF GroupsInv
<1>4. CASE job = "replay"
  <2>1. ASSUME NEW g \in 1..Len(groups)
        PROVE  groups'[g][1].session = groups[g][1].session /\ 1 \in 1..Len(groups'[g])
    <3>1. groups[g] \in Seq(FileEntry) /\ groups[g] # << >>
      BY <2>1 DEF CommandType
    <3>2. Len(groups[g]) \in Nat \ {0}
      BY <3>1, EmptySeq
    <3>3. 1 \in 1..Len(groups'[g])
      BY <1>2, <2>1, <3>2
    <3> QED BY <1>4, <2>1, <3>3, AuditGroups
  <2>2. ASSUME NEW g \in 1..Len(groups), NEW i \in 1..Len(groups'[g])
        PROVE  /\ groups'[g][i].session = groups'[g][1].session
               /\ Matches(groups[g][1].session, i, groups[g][i])'
    <3>1. groups'[g][i].session = groups[g][1].session
          /\ Matches(groups[g][1].session, i, groups'[g][i])
      BY <1>4, <2>2, AuditGroups
    <3> QED BY <1>1, <2>1, <2>2, <3>1 DEF Matches, Intact
  <2>3. \A g, h \in 1..Len(groups) : groups[g][1].session = groups[h][1].session => g = h
    BY <1>1 DEF ReadInv, ReadUpTo, EndOfFile
  <2>4. Grouped'
    BY <1>2, <2>1, <2>2, <2>3 DEF Grouped
  <2> QED BY <1>2, <2>2, <2>4 DEF GroupsInv
<1> QED BY <1>1, <1>3, <1>4

\* Nothing is captured and nothing read while a command evaluates.
LEMMA GroupsFrozen ==
    ASSUME GroupsInv, UNCHANGED <<job, groups, live, spoiled>>, pass # "read"
    PROVE  GroupsInv'
<1>1. Grouped'
  BY DEF GroupsInv, Grouped
<1>2. ASSUME NEW g \in 1..Len(groups), NEW i \in 1..Len(groups[g])
      PROVE  Matches(groups[g][1].session, i, groups[g][i])'
  BY <1>2 DEF GroupsInv, Matches, Intact
<1> QED BY <1>1, <1>2 DEF GroupsInv

\* Every step keeps what is known of the groups.
LEMMA ReadingNext ==
    ASSUME CaptureInv, CommandType, ReadInv, GroupsInv, [Next]_vars
    PROVE  ReadInv' /\ GroupsInv'
<1>1. CASE \E s \in Session, t \in Tool, a \in Args :
              \/ Approve(s, t, a)
              \/ \E loss \in Loss : \E now \in clock..MaxTime : Capture(s, t, a, loss, now)
  <2>1. job = "capture" /\ UNCHANGED commandVars
    <3>1. ASSUME NEW s, NEW t, NEW a, NEW loss, NEW now,
                 Approve(s, t, a) \/ Capture(s, t, a, loss, now)
          PROVE  job = "capture" /\ UNCHANGED commandVars
      BY <3>1 DEF Approve, Capture
    <3> QED BY <1>1, <3>1
  <2>2. job' = "capture" /\ pass' = "read"
    BY <2>1 DEF CommandType, commandVars
  <2> QED BY <2>2 DEF ReadInv, GroupsInv
<1>2. CASE runSimulate \/ runReplay
  <2>1. /\ job = "capture" /\ UNCHANGED <<line, groups, pass, trace, audit>>
        /\ \/ job' = "simulate" /\ input' = trace
           \/ job' = "replay" /\ input' \in Exports
    BY <1>2 DEF runSimulate, runReplay, Start, captureVars
  <2>2. line' = 1 /\ groups' = << >> /\ pass' = "read"
    BY <2>1 DEF CommandType
  <2>3. Exports' = Exports
    BY <2>1 DEF Exports
  <2>4. Len(input') \in Nat
    <3>1. CASE input' = trace
      BY <3>1 DEF CaptureInv, CaptureType
    <3>2. CASE input' \in Exports
      BY <3>2, ExportComplete DEF CaptureInv
    <3> QED BY <2>1, <3>1, <3>2
  <2>5. ReadUpTo(<< >>, input', 0)
    BY DEF ReadUpTo
  <2>6. line' <= Len(input') + 1 /\ line' - 1 = 0
    BY <2>2, <2>4
  <2> QED BY <2>1, <2>2, <2>3, <2>5, <2>6 DEF ReadInv, GroupsInv
<1>3. CASE ReadEntry
  <2>1. /\ job \in {"simulate", "replay"} /\ pass = "read" /\ line <= Len(input)
        /\ groups' = appendToGroup(groups, input[line]) /\ line' = line + 1
        /\ UNCHANGED <<job, input, pass, trace, audit>>
    BY <1>3 DEF ReadEntry, captureVars
  <2>2. /\ input \in Seq(FileEntry) /\ line \in Nat \ {0} /\ groups \in Seq(Seq(FileEntry))
        /\ \A g \in 1..Len(groups) : groups[g] # << >>
    BY DEF CommandType
  <2>3. line - 1 \in Nat /\ line - 1 < Len(input) /\ line - 1 + 1 = line /\ line' - 1 = line
        /\ line' <= Len(input) + 1
    BY <2>1, <2>2
  <2>4. ReadUpTo(groups, input, line - 1)
    BY <2>1 DEF ReadInv
  <2>5. ReadUpTo(appendToGroup(groups, input[line - 1 + 1]), input, line - 1 + 1)
    BY <2>2, <2>3, <2>4, ReadStep
  <2>6. Exports' = Exports
    BY <2>1 DEF Exports
  <2> QED BY <2>1, <2>3, <2>5, <2>6 DEF ReadInv, GroupsInv
<1>4. CASE EndOfFile
  <2>1. pass' = "new"
    BY <1>4 DEF EndOfFile
  <2> QED BY <1>4, <2>1, GroupsReady DEF ReadInv
<1>5. CASE Evaluate \/ OldPass
  <2>1. pass # "read" /\ pass' # "read" /\ UNCHANGED <<job, groups, live, spoiled>>
    BY <1>5 DEF Evaluate, OldPass, captureVars
  <2> QED BY <2>1, GroupsFrozen DEF ReadInv
<1>6. CASE UNCHANGED vars
  <2>1. UNCHANGED <<job, input, line, groups, pass, trace, audit, live, spoiled>>
    BY <1>6 DEF vars
  <2>2. Exports' = Exports
    BY <2>1 DEF Exports
  <2>3. ReadInv'
    BY <2>1, <2>2 DEF ReadInv
  <2> QED BY <2>1, <2>3, GroupsFrozen DEF GroupsInv
<1> QED BY <1>1, <1>2, <1>3, <1>4, <1>5, <1>6 DEF Next

-----------------------------------------------------------------------------
(* Evaluating the entries.                                                  *)

\* The policy and the session are such that the command sees what the proxy
\* saw, up to call i.
Covered(w, s, i) ==
    /\ Visible(pols[w])
    /\ job = "simulate" =>
          Intact("trace", s, i) /\ \A t \in Tool, a \in Args : <<s, t, a>> \notin approved
    /\ job = "replay" =>
          Intact("audit", s, i) /\ \A t \in Tool : pols[w].tools[t].escalateWhen = {}

\* The session that is being evaluated.
Group == groups[pos.group][1].session

\* The database has the entries of this session that came before, and none of
\* later ones; with the decisions of the proxy, in its struct too.
PassInv ==
    pass # "read" =>
        /\ \A g \in 1..Len(groups) :
              /\ g = pos.group => Len(store[groups[g][1].session]) = pos.entry - 1
              /\ g > pos.group => Len(store[groups[g][1].session]) = 0
        /\ pos.group <= Len(groups) /\ Covered(pass, Group, pos.entry) =>
              /\ SameCalls(store[Group], live[pass][Group].log, pos.entry - 1)
              /\ SessIs(Cur(Here), live[pass][Group].log, pols[pass], pos.entry - 1)

\* The command decides the entry as the proxy decided the call.
LEMMA EntryAgrees ==
    ASSUME CaptureInv, CommandType, GroupsInv, PassInv, Evaluate,
           Covered(pass, Group, pos.entry)
    PROVE  LET log == live[pass][Group].log
           IN  /\ pos.entry \in 1..Len(log) /\ log \in Seq(LogEvent) /\ Group \in Session
               /\ At(Here).session = Group
               /\ At(Here).tool = log[pos.entry].tool
               /\ ActionAt(pols[pass], Here) = log[pos.entry].action
               /\ RowSeq(pos) = pos.entry
               /\ job = "replay" => At(Here).action = live["old"][Group].log[pos.entry].action
<1> DEFINE s == Group
           log == live[pass][s].log
           i == pos.entry
           e == At(Here)
<1>1. EvaluateDoes
  BY EvaluateEffect DEF CaptureInv, CaptureType
<1>2. job \in {"simulate", "replay"} /\ pass \in Version /\ pass # "read" /\ pos.group <= Len(groups)
      /\ e \in FileEntry
  BY <1>1 DEF EvaluateDoes, Evaluate
<1>3. pos.group \in 1..Len(groups) /\ i \in 1..Len(groups[pos.group]) /\ e = groups[pos.group][i]
      /\ i \in Nat \ {0} /\ Here.pos = pos
  <2>1. pos.group \in 1..Len(groups) /\ groups[pos.group] \in Seq(FileEntry)
    BY <1>2 DEF CommandType, Position
  <2> QED BY <1>2, <2>1 DEF CommandType, Position, At, Here
<1>4. e.session = s /\ s \in Session /\ e.tool \in Tool
  <2>1. e.session = s
    BY <1>2, <1>3 DEF GroupsInv, Grouped, Group
  <2> QED BY <1>2, <2>1, EntryFields
<1>5. Matches(s, i, e)
  BY <1>2, <1>3 DEF GroupsInv, Group
<1>6. log \in Seq(LogEvent) /\ live["old"][s].log \in Seq(LogEvent)
  BY <1>2, <1>4 DEF CaptureInv, CaptureType, Version
<1>7. /\ Len(live["old"][s].log) = Len(log)
      /\ \A k \in 1..Len(log) : /\ live["old"][s].log[k].tool = log[k].tool
                                /\ live["old"][s].log[k].args = log[k].args
  <2>1. CASE pass = "old"
    BY <2>1
  <2>2. CASE pass = "new"
    <3>1. /\ Len(live["old"][s].log) = Len(live["new"][s].log)
          /\ \A k \in 1..Len(live["old"][s].log) :
                /\ live["old"][s].log[k].tool = live["new"][s].log[k].tool
                /\ live["old"][s].log[k].args = live["new"][s].log[k].args
      BY <1>4 DEF CaptureInv, LogsAlign
    <3> QED BY <2>2, <3>1
  <2> QED BY <1>2, <2>1, <2>2 DEF Version
<1>8. /\ i \in 1..Len(log) /\ e.tool = log[i].tool
      /\ job = "simulate" => e.args = log[i].args
      /\ job = "replay" => e.seq = i /\ e.action = live["old"][s].log[i].action
  <2> HIDE DEF s, i, e
  <2>1. /\ i \in 1..Len(live["old"][s].log) /\ e.tool = live["old"][s].log[i].tool
        /\ job = "simulate" => e.args = live["old"][s].log[i].args
        /\ job = "replay" => e.seq = i /\ e.action = live["old"][s].log[i].action
    BY <1>2, <1>5 DEF Matches, Covered, s, i
  <2> QED BY <1>7, <2>1
<1>9. DecidedAt(pols[pass], s, log, i, approved)
  BY <1>2, <1>4, <1>8 DEF CaptureInv, LiveInv
<1>10. /\ Len(store[s]) = i - 1 /\ SameCalls(store[s], log, i - 1)
       /\ SessIs(Cur(Here), log, pols[pass], i - 1)
  BY <1>2, <1>3 DEF PassInv, Group
<1>11. Cur(Here) \in Struct
  BY DEF Here, Cur, CommandType, NewSession, Struct
<1>12. Visible(pols[pass])
       /\ (job = "simulate" => <<s, log[i].tool, log[i].args>> \notin approved)
       /\ (job = "replay" => pols[pass].tools[e.tool].escalateWhen = {})
  <2>1. log[i] \in LogEvent
    BY <1>6, <1>8
  <2>2. log[i].tool \in Tool /\ log[i].args \in Args
    <3> HIDE DEF log, i
    <3> QED BY <2>1 DEF LogEvent
  <2> HIDE DEF log, i, e
  <2> QED BY <1>4, <2>2 DEF Covered
<1>13. Here.store = store /\ VerdictAt(pols[pass], Here) = CommandVerdict(pols[pass], e, Cur(Here), store[s])
  BY <1>4 DEF VerdictAt, Here
<1>14. ActionAt(pols[pass], Here) = log[i].action
  <2>1. ActionAt(pols[pass], Here) = Decide(CommandVerdict(pols[pass], e, Cur(Here), store[s]), e.tool, pols[pass])
    BY <1>13 DEF ActionAt
  <2> HIDE DEF s, log, i, e
  <2>2. Decide(CommandVerdict(pols[pass], e, Cur(Here), store[s]), e.tool, pols[pass]) = log[i].action
    <3>1. i \in Nat \ {0} /\ e.tool \in Tool
      BY <1>3, <1>4
    <3>2. /\ e.tool = log[i].tool
          /\ job = "simulate" => e.args = log[i].args /\ <<s, log[i].tool, log[i].args>> \notin approved
      BY <1>8, <1>12
    <3>3. Visible(pols[pass]) /\ (job = "replay" => pols[pass].tools[e.tool].escalateWhen = {})
      BY <1>12
    <3>4. job \in {"simulate", "replay"}
      BY <1>2
    <3> QED BY ONLY <3>1, <3>2, <3>3, <3>4, <1>9, <1>10, <1>11, VerdictsAgree
  <2> QED BY <2>1, <2>2
<1>15. RowSeq(pos) = i
  BY <1>2, <1>3, <1>8 DEF RowSeq
<1> QED BY <1>4, <1>6, <1>8, <1>14, <1>15

\* What remains the same while a command evaluates.
LEMMA CoverageFrozen ==
    ASSUME UNCHANGED <<job, pols, spoiled, approved>>, NEW w, NEW s, NEW i
    PROVE  /\ Covered(w, s, i)' <=> Covered(w, s, i)
           /\ \A file : Intact(file, s, i)' <=> Intact(file, s, i)
BY DEF Covered, Visible, Intact

\* What is covered up to a call is covered up to the one before.
LEMMA CoveredBefore ==
    ASSUME CaptureType, NEW w, NEW s, NEW i \in Nat, Covered(w, s, i + 1)
    PROVE  Covered(w, s, i)
<1>1. i + 1 \in Nat /\ i \in 0..(i + 1)
  OBVIOUS
<1>2. \A file : Intact(file, s, i + 1) => Intact(file, s, i)
  BY <1>1, IntactBefore
<1> QED BY <1>2 DEF Covered

\* A pass starts with an empty database.
LEMMA PassStarts ==
    ASSUME pos' = First, store' = NoEvents, CommandType'
    PROVE  PassInv'
<1> DEFINE log(s) == live'[pass'][s].log
<1>1. pos'.group = 1 /\ pos'.entry = 1 /\ pos'.entry - 1 = 0
  BY DEF First
<1>2. ASSUME NEW g \in 1..Len(groups') PROVE Len(store'[groups'[g][1].session]) = 0
  <2>1. groups'[g] \in Seq(FileEntry') /\ groups'[g] # << >>
    BY <1>2 DEF CommandType
  <2>2. Len(groups'[g]) \in Nat \ {0}
    BY <2>1, EmptySeq
  <2>3. groups'[g][1] \in FileEntry'
    BY <2>1, <2>2
  <2>4. groups'[g][1].session \in Session
    BY <2>3 DEF FileEntry, TraceEntry, AuditRecord
  <2> QED BY <2>4 DEF NoEvents
<1>3. Cur(Here)' = NewSession
  BY <1>1 DEF Cur, Here
<1>4. \A s : SameCalls(store'[s], log(s), 0) /\ SessIs(NewSession, log(s), pols'[pass'], 0)
  BY SessIsNew DEF SameCalls
<1> QED BY <1>1, <1>2, <1>3, <1>4 DEF PassInv, Group

\* The database and the struct after an entry.
LEMMA PassInvEvaluate ==
    ASSUME CaptureInv, CommandType, GroupsInv, PassInv, Evaluate
    PROVE  PassInv'
<1> DEFINE s == Group
           i == pos.entry
           e == At(Here)
           ev == [tool |-> e.tool, action |-> ActionAt(pols[pass], Here), at |-> e.at]
<1>1. EvaluateDoes
  BY EvaluateEffect DEF CaptureInv, CaptureType
<1>2. /\ pass \in Version /\ pass # "read" /\ pos.group <= Len(groups) /\ e \in FileEntry
      /\ UNCHANGED <<job, groups, pass, live, pols, spoiled, approved>>
  BY <1>1 DEF EvaluateDoes, Evaluate, captureVars
<1>3. /\ Here.pos = pos /\ Here.store = store
      /\ Here'.pos = pos' /\ Here'.sess = sess' /\ Here'.store = store'
  BY DEF Here
<1>4. /\ pos' = NextPos(pos) /\ sess' = SessionAfter(pols[pass], e, VerdictAt(pols[pass], Here), Cur(Here))
      /\ store' = [store EXCEPT ![e.session] = Append(@, ev)]
  BY <1>1, <1>3 DEF EvaluateDoes, StepAt
<1>5. pos.group \in 1..Len(groups) /\ i \in 1..Len(groups[pos.group]) /\ e = groups[pos.group][i]
      /\ i \in Nat \ {0} /\ pos.group \in Nat
  <2>1. pos.group \in 1..Len(groups) /\ groups[pos.group] \in Seq(FileEntry)
    BY <1>2 DEF CommandType, Position
  <2> QED BY <1>2, <1>3, <2>1 DEF CommandType, Position, At
<1>6. e.session = s /\ s \in Session /\ e.tool \in Tool
  <2>1. e.session = s
    BY <1>2, <1>5 DEF GroupsInv, Grouped, Group
  <2> QED BY <1>2, <2>1, EntryFields
<1>7. store[s] \in Seq(StoreEvent) /\ ev \in StoreEvent /\ Len(store[s]) = i - 1
  <2>1. ActionAt(pols[pass], Here) \in Action
    BY VerdictsTotal, DecideIsAction DEF VerdictAt, ActionAt
  <2> QED BY <1>2, <1>5, <1>6, <2>1, EntryFields DEF CommandType, StoreEvent, PassInv, Group
<1>8. /\ Len(store'[s]) = i /\ store'[s][i] = ev /\ \A k \in 1..(i - 1) : store'[s][k] = store[s][k]
      /\ \A r \in Session \ {s} : store'[r] = store[r]
  <2>1. store'[s] = Append(store[s], ev) /\ \A r \in Session \ {s} : store'[r] = store[r]
    BY <1>4, <1>6 DEF CommandType
  <2> HIDE DEF ev, s, i
  <2> QED BY <1>5, <1>7, <2>1
<1>9. ASSUME NEW g \in 1..Len(groups), g # pos.group
      PROVE  groups[g][1].session \in Session \ {s}
  <2>1. groups[g] \in Seq(FileEntry) /\ groups[g] # << >>
    BY <1>9 DEF CommandType
  <2>2. Len(groups[g]) \in Nat \ {0}
    BY <2>1, EmptySeq
  <2>3. groups[g][1] \in FileEntry
    BY <2>1, <2>2
  <2>4. groups[g][1].session \in Session
    BY <2>3, EntryFields
  <2>5. groups[g][1].session # s
    BY <1>2, <1>5, <1>9 DEF GroupsInv, Grouped, Group
  <2> QED BY <2>4, <2>5
<1>10. ASSUME NEW g \in 1..Len(groups), g > pos.group
       PROVE  Len(store'[groups[g][1].session]) = 0
  <2>1. g # pos.group
    BY <1>5, <1>10
  <2> QED BY <1>2, <1>8, <1>9, <1>10, <2>1 DEF PassInv
<1> DEFINE log == live[pass][s].log
<1>11. ASSUME Covered(pass, s, i)
       PROVE  SameCalls(store'[s], log, i) /\ SessIs(sess', log, pols[pass], i)
  <2>1. /\ i \in 1..Len(log) /\ e.tool = log[i].tool
        /\ ActionAt(pols[pass], Here) = log[i].action
    BY <1>11, EntryAgrees
  <2>2. SameCalls(store[s], log, i - 1) /\ SessIs(Cur(Here), log, pols[pass], i - 1)
    BY <1>2, <1>11 DEF PassInv
  <2>3. SameCalls(store'[s], log, i)
    <3>1. \A k \in 1..i : k = i \/ k \in 1..(i - 1)
      BY <1>5
    <3>2. store'[s][i].tool = log[i].tool /\ store'[s][i].action = log[i].action
      BY <1>8, <2>1
    <3> HIDE DEF s, log, i, ev
    <3>3. \A k \in 1..(i - 1) :
             store'[s][k].tool = log[k].tool /\ store'[s][k].action = log[k].action
      BY <1>8, <2>2 DEF SameCalls
    <3> QED BY <3>1, <3>2, <3>3 DEF SameCalls
  <2>4. Cur(Here) \in Struct
    BY DEF Here, Cur, CommandType, NewSession, Struct
  <2>5. /\ VerdictAt(pols[pass], Here) \in Verdict
        /\ ActionAt(pols[pass], Here) = Decide(VerdictAt(pols[pass], Here), e.tool, pols[pass])
    BY VerdictsTotal DEF VerdictAt, ActionAt
  <2>6. VerdictAt(pols[pass], Here) = "allow" <=> log[i].action = "allow"
    BY <2>1, <2>5, DecideIsAction
  <2>7. /\ sess'.calls = (IF Counts(log[i]) THEN Cur(Here).calls + 1 ELSE Cur(Here).calls)
        /\ sess'.cost = (IF Counts(log[i]) THEN Cur(Here).cost + 1 ELSE Cur(Here).cost)
        /\ sess'.tainted <=> (IF log[i].action = "allow"
                              THEN applyTaintMutations(log[i].tool, Cur(Here).tainted, pols[pass])
                              ELSE Cur(Here).tainted)
    <3>1. Counts(log[i]) <=> CountsInCommand(Decide(VerdictAt(pols[pass], Here), e.tool, pols[pass]))
      BY <2>1, <2>5 DEF Counts, CountsInCommand
    <3>2. Cur(Here).calls \in Nat /\ Cur(Here).cost \in Nat
      BY <2>4 DEF Struct
    <3> HIDE DEF e, log, i
    <3> QED BY <1>4, <2>1, <2>6, <3>1, <3>2 DEF SessionAfter
  <2>8. i - 1 \in Nat /\ i - 1 + 1 = i
    BY <1>5
  <2> HIDE DEF log, i
  <2>9. SessIs(sess', log, pols[pass], i)
    BY <2>2, <2>7, <2>8, SessIsStep
  <2> QED BY <2>3, <2>9
<1>12. CASE i = Len(groups[pos.group])
  <2>1. pos'.group = pos.group + 1 /\ pos'.entry = 1 /\ pos'.entry - 1 = 0
    BY <1>4, <1>12 DEF NextPos
  <2>2. \A g \in 1..Len(groups) : g >= pos'.group => g > pos.group
    BY <1>5, <2>1
  <2>3. Cur(Here)' = NewSession
    BY <1>3, <2>1 DEF Cur
  <2>4. \A p, q : SameCalls(p, q, 0) /\ SessIs(NewSession, q, pols'[pass'], 0)
    BY SessIsNew DEF SameCalls
  <2>5. ASSUME NEW g \in 1..Len(groups)
        PROVE  /\ g = pos'.group => Len(store'[groups[g][1].session]) = 0
               /\ g > pos'.group => Len(store'[groups[g][1].session]) = 0
    <3>1. pos'.group \in Nat /\ g \in Nat
      BY <1>5, <2>1
    <3>2. g = pos'.group \/ g > pos'.group => g >= pos'.group
      BY <3>1
    <3>3. g >= pos'.group => Len(store'[groups[g][1].session]) = 0
      BY <1>10, <2>2, <2>5
    <3> QED BY <3>2, <3>3
  <2> QED BY <1>2, <2>1, <2>3, <2>4, <2>5 DEF PassInv, Group
<1>13. CASE i # Len(groups[pos.group])
  <2>1. pos'.group = pos.group /\ pos'.entry = i + 1 /\ pos'.entry - 1 = i /\ pos'.entry # 1
    BY <1>4, <1>5, <1>13 DEF NextPos
  <2>2. Cur(Here)' = sess' /\ Group' = s
    BY <1>2, <1>3, <2>1 DEF Cur, Group
  <2>3. ASSUME Covered(pass, Group, pos.entry)'
        PROVE  Covered(pass, s, i)
    <3>1. Covered(pass, s, i + 1)
      <4> HIDE DEF s, i
      <4> QED BY <1>2, <2>1, <2>2, <2>3 DEF Covered, Visible, Intact
    <3> HIDE DEF s, i
    <3> QED BY <1>5, <3>1, CoveredBefore DEF CaptureInv
  <2>4. ASSUME NEW g \in 1..Len(groups)
        PROVE  /\ g = pos'.group => Len(store'[groups[g][1].session]) = i
               /\ g > pos'.group => Len(store'[groups[g][1].session]) = 0
    BY <1>8, <1>10, <2>1, <2>4 DEF Group
  <2>5. ASSUME Covered(pass, Group, pos.entry)'
        PROVE  /\ SameCalls(store'[s], live'[pass'][s].log, i)
               /\ SessIs(sess', live'[pass'][s].log, pols'[pass'], i)
    BY <1>2, <1>11, <2>3, <2>5
  <2> HIDE DEF s, i
  <2> QED BY <1>2, <2>1, <2>2, <2>4, <2>5 DEF PassInv
<1> QED BY <1>12, <1>13

\* Every step keeps the command's database and struct in line with the proxy.
LEMMA PassInvNext ==
    ASSUME CaptureInv, CommandType, CommandType', GroupsInv, PassInv, [Next]_vars
    PROVE  PassInv'
<1>1. CASE Evaluate
  BY <1>1, PassInvEvaluate
<1>2. CASE EndOfFile \/ OldPass
  <2>1. pos' = First /\ store' = NoEvents
    BY <1>2 DEF EndOfFile, OldPass, CommandType, First, NoEvents
  <2> QED BY <2>1, PassStarts
<1>3. CASE \/ \E s \in Session, t \in Tool, a \in Args :
                \/ Approve(s, t, a)
                \/ \E loss \in Loss : \E now \in clock..MaxTime : Capture(s, t, a, loss, now)
           \/ runSimulate \/ runReplay \/ ReadEntry
  <2>1. (job = "capture" \/ pass = "read") /\ pass' = pass
    <3>1. ASSUME NEW s \in Session, NEW t \in Tool, NEW a \in Args, NEW loss, NEW now,
                 Approve(s, t, a) \/ Capture(s, t, a, loss, now)
          PROVE  job = "capture" /\ UNCHANGED commandVars
      BY <3>1 DEF Approve, Capture
    <3>2. UNCHANGED commandVars => pass' = pass /\ results' = results
      BY DEF commandVars
    <3> QED BY <1>3, <3>1, <3>2 DEF runSimulate, runReplay, Start, ReadEntry
  <2> QED BY <2>1 DEF PassInv, CommandType
<1>4. CASE UNCHANGED vars
  <2>1. UNCHANGED <<pos, sess, store, pass, groups, live, pols, job, spoiled, approved>>
    BY <1>4 DEF vars
  <2>2. Cur(Here)' = Cur(Here) /\ Group' = Group
    BY <2>1 DEF Cur, Here, Group
  <2>3. Covered(pass, Group, pos.entry)' => Covered(pass, Group, pos.entry)
    BY <2>1, <2>2 DEF Covered, Visible, Intact
  <2> QED BY <2>1, <2>2, <2>3 DEF PassInv
<1> QED BY <1>1, <1>2, <1>3, <1>4 DEF Next

\* The rows of the report.
RowOk(row, log) == row.seq \in 1..Len(log) /\ row.action = log[row.seq].action

Predicted(w, s, i) ==
    \/ Covered(w, s, i)
    \/ job = "replay" /\ w = "old" /\ Intact("audit", s, i)

RowsInv ==
    /\ \A w \in Version, s \in Session : \A i \in 1..Len(results[w]) :
          results[w][i].session = s /\ Predicted(w, s, results[w][i].seq) =>
              RowOk(results[w][i], live[w][s].log)
    /\ job = "replay" =>
          /\ Len(results["old"]) = Len(results["new"])
          /\ \A i \in 1..Len(results["new"]) :
                /\ results["old"][i].session = results["new"][i].session
                /\ results["old"][i].seq = results["new"][i].seq

\* The rows that an entry adds.
LEMMA NewRows ==
    ASSUME CaptureInv, CommandType, GroupsInv, PassInv, Evaluate
    PROVE  /\ RowAt(pols[pass], Here).session = Group /\ RowAt(pols[pass], Here).seq = RowSeq(pos)
           /\ Covered(pass, Group, RowSeq(pos)) =>
                 RowOk(RowAt(pols[pass], Here), live[pass][Group].log)
           /\ job = "replay" /\ Intact("audit", Group, RowSeq(pos)) =>
                 RowOk([RowAt(pols[pass], Here) EXCEPT !.action = At(Here).action],
                       live["old"][Group].log)
<1> DEFINE e == At(Here)
           row == RowAt(pols[pass], Here)
<1>1. EvaluateDoes
  BY EvaluateEffect DEF CaptureInv, CaptureType
<1>2. pass # "read" /\ pos.group <= Len(groups)
  BY <1>1 DEF EvaluateDoes, Evaluate
<1>3. pos.group \in 1..Len(groups) /\ pos.entry \in 1..Len(groups[pos.group])
      /\ e = groups[pos.group][pos.entry] /\ Here.pos = pos
  <2>1. pos.group \in 1..Len(groups) /\ groups[pos.group] \in Seq(FileEntry)
    BY <1>2 DEF CommandType, Position
  <2> QED BY <1>2, <2>1 DEF CommandType, Position, At, Here
<1>4. e.session = Group
  BY <1>2, <1>3 DEF GroupsInv, Grouped, Group
<1>5. row = [session |-> Group, seq |-> RowSeq(pos), action |-> ActionAt(pols[pass], Here)]
  BY <1>3, <1>4 DEF RowAt
<1>6. Matches(Group, pos.entry, e) /\ job \in {"simulate", "replay"}
  BY <1>1, <1>2, <1>3 DEF GroupsInv, Group, EvaluateDoes, Evaluate
<1>7. /\ job = "simulate" => RowSeq(pos) = pos.entry
      /\ job = "replay" => RowSeq(pos) = e.seq
  BY <1>3, <1>6 DEF RowSeq
<1>8. job = "replay" /\ Intact("audit", Group, RowSeq(pos)) =>
         /\ pos.entry \in 1..Len(live["old"][Group].log) /\ RowSeq(pos) = pos.entry
         /\ e.action = live["old"][Group].log[pos.entry].action
  BY <1>6, <1>7 DEF Matches
<1>9. ASSUME Covered(pass, Group, RowSeq(pos)) PROVE RowOk(row, live[pass][Group].log)
  <2>1. RowSeq(pos) = pos.entry
    BY <1>6, <1>7, <1>8, <1>9 DEF Covered
  <2>2. /\ pos.entry \in 1..Len(live[pass][Group].log)
        /\ ActionAt(pols[pass], Here) = live[pass][Group].log[pos.entry].action
    BY <1>9, <2>1, EntryAgrees
  <2> QED BY <1>5, <2>1, <2>2 DEF RowOk
<1>10. ASSUME job = "replay", Intact("audit", Group, RowSeq(pos))
       PROVE  RowOk([row EXCEPT !.action = e.action], live["old"][Group].log)
  <2>1. [row EXCEPT !.action = e.action]
           = [session |-> Group, seq |-> RowSeq(pos), action |-> e.action]
    BY <1>5
  <2> QED BY <1>8, <1>10, <2>1 DEF RowOk
<1> QED BY <1>5, <1>9, <1>10

\* A new row holds the proxy's decision.
LEMMA RowsInvEvaluate ==
    ASSUME CaptureInv, CommandType, GroupsInv, PassInv, RowsInv, Evaluate
    PROVE  RowsInv'
<1> DEFINE row == RowAt(pols[pass], Here)
           old == [RowAt(pols[pass], Here) EXCEPT !.action = At(Here).action]
<1>1. EvaluateDoes
  BY EvaluateEffect DEF CaptureInv, CaptureType
<1>2. /\ job \in {"simulate", "replay"} /\ pass \in Version /\ row \in Row
      /\ UNCHANGED <<job, live, pols, spoiled, approved, pass>> /\ (job = "replay" => pass = "new")
  BY <1>1 DEF EvaluateDoes, Evaluate, captureVars, CommandType, Version
<1>3. old.session = row.session /\ old.seq = row.seq
  BY <1>2 DEF Row
<1>4. job = "replay" => old \in Row
  <2>1. job = "replay" => At(Here).action \in Action
    BY <1>1, EntryFields DEF EvaluateDoes, AuditRecord
  <2> QED BY <1>2, <2>1 DEF Row
<1>5. \A w \in Version : results[w] \in Seq(Row)
  BY DEF CommandType
<1>6. /\ row.session = Group
      /\ Covered(pass, Group, row.seq) => RowOk(row, live[pass][Group].log)
      /\ job = "replay" /\ Intact("audit", Group, row.seq) => RowOk(old, live["old"][Group].log)
  BY NewRows
<1>7. /\ results'[pass] = Append(results[pass], row)
      /\ \A w \in Version \ {pass} :
            /\ job = "replay" => results'[w] = Append(results[w], old)
            /\ job # "replay" => results'[w] = results[w]
  BY <1>1 DEF EvaluateDoes
<1> HIDE DEF row, old
<1>8. ASSUME NEW w \in Version, NEW s \in Session, NEW i \in 1..Len(results'[w]),
             results'[w][i].session = s, Predicted(w, s, results[w][i].seq)'
      PROVE  RowOk(results'[w][i], live[w][s].log)
  <2>1. Predicted(w, s, results'[w][i].seq)
    BY <1>2, <1>8, CoverageFrozen DEF Predicted
  <2>2. \A k \in 1..Len(results[w]) :
           results[w][k].session = s /\ Predicted(w, s, results[w][k].seq) =>
               RowOk(results[w][k], live[w][s].log)
    BY <1>8 DEF RowsInv
  <2>3. results[w] \in Seq(Row) /\ Len(results[w]) \in Nat
    BY <1>5, <1>8
  <2>4. ASSUME NEW x \in Row, results'[w] = Append(results[w], x),
               x.session = s /\ Predicted(w, s, x.seq) => RowOk(x, live[w][s].log)
        PROVE  RowOk(results'[w][i], live[w][s].log)
    <3>1. /\ Len(results'[w]) = Len(results[w]) + 1 /\ results'[w][Len(results[w]) + 1] = x
          /\ \A k \in 1..Len(results[w]) : results'[w][k] = results[w][k]
      BY <2>3, <2>4
    <3>2. i = Len(results[w]) + 1 \/ i \in 1..Len(results[w])
      BY <1>8, <2>3, <3>1
    <3>3. CASE i = Len(results[w]) + 1
      BY <1>8, <2>1, <2>4, <3>1, <3>3
    <3>4. CASE i \in 1..Len(results[w])
      <4>1. results'[w][i] = results[w][i]
        BY <3>1, <3>4
      <4> QED BY <1>8, <2>1, <2>2, <3>4, <4>1
    <3> QED BY <3>2, <3>3, <3>4
  <2>5. CASE w = pass
    <3>1. \A k : Predicted(w, s, k) => Covered(pass, s, k)
      BY <1>2, <2>5 DEF Predicted
    <3>2. row.session = s /\ Predicted(w, s, row.seq) => RowOk(row, live[w][s].log)
      BY <1>6, <2>5, <3>1
    <3>3. results'[w] = Append(results[w], row)
      BY <1>7, <2>5
    <3> QED BY <1>2, <2>4, <3>2, <3>3
  <2>6. CASE w # pass /\ job = "replay"
    <3>1. w = "old" /\ \A k : Predicted(w, s, k) => Intact("audit", s, k)
      BY <1>2, <1>8, <2>6 DEF Predicted, Covered, Version
    <3>2. old.session = s /\ Predicted(w, s, old.seq) => RowOk(old, live[w][s].log)
      BY <1>3, <1>6, <2>6, <3>1
    <3>3. results'[w] = Append(results[w], old)
      BY <1>7, <1>8, <2>6
    <3> QED BY <1>4, <2>4, <2>6, <3>2, <3>3
  <2>7. CASE w # pass /\ job # "replay"
    <3>1. results'[w] = results[w]
      BY <1>7, <1>8, <2>7
    <3> QED BY <1>8, <2>1, <2>2, <3>1
  <2> QED BY <2>5, <2>6, <2>7
<1>9. ASSUME job' = "replay"
      PROVE  /\ Len(results'["old"]) = Len(results'["new"])
             /\ \A i \in 1..Len(results'["new"]) :
                   /\ results'["old"][i].session = results'["new"][i].session
                   /\ results'["old"][i].seq = results'["new"][i].seq
  <2>1. job = "replay" /\ pass = "new"
    BY <1>2, <1>9
  <2>2. results'["new"] = Append(results["new"], row) /\ results'["old"] = Append(results["old"], old)
    BY <1>7, <2>1 DEF Version
  <2>3. /\ Len(results["old"]) = Len(results["new"])
        /\ \A i \in 1..Len(results["new"]) :
              /\ results["old"][i].session = results["new"][i].session
              /\ results["old"][i].seq = results["new"][i].seq
    BY <2>1 DEF RowsInv
  <2>4. results["old"] \in Seq(Row) /\ results["new"] \in Seq(Row) /\ old \in Row /\ row \in Row
    BY <1>2, <1>4, <1>5, <2>1 DEF Version
  <2>5. Len(results'["old"]) = Len(results["new"]) + 1 /\ Len(results'["new"]) = Len(results["new"]) + 1
        /\ Len(results["new"]) \in Nat
    BY <2>2, <2>3, <2>4
  <2>6. ASSUME NEW i \in 1..Len(results'["new"])
        PROVE  /\ results'["old"][i].session = results'["new"][i].session
               /\ results'["old"][i].seq = results'["new"][i].seq
    <3>1. CASE i = Len(results["new"]) + 1
      <4>1. results'["old"][i] = old /\ results'["new"][i] = row
        BY <2>2, <2>3, <2>4, <3>1
      <4> QED BY <1>3, <4>1
    <3>2. CASE i \in 1..Len(results["new"])
      <4>1. results'["old"][i] = results["old"][i] /\ results'["new"][i] = results["new"][i]
        BY <2>2, <2>3, <2>4, <3>2
      <4> QED BY <2>3, <3>2, <4>1
    <3> QED BY <2>5, <2>6, <3>1, <3>2
  <2> QED BY <2>5, <2>6
<1>10. live' = live
  BY <1>2
<1> QED BY <1>8, <1>9, <1>10 DEF RowsInv

\* Every step keeps the rows.
LEMMA RowsInvNext ==
    ASSUME CaptureInv, CommandType, GroupsInv, PassInv, RowsInv, [Next]_vars
    PROVE  RowsInv'
<1>1. CASE Evaluate
  BY <1>1, RowsInvEvaluate
<1>2. CASE results' = results /\ (job = "capture" \/ pass = "read")
  <2>1. results' = [v \in Version |-> << >>]
    BY <1>2 DEF CommandType
  <2>2. \A w \in Version : Len(results'[w]) = 0
    BY <2>1
  <2> QED BY <2>2 DEF RowsInv, Version
<1>3. CASE UNCHANGED <<results, live, job, pols, spoiled, approved>>
  <2>1. ASSUME NEW w \in Version, NEW s \in Session, NEW i \in 1..Len(results[w])
        PROVE  Predicted(w, s, results[w][i].seq)' <=> Predicted(w, s, results[w][i].seq)
    BY <1>3, CoverageFrozen DEF Predicted
  <2> QED BY <1>3, <2>1 DEF RowsInv
<1>4. CASE \/ \E s \in Session, t \in Tool, a \in Args :
                \/ Approve(s, t, a)
                \/ \E loss \in Loss : \E now \in clock..MaxTime : Capture(s, t, a, loss, now)
           \/ runSimulate \/ runReplay \/ ReadEntry \/ EndOfFile
  <2>1. results' = results /\ (job = "capture" \/ pass = "read")
    <3>1. ASSUME NEW s \in Session, NEW t \in Tool, NEW a \in Args, NEW loss, NEW now,
                 Approve(s, t, a) \/ Capture(s, t, a, loss, now)
          PROVE  job = "capture" /\ UNCHANGED commandVars
      BY <3>1 DEF Approve, Capture
    <3>2. UNCHANGED commandVars => pass' = pass /\ results' = results
      BY DEF commandVars
    <3> QED BY <1>4, <3>1, <3>2 DEF runSimulate, runReplay, Start, ReadEntry, EndOfFile
  <2> QED BY <1>2, <2>1
<1>5. CASE OldPass \/ UNCHANGED vars
  <2>1. UNCHANGED <<results, live, job, pols, spoiled, approved>>
    BY <1>5 DEF OldPass, captureVars, vars
  <2> QED BY <1>3, <2>1
<1> QED BY <1>1, <1>4, <1>5 DEF Next

\* The invariant of `simulate` and `audit replay`.
OfflineInv ==
    CaptureInv /\ CommandType /\ RunInv /\ ReadInv /\ GroupsInv /\ PassInv /\ RowsInv

\* It holds throughout: captures, reading, sorting and both passes.
LEMMA OfflineInvariant ==
    Spec => []OfflineInv
<1>1. Init => OfflineInv
  <2> SUFFICES ASSUME Init PROVE OfflineInv
    OBVIOUS
  <2>1. CaptureInv /\ CommandType
    BY CaptureInvInit, CommandTypeInit
  <2>2. job = "capture" /\ pass = "read" /\ results["new"] = << >> /\ results["old"] = << >>
    BY DEF Init, Version
  <2>3. RunInv /\ ReadInv /\ GroupsInv /\ PassInv
    BY <2>2 DEF RunInv, ReadInv, GroupsInv, PassInv
  <2>4. RowsInv
    BY <2>2 DEF RowsInv, Version
  <2> QED BY <2>1, <2>3, <2>4 DEF OfflineInv
<1>2. OfflineInv /\ [Next]_vars => OfflineInv'
  <2> SUFFICES ASSUME OfflineInv, [Next]_vars PROVE OfflineInv'
    OBVIOUS
  <2> USE DEF OfflineInv
  <2>1. CaptureInv'
    BY CaptureInvNext
  <2>2. CommandType'
    BY CommandTypeNext DEF CaptureInv
  <2>3. RunInv'
    BY RunInvNext DEF CaptureInv, CaptureType
  <2>4. ReadInv' /\ GroupsInv'
    BY ReadingNext
  <2>5. PassInv'
    BY <2>2, PassInvNext
  <2>6. RowsInv'
    BY RowsInvNext
  <2> QED BY <2>1, <2>2, <2>3, <2>4, <2>5, <2>6
<1> QED BY <1>1, <1>2, PTL DEF Spec

\* A column of the report, for a session that the command can predict.
LEMMA ColumnAgrees ==
    ASSUME OfflineInv, job \in {"simulate", "replay"}, NEW w \in Version, NEW s \in Session,
           NEW file, \A i : Intact(file, s, i) => Predicted(w, s, i)
    PROVE  Agrees(w, s, file)
<1> USE DEF OfflineInv
<1> DEFINE n == Len(results["new"])
<1>1. results["new"] \in Seq(Row) /\ results["old"] \in Seq(Row) /\ n \in Nat
  BY DEF CommandType, Version
<1>2. DOMAIN mergeResults = 1..n
  BY DEF mergeResults
<1>3. Len(mergeResults) = n
  BY <1>1, <1>2
<1>4. ASSUME NEW i \in 1..n, results["new"][i].session = s,
             Intact(file, s, results["new"][i].seq)
      PROVE  \/ mergeResults[i][w] = ""
             \/ /\ results["new"][i].seq \in 1..Len(live[w][s].log)
                /\ mergeResults[i][w] = live[w][s].log[results["new"][i].seq].action
  <2>1. /\ mergeResults[i].new = results["new"][i].action
        /\ mergeResults[i].old = IF i <= Len(results["old"]) THEN results["old"][i].action ELSE ""
    BY <1>4 DEF mergeResults
  <2>2. CASE w = "new"
    <3>1. RowOk(results["new"][i], live["new"][s].log)
      BY <1>4, <2>2 DEF RowsInv, Version
    <3> QED BY <2>1, <2>2, <3>1 DEF RowOk
  <2>3. CASE w = "old" /\ i <= Len(results["old"])
    <3>1. i \in 1..Len(results["old"])
      BY <1>1, <1>4, <2>3
    <3>2. results["old"][i].session = results["new"][i].session
          /\ results["old"][i].seq = results["new"][i].seq
      <4>1. CASE job = "replay"
        BY <1>4, <4>1 DEF RowsInv
      <4>2. CASE job = "simulate"
        <5>1. pass # "read"
          BY <3>1 DEF CommandType, Version
        <5>2. pass = "old"
          BY <3>1, <4>2, <5>1 DEF RunInv, CommandType
        <5> QED BY <3>1, <4>2, <5>2 DEF RunInv, SecondPass
      <4> QED BY <4>1, <4>2
    <3>3. RowOk(results["old"][i], live["old"][s].log)
      BY <1>4, <2>3, <3>1, <3>2 DEF RowsInv, Version
    <3> QED BY <2>1, <2>3, <3>2, <3>3 DEF RowOk
  <2>4. CASE w = "old" /\ ~ i <= Len(results["old"])
    BY <2>1, <2>4
  <2> QED BY <2>2, <2>3, <2>4 DEF Version
<1>5. \A i \in 1..n : /\ mergeResults[i].session = results["new"][i].session
                      /\ mergeResults[i].seq = results["new"][i].seq
  BY DEF mergeResults
<1> QED BY <1>3, <1>4, <1>5 DEF Agrees

\* `simulate` reports, for either policy, the decisions of a proxy that serves
\* it and receives the same calls, whatever the policies, the interleaving of
\* the sessions and the losses of other sessions are, and in each session up to
\* the first call whose entry was lost or which was traced but never evaluated:
\* its struct, its database and its order of the entries are those of the
\* proxy, and the stages that it leaves out have nothing to say about such
\* policies.
THEOREM SimulateSound ==
    Spec => []SimulatePredicts
<1>1. OfflineInv => SimulatePredicts
  <2> SUFFICES ASSUME OfflineInv, job = "simulate", NEW w \in Version, NEW s \in Session,
                      Visible(pols[w]), \A t \in Tool, a \in Args : <<s, t, a>> \notin approved
               PROVE  Agrees(w, s, "trace")
    BY DEF SimulatePredicts
  <2>1. \A i : Intact("trace", s, i) => Predicted(w, s, i)
    BY DEF Predicted, Covered
  <2> QED BY <2>1, ColumnAgrees
<1> QED BY <1>1, OfflineInvariant, PTL

\* `audit replay` reports the decisions of a proxy that serves the new policy
\* beside those that were taken, however the export ordered records of equal
\* times, and in each session up to the first call without a record: sorting a
\* group restores the order of the calls, as far as the group is complete.
THEOREM ReplaySound ==
    Spec => []ReplayPredicts
<1>1. OfflineInv => ReplayPredicts
  <2> SUFFICES ASSUME OfflineInv, job = "replay", NEW s \in Session, NEW w \in Version,
                      Visible(pols.new), \A t \in Tool : pols.new.tools[t].escalateWhen = {}
               PROVE  Agrees(w, s, "audit")
    BY DEF ReplayPredicts
  <2>1. \A i : Intact("audit", s, i) => Predicted(w, s, i)
    BY DEF Predicted, Covered, Version
  <2> QED BY <2>1, ColumnAgrees
<1> QED BY <1>1, OfflineInvariant, PTL
==============================================================================
