------------------------- MODULE ProxyHistoryProofs -------------------------
(* What the stages that read the event log guarantee although the log grows  *)
(* between their read and the append of the event they decided on: only_after*)
(* and requires_prior_n exactly, never_after and rate_limit up to one call   *)
(* per concurrent handler, and the taint flag up to clearing tools.          *)
EXTENDS ProxyLedgerProofs

-----------------------------------------------------------------------------
(* The inductive invariants.                                                *)

\* The call is past the sequence stage, respectively the rate limit stage, and
\* the event it will append may still be an "allow".
Sequenced(l) == \/ l.pc \in {"ratelimit", "escalation"}
                \/ l.pc = "append" /\ l.action = "allow"
Metered(l)   == \/ l.pc = "escalation"
                \/ l.pc = "append" /\ l.action = "allow"

\* The prerequisites of tool x are in the log.
Met(log, x) ==
    /\ \A t \in Pol.tools[x].onlyAfter : CallsOf(log, t) # {}
    /\ \A r \in Pol.tools[x].priorN : Cardinality(CallsOf(log, r.tool)) >= r.count

PrerequisitesSeen ==
    \A h \in Handler : Sequenced(loc[h]) => Met(events[loc[h].session], loc[h].tool)

PrerequisitesInv == PrerequisitesSeen /\ PrerequisitesPrecede

\* The handlers that may still append an "allow" of x to session s after the
\* sequence stage.
Waiting(s, x) == {h \in Handler : /\ Sequenced(loc[h])
                                  /\ loc[h].session = s /\ loc[h].tool = x}

AllowsAfter(s, x, j) == {i \in AllowsOf(events[s], x) : i > j}

\* After a forbidding call, at least one handler (the one that made it) is not
\* among those that have used up, or may still use, a stale permission.
NeverAfterClaimed ==
    \A s \in Session, x \in Tool :
        \A t \in Pol.tools[x].neverAfter : \A j \in CallsOf(events[s], t) :
            Cardinality(AllowsAfter(s, x, j)) + Cardinality(Waiting(s, x))
                <= Cardinality(Handler) - 1

\* The allowed calls of x recorded in a window, and the handlers that may still
\* add one to a window that ends at `to`.
Inside(s, x, from, to) ==
    {i \in AllowsOf(events[s], x) : from <= events[s][i].at /\ events[s][i].at <= to}

Pending(s, x, to) == {h \in Handler : /\ Metered(loc[h])
                                      /\ loc[h].session = s /\ loc[h].tool = x
                                      /\ loc[h].requestedAt <= to}

WindowsClaimed ==
    \A s \in Session, x \in Tool : \A rl \in Pol.tools[x].rateLimit : \A from \in Nat :
        LET to == from + rl.window
            n  == Cardinality(Inside(s, x, from, to))
        IN  rl.max > 0 /\ n >= rl.max =>
              n + Cardinality(Pending(s, x, to)) <= rl.max + Cardinality(Handler) - 1

\* A request is received before it is decided, and decided before it is recorded.
ClocksOrdered ==
    \A h \in Handler : /\ loc[h].requestedAt <= clock
                       /\ loc[h].pc = "append" => loc[h].requestedAt <= loc[h].decidedAt

\* No clearing tool was allowed in the session with this log.
NeverCleared(log) ==
    \A n \in 1..Len(log) : log[n].action = "allow" => ~ Pol.tools[log[n].tool].clears

\* While no clearing tool was allowed, a row that a handler has seen tainted, or
\* that the call it is about to forward tainted, is tainted.
TaintSeen(l) ==
    PastCheck(l) /\ NeverCleared(events[l.session]) =>
        /\ l.sess.tainted => row[l.session].tainted
        /\ /\ l.pc \in {"respond", "forward"}
           /\ l.action = "allow" /\ Pol.tools[l.tool].applies
           => row[l.session].tainted

\* The flag a handler will write is that of its snapshot, changed by its own
\* allowed call only; it writes it only if it changed.
TaintComputed(l) ==
    /\ l.pc \in {"evaluate", "ratelimit", "escalation"} => l.tainted = l.sess.tainted
    /\ l.pc \in {"append", "audit", "taint"} =>
          l.tainted = IF l.action = "allow"
                      THEN applyTaintMutations(l.tool, l.sess.tainted, Pol)
                      ELSE l.sess.tainted
    /\ l.pc = "taint" => l.tainted # l.sess.tainted

TaintInv ==
    /\ ForwardedTaintPersists
    /\ \A h \in Handler : TaintSeen(loc[h]) /\ TaintComputed(loc[h])

-----------------------------------------------------------------------------
(* Logs and counting.                                                       *)

\* The calls in a log are finitely many positions of it.
LEMMA CallsFinite ==
    ASSUME NEW log \in Seq(Event), NEW t
    PROVE  /\ CallsOf(log, t) \subseteq 1..Len(log) /\ IsFiniteSet(CallsOf(log, t))
           /\ AllowsOf(log, t) \subseteq CallsOf(log, t) /\ IsFiniteSet(AllowsOf(log, t))
           /\ Cardinality(CallsOf(log, t)) \in Nat
<1>1. Len(log) \in Nat /\ IsFiniteSet(1..Len(log))
  BY FS_Interval
<1>2. CallsOf(log, t) \subseteq 1..Len(log) /\ AllowsOf(log, t) \subseteq CallsOf(log, t)
  BY DEF CallsOf, AllowsOf, Counts
<1>3. IsFiniteSet(CallsOf(log, t))
  BY <1>1, <1>2, FS_Subset
<1>4. IsFiniteSet(AllowsOf(log, t))
  BY <1>2, <1>3, FS_Subset
<1> QED BY <1>2, <1>3, <1>4, FS_CardinalityType

\* Appending an event adds at most the new position to the calls of a tool.
LEMMA CallsGrow ==
    ASSUME NEW log \in Seq(Event), NEW e \in Event, NEW t
    PROVE  /\ CallsOf(log, t) \subseteq CallsOf(Append(log, e), t)
           /\ AllowsOf(Append(log, e), t) =
                 AllowsOf(log, t) \cup
                    (IF e.tool = t /\ e.action = "allow" THEN {Len(log) + 1} ELSE {})
           /\ CallsOf(Append(log, e), t) \subseteq CallsOf(log, t) \cup {Len(log) + 1}
<1> DEFINE n == Len(log) + 1
           new == Append(log, e)
<1>1. /\ Len(log) \in Nat /\ Len(new) = n /\ new[n] = e
      /\ \A i \in 1..Len(log) : i \in 1..n /\ new[i] = log[i]
      /\ \A i \in 1..n : i = n \/ i \in 1..Len(log)
      /\ n \notin 1..Len(log) /\ n \in 1..n
  OBVIOUS
<1> HIDE DEF n, new
<1>2. CallsOf(log, t) \subseteq CallsOf(new, t)
  BY <1>1 DEF CallsOf
<1>3. AllowsOf(new, t) = AllowsOf(log, t) \cup
                           (IF e.tool = t /\ e.action = "allow" THEN {n} ELSE {})
  BY <1>1 DEF AllowsOf
<1>4. CallsOf(new, t) \subseteq CallsOf(log, t) \cup {n}
  BY <1>1 DEF CallsOf
<1> QED BY <1>2, <1>3, <1>4 DEF n, new

\* What is met stays met.
LEMMA MetKept ==
    ASSUME NEW log \in Seq(Event), NEW e \in Event, NEW x \in Tool, Met(log, x)
    PROVE  Met(Append(log, e), x)
<1>0. Append(log, e) \in Seq(Event)
  OBVIOUS
<1>1. ASSUME NEW t \in Pol.tools[x].onlyAfter PROVE CallsOf(Append(log, e), t) # {}
  <2>1. CallsOf(log, t) # {}
    BY DEF Met
  <2> QED BY <2>1, CallsGrow
<1>2. ASSUME NEW r \in Pol.tools[x].priorN
      PROVE  Cardinality(CallsOf(Append(log, e), r.tool)) >= r.count
  <2>1. Cardinality(CallsOf(log, r.tool)) >= r.count /\ r.count \in Nat
    BY ProxyAssumption DEF Met, Policy, ToolPolicy
  <2>2. /\ CallsOf(log, r.tool) \in SUBSET CallsOf(Append(log, e), r.tool)
        /\ IsFiniteSet(CallsOf(Append(log, e), r.tool))
    BY <1>0, CallsGrow, CallsFinite
  <2>3. Cardinality(CallsOf(log, r.tool)) <= Cardinality(CallsOf(Append(log, e), r.tool))
    BY <2>2, FS_Subset
  <2>4. /\ Cardinality(CallsOf(log, r.tool)) \in Nat
        /\ Cardinality(CallsOf(Append(log, e), r.tool)) \in Nat
    BY <1>0, CallsFinite
  <2> QED BY <2>1, <2>3, <2>4
<1> QED BY <1>1, <1>2 DEF Met

\* The log before a position does not change when an event is appended.
LEMMA PrefixKept ==
    ASSUME NEW log \in Seq(Event), NEW e \in Event, NEW i \in 1..Len(log) + 1
    PROVE  SubSeq(Append(log, e), 1, i - 1) = SubSeq(log, 1, i - 1)
<1> DEFINE new == Append(log, e)
<1>1. Len(log) \in Nat /\ new \in Seq(Event) /\ Len(new) = Len(log) + 1 /\ i - 1 \in Nat
      /\ i - 1 <= Len(log) /\ \A j \in 1..Len(log) : new[j] = log[j]
  OBVIOUS
<1> HIDE DEF new
<1>2. CASE i = 1
  BY <1>1, <1>2
<1>3. CASE i # 1
  BY <1>1, <1>3
<1> QED BY <1>2, <1>3 DEF new

\* A smaller set of positions and a smaller set of handlers.
LEMMA Shrink ==
    ASSUME NEW A, IsFiniteSet(A), NEW B \in SUBSET A,
           NEW V \in SUBSET Handler, NEW W \in SUBSET V
    PROVE  Cardinality(B) + Cardinality(W) <= Cardinality(A) + Cardinality(V)
<1>1. /\ Cardinality(B) <= Cardinality(A) /\ Cardinality(A) \in Nat
      /\ Cardinality(B) \in Nat
  BY FS_Subset, FS_CardinalityType
<1>2. /\ Cardinality(W) <= Cardinality(V) /\ Cardinality(W) \in Nat
      /\ Cardinality(V) \in Nat
  BY SubsetCard
<1> QED BY <1>1, <1>2

\* A handler leaves its set and leaves one position behind.
LEMMA Trade ==
    ASSUME NEW A, IsFiniteSet(A), NEW n, NEW B \in SUBSET (A \cup {n}),
           NEW V \in SUBSET Handler, NEW h \in V, NEW W \in SUBSET (V \ {h})
    PROVE  Cardinality(B) + Cardinality(W) <= Cardinality(A) + Cardinality(V)
<1>1. /\ IsFiniteSet(A \cup {n}) /\ Cardinality(A \cup {n}) <= Cardinality(A) + 1
      /\ Cardinality(A \cup {n}) \in Nat /\ Cardinality(A) \in Nat
  BY AddOneCard, FS_CardinalityType
<1>2. /\ Cardinality(B) <= Cardinality(A \cup {n}) /\ Cardinality(B) \in Nat
  BY <1>1, FS_Subset, FS_CardinalityType
<1>3. /\ IsFiniteSet(V) /\ Cardinality(V \ {h}) = Cardinality(V) - 1
      /\ Cardinality(V) \in Nat
  BY HandlersFinite, FS_RemoveElement
<1>4. V \ {h} \in SUBSET Handler
  OBVIOUS
<1>5. /\ Cardinality(W) <= Cardinality(V \ {h}) /\ Cardinality(W) \in Nat
  BY <1>4, SubsetCard
<1> QED BY <1>1, <1>2, <1>3, <1>5

\* A set that misses a handler is smaller than the set of handlers.
LEMMA OneMissing ==
    ASSUME NEW h \in Handler, NEW W \in SUBSET (Handler \ {h})
    PROVE  /\ Cardinality(W) <= Cardinality(Handler) - 1
           /\ Cardinality(W) \in Nat /\ Cardinality(Handler) \in Nat
<1>1. /\ Cardinality(Handler \ {h}) = Cardinality(Handler) - 1
      /\ Cardinality(Handler) \in Nat
  BY ProxyAssumption, FS_RemoveElement, HandlersFinite
<1>2. Handler \ {h} \in SUBSET Handler
  OBVIOUS
<1>3. Cardinality(W) <= Cardinality(Handler \ {h}) /\ Cardinality(W) \in Nat
  BY <1>2, SubsetCard
<1> QED BY <1>1, <1>3

-----------------------------------------------------------------------------
(* A step as the event log and the handlers see it.                         *)

\* Handler h appends e, its event, to the log of its session.
Appends(h, e) ==
    /\ loc[h].pc = "append" /\ loc'[h].pc = "audit"
    /\ e.tool = loc[h].tool /\ e.action = loc[h].action
    /\ loc[h].decidedAt <= e.at
    /\ events' = [events EXCEPT ![loc[h].session] = Append(@, e)]
    /\ \A g \in Handler \ {h} : loc'[g] = loc[g]

\* A handler is where it was, ends its request, begins one or moves on.
Progress(k, l) ==
    \/ l = k \/ l = AnIdle
    \/ l.pc = "load" /\ l.requestedAt = clock
    \/ Moves(k, l)

\* What a step may do to the clock, the handlers and the events.
LEMMA StepSeen ==
    ASSUME TypeOK, [Next]_vars
    PROVE  /\ clock <= clock'
           /\ \A g \in Handler : Progress(loc[g], loc'[g])
           /\ events' = events \/ \E h \in Handler, e \in Event : Appends(h, e)
<1>0. /\ clock \in Nat /\ loc \in [Handler -> Local]
      /\ \A h \in Handler : loc[h] \in Local /\ loc[h].decidedAt \in Nat
  BY DEF TypeOK, Local
<1>1. clock <= clock'
  <2>1. \A h \in Handler : HandlerStep(h) => clock' = clock
    BY DEF HandlerStep, GetSession, CreateSession, EvaluateSequence, EvaluateRateLimit,
           EvaluateEscalation, AppendEvent, WriteAudit, UpdateSessionTaint, Refuse,
           IncrementSessionCounters, Forward, CreateEscalation
  <2>2. \A h, s, t, a : Receive(h, s, t, a) => clock' = clock
    BY DEF Receive
  <2>3. clock' = clock \/ clock' = clock + 1
    BY <2>1, <2>2 DEF Next, TerminateSession, resolveEscalation, Crash, Tick, vars
  <2> QED BY <1>0, <2>3
<1>2. ASSUME NEW g \in Handler PROVE Progress(loc[g], loc'[g])
  <2>1. CASE \E h \in Handler : HandlerStep(h)
    BY <2>1, HandlerMoves DEF Progress
  <2>2. ASSUME NEW h \in Handler, NEW s, NEW t, NEW a, Receive(h, s, t, a)
        PROVE  Progress(loc[g], loc'[g])
    <3> DEFINE l == [Idle(s, t, a) EXCEPT !.pc = "load", !.requestedAt = clock]
    <3>1. l.pc = "load" /\ l.requestedAt = clock
      BY DEF Idle
    <3>2. loc' = [loc EXCEPT ![h] = l]
      BY <2>2 DEF Receive, Become
    <3> HIDE DEF l
    <3> QED BY <1>0, <3>1, <3>2 DEF Progress
  <2>3. CASE Crash
    BY <2>3 DEF Crash, Progress
  <2>4. CASE UNCHANGED loc
    BY <2>4 DEF Progress
  <2> QED BY <2>1, <2>2, <2>3, <2>4
       DEF Next, TerminateSession, resolveEscalation, Tick, vars
<1>3. ASSUME NEW h \in Handler, AppendEvent(h), events' # events
      PROVE  \E e \in Event : Appends(h, e)
  <2>1. PICK at \in loc[h].decidedAt .. clock :
            events' = [events EXCEPT ![loc[h].session] = Append(@,
                [tool |-> loc[h].tool, args |-> loc[h].args,
                 action |-> loc[h].action, at |-> at])]
    BY <1>3 DEF AppendEvent
  <2> DEFINE e == [tool |-> loc[h].tool, args |-> loc[h].args,
                   action |-> loc[h].action, at |-> at]
  <2>2. at \in Nat /\ loc[h].decidedAt <= at
    BY <1>0, <2>1
  <2>3. e \in Event /\ e.tool = loc[h].tool /\ e.action = loc[h].action /\ e.at = at
    BY <1>0, <2>2 DEF Event, Local
  <2>4. events' = [events EXCEPT ![loc[h].session] = Append(@, e)]
    BY <2>1
  <2> HIDE DEF e
  <2>5. loc[h].pc = "append" /\ \A g \in Handler \ {h} : loc'[g] = loc[g]
    BY <1>3, HandlerMoves DEF AppendEvent, HandlerStep
  <2>6. loc'[h].pc = "audit"
    <3> DEFINE n == Len(events[loc[h].session]) + 1
               l == [loc[h] EXCEPT !.pc = "audit", !.seq = n]
    <3>1. loc' = [loc EXCEPT ![h] = l]
      BY <1>3 DEF AppendEvent, Become
    <3>2. l.pc = "audit"
      <4> HIDE DEF n
      <4> QED BY <1>0 DEF Local
    <3> HIDE DEF l
    <3> QED BY <1>0, <3>1, <3>2
  <2> QED BY <2>2, <2>3, <2>4, <2>5, <2>6 DEF Appends
<1>4. ASSUME NEW h \in Handler, HandlerStep(h), ~ AppendEvent(h) PROVE events' = events
  BY <1>4 DEF HandlerStep, GetSession, CreateSession, EvaluateSequence, EvaluateRateLimit,
              EvaluateEscalation, WriteAudit, UpdateSessionTaint, Refuse,
              IncrementSessionCounters, Forward, CreateEscalation
<1>5. \A h, s, t, a : Receive(h, s, t, a) => events' = events
  BY DEF Receive
<1>6. events' = events \/ \E h \in Handler, e \in Event : Appends(h, e)
  BY <1>3, <1>4, <1>5 DEF Next, TerminateSession, resolveEscalation, Crash, Tick, vars
<1> QED BY <1>1, <1>2, <1>6

\* A handler that is past the sequence stage was so before, or has just found
\* every condition of its tool met; one past the rate limit stage was so before,
\* or has just counted.
LEMMA StagesPassed ==
    ASSUME TypeOK, NEW k \in Local, NEW l, Progress(k, l)
    PROVE  /\ Sequenced(l) =>
                 /\ l.session = k.session /\ l.tool = k.tool
                 /\ \/ Sequenced(k)
                    \/ SequenceEvaluator(l.tool, Pol, events[l.session]) = "allow"
           /\ Metered(l) =>
                 /\ l.session = k.session /\ l.tool = k.tool
                 /\ l.requestedAt = k.requestedAt
                 /\ \/ Metered(k)
                    \/ RateLimitEvaluator(l.tool, l.requestedAt, Pol, events[l.session])
                          = "allow"
<1>1. CASE l = k
  BY <1>1
<1>2. CASE l = AnIdle \/ l.pc = "load"
  BY <1>2 DEF AnIdle, Idle, Sequenced, Metered
<1>3. CASE Moves(k, l)
  BY <1>3 DEF Moves, Sequenced, Metered
<1> QED BY <1>1, <1>2, <1>3 DEF Progress

\* The logs only grow.
LEMMA EventsGrow ==
    ASSUME TypeOK, [Next]_vars, NEW s \in Session, NEW n \in 1..Len(events[s])
    PROVE  n \in 1..Len(events'[s]) /\ events'[s][n] = events[s][n]
<1>0. /\ events \in [Session -> Seq(Event)] /\ events[s] \in Seq(Event)
      /\ \A h \in Handler : loc[h].session \in Session
  BY DEF TypeOK, Local
<1>1. CASE events' = events
  BY <1>1
<1>2. ASSUME NEW h \in Handler, NEW e \in Event, Appends(h, e)
      PROVE  n \in 1..Len(events'[s]) /\ events'[s][n] = events[s][n]
  <2>1. events'[s] = events[s] \/ events'[s] = Append(events[s], e)
    BY <1>0, <1>2 DEF Appends
  <2> QED BY <1>0, <2>1
<1> QED BY <1>1, <1>2, StepSeen

-----------------------------------------------------------------------------
(* only_after and requires_prior_n.                                         *)

\* The conditions a handler found met stay met until its event is in the log.
LEMMA PrerequisitesStep ==
    ASSUME TypeOK, TypeOK', PrerequisitesInv, [Next]_vars
    PROVE  PrerequisitesInv'
<1>0. /\ events \in [Session -> Seq(Event)] /\ events' \in [Session -> Seq(Event)]
      /\ \A h \in Handler : loc[h] \in Local /\ loc[h].session \in Session
                            /\ loc[h].tool \in Tool
      /\ \A s \in Session : events[s] \in Seq(Event)
  BY DEF TypeOK, Local
<1>1. /\ PrerequisitesPrecede
      /\ \A h \in Handler : Sequenced(loc[h]) => Met(events[loc[h].session], loc[h].tool)
  BY DEF PrerequisitesInv, PrerequisitesSeen
<1>2. ASSUME NEW g \in Handler, Sequenced(loc'[g])
      PROVE  Met(events[loc'[g].session], loc'[g].tool)
             /\ loc'[g].session = loc[g].session /\ loc'[g].tool = loc[g].tool
  <2>1. Progress(loc[g], loc'[g])
    BY StepSeen
  <2>2. /\ loc'[g].session = loc[g].session /\ loc'[g].tool = loc[g].tool
        /\ \/ Sequenced(loc[g])
           \/ SequenceEvaluator(loc'[g].tool, Pol, events[loc'[g].session]) = "allow"
    BY <1>0, <1>2, <2>1, StagesPassed
  <2> QED BY <1>1, <2>2 DEF SequenceEvaluator, Met
<1>3. CASE events' = events
  <2>1. PrerequisitesSeen'
    BY <1>2, <1>3 DEF PrerequisitesSeen, Sequenced, Met
  <2>2. PrerequisitesPrecede'
    BY <1>1, <1>3 DEF PrerequisitesPrecede
  <2> QED BY <2>1, <2>2 DEF PrerequisitesInv
<1>4. ASSUME NEW h \in Handler, NEW e \in Event, Appends(h, e)
      PROVE  PrerequisitesInv'
  <2> DEFINE x == loc[h].session
             log == events[x]
             n == Len(log) + 1
  <2>1. /\ x \in Session /\ log \in Seq(Event) /\ Len(log) \in Nat
        /\ events'[x] = Append(log, e)
        /\ \A s \in Session : s # x => events'[s] = events[s]
    BY <1>0, <1>4 DEF Appends
  <2>2. ASSUME NEW g \in Handler, Sequenced(loc'[g])
        PROVE  Met(events'[loc'[g].session], loc'[g].tool)
    <3>1. /\ Met(events[loc'[g].session], loc'[g].tool)
          /\ loc'[g].session \in Session /\ loc'[g].tool \in Tool
      BY <1>0, <1>2, <2>2
    <3>2. CASE loc'[g].session = x
      BY <2>1, <3>1, <3>2, MetKept
    <3>3. CASE loc'[g].session # x
      BY <2>1, <3>1, <3>3
    <3> QED BY <3>2, <3>3
  <2>3. PrerequisitesSeen'
    BY <2>2 DEF PrerequisitesSeen, Sequenced, Met
  <2>4. ASSUME NEW s \in Session, NEW y \in Tool, NEW i \in AllowsOf(events'[s], y)
        PROVE  Met(SubSeq(events'[s], 1, i - 1), y)
    <3>1. CASE s # x
      BY <1>1, <2>1, <2>4, <3>1 DEF PrerequisitesPrecede, Met
    <3>2. CASE s = x /\ i \in AllowsOf(log, y)
      <4>1. i \in 1..Len(log) + 1
        <5>1. i \in 1..Len(log)
          BY <3>2 DEF AllowsOf
        <5> QED BY <2>1, <5>1
      <4>2. SubSeq(events'[s], 1, i - 1) = SubSeq(events[s], 1, i - 1)
        BY <2>1, <3>2, <4>1, PrefixKept
      <4> QED BY <1>1, <3>2, <4>2 DEF PrerequisitesPrecede, Met
    <3>3. CASE s = x /\ i \notin AllowsOf(log, y)
      <4>1. i = n /\ e.tool = y /\ e.action = "allow"
        <5>1. AllowsOf(Append(log, e), y) = AllowsOf(log, y) \cup
                 (IF e.tool = y /\ e.action = "allow" THEN {n} ELSE {})
          BY <2>1, CallsGrow
        <5> HIDE DEF log, n
        <5> QED BY <2>1, <2>4, <3>3, <5>1
      <4>2. SubSeq(events'[s], 1, i - 1) = log
        <5>1. n \in 1..Len(log) + 1 /\ n - 1 = Len(log)
          BY <2>1
        <5>2. SubSeq(Append(log, e), 1, n - 1) = SubSeq(log, 1, n - 1)
          BY <2>1, <5>1, PrefixKept
        <5>3. SubSeq(log, 1, Len(log)) = log
          BY <2>1, SubSeqFull
        <5> HIDE DEF log, n
        <5> QED BY <2>1, <3>3, <4>1, <5>1, <5>2, <5>3
      <4>3. Sequenced(loc[h]) /\ loc[h].tool = y
        BY <1>4, <4>1 DEF Appends, Sequenced
      <4> QED BY <1>1, <4>2, <4>3
    <3> QED BY <3>1, <3>2, <3>3
  <2>5. PrerequisitesPrecede'
    BY <2>4 DEF PrerequisitesPrecede, Met
  <2> QED BY <2>3, <2>5 DEF PrerequisitesInv
<1> QED BY <1>3, <1>4, StepSeen

\* An allowed call follows its prerequisites in the log, however requests
\* interleave, fail and crash.
THEOREM PrerequisitesHold == Spec => []PrerequisitesPrecede
<1>1. Init => PrerequisitesInv
  <2> SUFFICES ASSUME Init PROVE PrerequisitesInv
    OBVIOUS
  <2>1. \A h \in Handler : loc[h].pc = "idle"
    BY DEF Init, AnIdle, Idle
  <2>2. \A s \in Session : Len(events[s]) = 0
    BY DEF Init
  <2> QED BY <2>1, <2>2 DEF PrerequisitesInv, PrerequisitesSeen, Sequenced,
                            PrerequisitesPrecede, AllowsOf
<1>2. PrerequisitesInv => PrerequisitesPrecede
  BY DEF PrerequisitesInv
<1> QED BY <1>1, <1>2, TypeInit, TypeStep, PrerequisitesStep, PTL DEF Spec

-----------------------------------------------------------------------------
(* never_after.                                                             *)

\* Nobody passes the sequence stage once the forbidding call is in the log, and
\* a handler that passed before pays for its allowed call by leaving.
LEMMA NeverAfterStep ==
    ASSUME TypeOK, NeverAfterClaimed, [Next]_vars
    PROVE  NeverAfterClaimed'
<1>0. /\ events \in [Session -> Seq(Event)]
      /\ \A h \in Handler : loc[h] \in Local /\ loc[h].session \in Session
                            /\ loc[h].tool \in Tool
      /\ \A s \in Session : events[s] \in Seq(Event)
  BY DEF TypeOK, Local
<1> SUFFICES ASSUME NEW s \in Session, NEW x \in Tool, NEW t \in Pol.tools[x].neverAfter,
                    NEW j \in CallsOf(events'[s], t)
             PROVE  Cardinality(AllowsAfter(s, x, j)') + Cardinality(Waiting(s, x)')
                        <= Cardinality(Handler) - 1
  BY DEF NeverAfterClaimed, CallsOf, Counts
<1> DEFINE V == Waiting(s, x)
           A == AllowsAfter(s, x, j)
<1>1. /\ V \in SUBSET Handler /\ V' \in SUBSET Handler
      /\ A \in SUBSET AllowsOf(events[s], x)
  BY DEF Waiting, AllowsAfter
<1>2. IsFiniteSet(A)
  BY <1>0, <1>1, CallsFinite, FS_Subset
<1>3. ASSUME j \in CallsOf(events[s], t)
      PROVE  /\ V' \subseteq V
             /\ Cardinality(A) + Cardinality(V) <= Cardinality(Handler) - 1
             /\ Cardinality(A) + Cardinality(V) \in Nat /\ Cardinality(Handler) \in Nat
  <2>1. ASSUME NEW g \in V' PROVE g \in V
    <3>1. g \in Handler /\ Sequenced(loc'[g]) /\ loc'[g].session = s /\ loc'[g].tool = x
      BY <2>1 DEF Waiting, Sequenced
    <3>2. /\ loc'[g].session = loc[g].session /\ loc'[g].tool = loc[g].tool
          /\ \/ Sequenced(loc[g])
             \/ SequenceEvaluator(x, Pol, events[s]) = "allow"
      <4>1. Progress(loc[g], loc'[g])
        BY <3>1, StepSeen
      <4> QED BY <1>0, <3>1, <4>1, StagesPassed
    <3>3. SequenceEvaluator(x, Pol, events[s]) # "allow"
      BY <1>3 DEF SequenceEvaluator
    <3> QED BY <3>1, <3>2, <3>3 DEF Waiting
  <2>2. Cardinality(A) + Cardinality(V) <= Cardinality(Handler) - 1
    BY <1>3 DEF NeverAfterClaimed
  <2>3. Cardinality(A) \in Nat /\ Cardinality(V) \in Nat /\ Cardinality(Handler) \in Nat
    BY <1>1, <1>2, HandlersFinite, FS_CardinalityType
  <2> QED BY <2>1, <2>2, <2>3
<1>4. CASE events'[s] = events[s]
  <2>1. A' = A
    BY <1>4 DEF AllowsAfter, AllowsOf
  <2>2. V' \subseteq V /\ Cardinality(A) + Cardinality(V) <= Cardinality(Handler) - 1
    BY <1>3, <1>4
  <2>3. Cardinality(A') + Cardinality(V') <= Cardinality(A) + Cardinality(V)
    BY <1>1, <1>2, <2>1, <2>2, Shrink
  <2>4. Cardinality(A') \in Nat /\ Cardinality(V') \in Nat
    BY <1>1, <1>2, <2>1, HandlersFinite, FS_CardinalityType
  <2> QED BY <1>3, <1>4, <2>2, <2>3, <2>4
<1>5. ASSUME NEW h \in Handler, NEW e \in Event, Appends(h, e), loc[h].session = s
      PROVE  Cardinality(A') + Cardinality(V') <= Cardinality(Handler) - 1
  <2> DEFINE log == events[s]
             n == Len(log) + 1
  <2>1. /\ log \in Seq(Event) /\ Len(log) \in Nat /\ events'[s] = Append(log, e)
        /\ loc[h].pc = "append" /\ loc'[h].pc = "audit"
        /\ e.tool = loc[h].tool /\ e.action = loc[h].action
    BY <1>0, <1>5 DEF Appends
  <2>2. h \notin V'
    BY <2>1 DEF Waiting, Sequenced
  <2>3. /\ AllowsOf(events'[s], x) = AllowsOf(log, x) \cup
              (IF e.tool = x /\ e.action = "allow" THEN {n} ELSE {})
        /\ CallsOf(events'[s], t) \subseteq CallsOf(log, t) \cup {n}
    BY <2>1, CallsGrow
  <2>4. CASE j = n
    <3>1. AllowsOf(events'[s], x) \subseteq 1..n
      <4>1. events'[s] \in Seq(Event) /\ Len(events'[s]) = n
        BY <2>1
      <4>2. CallsOf(events'[s], x) \subseteq 1..n /\ AllowsOf(events'[s], x) \subseteq CallsOf(events'[s], x)
        BY <4>1, CallsFinite
      <4> QED BY <4>2
    <3>2. A' = {}
      BY <2>1, <2>4, <3>1 DEF AllowsAfter
    <3>3. /\ Cardinality(V') <= Cardinality(Handler) - 1
          /\ Cardinality(V') \in Nat /\ Cardinality(Handler) \in Nat
      BY <1>1, <2>2, OneMissing
    <3>4. Cardinality(A') = 0
      BY <3>2, FS_EmptySet
    <3> QED BY <3>3, <3>4
  <2>5. CASE j \in CallsOf(log, t)
    <3>1. /\ V' \subseteq V
          /\ Cardinality(A) + Cardinality(V) <= Cardinality(Handler) - 1
          /\ Cardinality(A) + Cardinality(V) \in Nat /\ Cardinality(Handler) \in Nat
      BY <1>3, <2>5
    <3>2. A' \subseteq A \cup (IF e.tool = x /\ e.action = "allow" THEN {n} ELSE {})
      <4> HIDE DEF n, log
      <4> QED BY <2>3 DEF AllowsAfter, log
    <3>3. Cardinality(A') + Cardinality(V') <= Cardinality(A) + Cardinality(V)
      <4>1. CASE e.tool = x /\ e.action = "allow"
        <5>1. h \in V
          BY <1>5, <2>1, <4>1 DEF Waiting, Sequenced
        <5>2. V' \in SUBSET (V \ {h}) /\ A' \in SUBSET (A \cup {n})
          BY <2>2, <3>1, <3>2, <4>1
        <5> HIDE DEF V, A, n
        <5> QED BY <1>1, <1>2, <5>1, <5>2, Trade
      <4>2. CASE ~ (e.tool = x /\ e.action = "allow")
        <5>1. A' \in SUBSET A
          BY <3>2, <4>2
        <5> HIDE DEF V, A, n
        <5> QED BY <1>1, <1>2, <3>1, <5>1, Shrink
      <4> QED BY <4>1, <4>2
    <3>4. Cardinality(A') \in Nat /\ Cardinality(V') \in Nat
      <4>1. IsFiniteSet(A \cup {n})
        BY <1>2, AddOneCard
      <4>2. A' \in SUBSET (A \cup {n})
        BY <3>2
      <4> QED BY <1>1, <4>1, <4>2, HandlersFinite, FS_Subset, FS_CardinalityType
    <3> QED BY <3>1, <3>3, <3>4
  <2> QED BY <2>3, <2>4, <2>5
<1>6. \/ events'[s] = events[s]
      \/ \E h \in Handler, e \in Event : Appends(h, e) /\ loc[h].session = s
  <2>1. ASSUME NEW h \in Handler, NEW e \in Event, Appends(h, e), loc[h].session # s
        PROVE  events'[s] = events[s]
    BY <1>0, <2>1 DEF Appends
  <2> QED BY <2>1, StepSeen
<1> QED BY <1>4, <1>5, <1>6

\* Once a forbidding call is in the log, at most one allowed call per other
\* handler can still follow it.
THEOREM NeverAfterBounded == Spec => []NeverAfterOvershootBounded
<1>1. Init => NeverAfterClaimed
  BY DEF Init, NeverAfterClaimed, CallsOf
<1>2. TypeOK /\ NeverAfterClaimed => NeverAfterOvershootBounded
  <2> SUFFICES ASSUME TypeOK, NeverAfterClaimed, NEW s \in Session, NEW x \in Tool,
                      NEW t \in Pol.tools[x].neverAfter, NEW j \in CallsOf(events[s], t)
               PROVE  Cardinality({i \in AllowsOf(events[s], x) : i > j})
                          <= Cardinality(Handler) - 1
    BY DEF NeverAfterOvershootBounded
  <2>1. /\ Cardinality(AllowsAfter(s, x, j)) + Cardinality(Waiting(s, x))
              <= Cardinality(Handler) - 1
        /\ AllowsAfter(s, x, j) = {i \in AllowsOf(events[s], x) : i > j}
    BY DEF NeverAfterClaimed, AllowsAfter
  <2>2. Waiting(s, x) \in SUBSET Handler
    BY DEF Waiting
  <2>3. Cardinality(Waiting(s, x)) \in Nat /\ Cardinality(Handler) \in Nat
    BY <2>2, HandlersFinite
  <2>4. Cardinality(AllowsAfter(s, x, j)) \in Nat
    <3>1. events[s] \in Seq(Event)
      BY DEF TypeOK
    <3>2. IsFiniteSet(AllowsOf(events[s], x))
      BY <3>1, CallsFinite
    <3>3. AllowsAfter(s, x, j) \in SUBSET AllowsOf(events[s], x)
      BY DEF AllowsAfter
    <3> QED BY <3>2, <3>3, FS_Subset, FS_CardinalityType
  <2> QED BY <2>1, <2>3, <2>4
<1>3. TypeOK /\ NeverAfterClaimed /\ [Next]_vars => NeverAfterClaimed'
  BY NeverAfterStep
<1> QED BY <1>1, <1>2, <1>3, TypeInit, TypeStep, PTL DEF Spec

-----------------------------------------------------------------------------
(* rate_limit.                                                              *)

\* Requests keep their time of arrival, and time does not run backwards.
LEMMA ClocksStep ==
    ASSUME TypeOK, TypeOK', ClocksOrdered, [Next]_vars
    PROVE  ClocksOrdered'
<1> SUFFICES ASSUME NEW h \in Handler
             PROVE  /\ loc'[h].requestedAt <= clock'
                    /\ loc'[h].pc = "append" => loc'[h].requestedAt <= loc'[h].decidedAt
  BY DEF ClocksOrdered
<1>0. /\ clock \in Nat /\ clock' \in Nat /\ clock <= clock'
      /\ loc[h].requestedAt \in Nat /\ loc'[h].requestedAt \in Nat
      /\ loc[h].requestedAt <= clock
      /\ loc[h].pc = "append" => loc[h].requestedAt <= loc[h].decidedAt
  BY StepSeen DEF TypeOK, Local, ClocksOrdered
<1>1. CASE loc'[h] = loc[h]
  BY <1>0, <1>1
<1>2. CASE loc'[h] = AnIdle
  <2>1. AnIdle.requestedAt = 0 /\ AnIdle.pc = "idle"
    BY DEF AnIdle, Idle
  <2> QED BY <1>0, <1>2, <2>1
<1>3. CASE loc'[h].pc = "load" /\ loc'[h].requestedAt = clock
  BY <1>0, <1>3
<1>4. CASE Moves(loc[h], loc'[h])
  <2>1. /\ loc'[h].requestedAt = loc[h].requestedAt
        /\ loc'[h].pc = "append" => loc'[h].decidedAt = clock
    BY <1>4 DEF Moves
  <2> QED BY <1>0, <2>1
<1> QED BY <1>1, <1>2, <1>3, <1>4, StepSeen DEF Progress

\* A call that the rate limit stage lets pass finds every window it could end up
\* in below its limit.
LEMMA MeterSeesWindow ==
    ASSUME TypeOK, NEW s \in Session, NEW x \in Tool, NEW rl \in Pol.tools[x].rateLimit,
           NEW from \in Nat, NEW at \in Nat, at <= from + rl.window,
           RateLimitEvaluator(x, at, Pol, events[s]) = "allow"
    PROVE  Cardinality(Inside(s, x, from, from + rl.window)) < rl.max
<1> DEFINE counted == {i \in CallsOf(events[s], x) : InWindow(events[s][i], at, rl.window)}
           inside == Inside(s, x, from, from + rl.window)
<1>0. events[s] \in Seq(Event) /\ rl.max \in Nat /\ rl.window \in Nat
  BY ProxyAssumption DEF TypeOK, Policy, ToolPolicy
<1>1. ~ (Cardinality(counted) >= rl.max)
  BY DEF RateLimitEvaluator
<1>2. inside \subseteq counted
  <2> SUFFICES ASSUME NEW i \in inside PROVE i \in counted
    OBVIOUS
  <2>1. /\ i \in AllowsOf(events[s], x) /\ i \in CallsOf(events[s], x)
        /\ i \in 1..Len(events[s]) /\ from <= events[s][i].at
    BY <1>0, CallsFinite DEF Inside
  <2>2. events[s][i] \in Event
    BY <1>0, <2>1, ElementOfSeq
  <2>3. events[s][i].at \in Nat
    BY <2>2 DEF Event
  <2> QED BY <1>0, <2>1, <2>3 DEF InWindow
<1>3. IsFiniteSet(CallsOf(events[s], x)) /\ counted \in SUBSET CallsOf(events[s], x)
  BY <1>0, CallsFinite
<1>4. IsFiniteSet(counted) /\ Cardinality(counted) \in Nat
  BY <1>3, FS_Subset, FS_CardinalityType
<1>5. Cardinality(inside) <= Cardinality(counted) /\ Cardinality(inside) \in Nat
  BY <1>2, <1>4, FS_Subset, FS_CardinalityType
<1> QED BY <1>0, <1>1, <1>4, <1>5

\* A full window takes no new claim, and a claim becomes an allowed call by
\* leaving.
LEMMA WindowsStep ==
    ASSUME TypeOK, TypeOK', ClocksOrdered, WindowsClaimed, [Next]_vars
    PROVE  WindowsClaimed'
<1>0. /\ events \in [Session -> Seq(Event)]
      /\ \A h \in Handler : /\ loc[h] \in Local /\ loc[h].session \in Session
                            /\ loc[h].tool \in Tool /\ loc[h].requestedAt \in Nat
                            /\ loc[h].decidedAt \in Nat
      /\ \A s \in Session : events[s] \in Seq(Event)
  BY DEF TypeOK, Local
<1> SUFFICES ASSUME NEW s \in Session, NEW x \in Tool, NEW rl \in Pol.tools[x].rateLimit,
                    NEW from \in Nat, rl.max > 0,
                    Cardinality(Inside(s, x, from, from + rl.window)') >= rl.max
             PROVE  Cardinality(Inside(s, x, from, from + rl.window)')
                       + Cardinality(Pending(s, x, from + rl.window)')
                          <= rl.max + Cardinality(Handler) - 1
  BY DEF WindowsClaimed
<1> DEFINE to == from + rl.window
           V == Pending(s, x, to)
           A == Inside(s, x, from, to)
<1>1. /\ V \in SUBSET Handler /\ V' \in SUBSET Handler
      /\ A \in SUBSET AllowsOf(events[s], x)
      /\ rl.max \in Nat /\ to \in Nat /\ Cardinality(Handler) \in Nat
  BY ProxyAssumption, HandlersFinite DEF Pending, Inside, Policy, ToolPolicy
<1>2. IsFiniteSet(A) /\ Cardinality(A) \in Nat
  <2>1. IsFiniteSet(A)
    BY <1>0, <1>1, CallsFinite, FS_Subset
  <2> QED BY <2>1, FS_CardinalityType
<1>3. ASSUME Cardinality(A) >= rl.max
      PROVE  /\ V' \subseteq V
             /\ Cardinality(A) + Cardinality(V) <= rl.max + Cardinality(Handler) - 1
             /\ Cardinality(A) + Cardinality(V) \in Nat
  <2>1. ASSUME NEW g \in V' PROVE g \in V
    <3>1. /\ g \in Handler /\ Metered(loc'[g]) /\ loc'[g].session = s
          /\ loc'[g].tool = x /\ loc'[g].requestedAt <= to
      BY <2>1 DEF Pending, Metered
    <3>2. /\ loc'[g].session = loc[g].session /\ loc'[g].tool = loc[g].tool
          /\ loc'[g].requestedAt = loc[g].requestedAt
          /\ \/ Metered(loc[g])
             \/ RateLimitEvaluator(x, loc'[g].requestedAt, Pol, events[s]) = "allow"
      <4>1. Progress(loc[g], loc'[g])
        BY <3>1, StepSeen
      <4> QED BY <1>0, <3>1, <4>1, StagesPassed
    <3>3. Metered(loc[g])
      <4>1. ASSUME RateLimitEvaluator(x, loc'[g].requestedAt, Pol, events[s]) = "allow"
            PROVE  FALSE
        <5>1. loc'[g].requestedAt \in Nat
          BY <1>0, <3>1, <3>2
        <5>2. Cardinality(A) < rl.max
          BY <3>1, <4>1, <5>1, MeterSeesWindow
        <5> QED BY <1>1, <1>2, <1>3, <5>2
      <4> QED BY <3>2, <4>1
    <3> QED BY <3>1, <3>2, <3>3 DEF Pending
  <2>2. Cardinality(A) + Cardinality(V) <= rl.max + Cardinality(Handler) - 1
    BY <1>3 DEF WindowsClaimed
  <2>3. Cardinality(V) \in Nat
    BY <1>1, HandlersFinite
  <2> QED BY <1>2, <2>1, <2>2, <2>3
<1>4. CASE events'[s] = events[s]
  <2>1. A' = A
    BY <1>4 DEF Inside, AllowsOf
  <2>2. /\ V' \subseteq V
        /\ Cardinality(A) + Cardinality(V) <= rl.max + Cardinality(Handler) - 1
    BY <1>3, <2>1
  <2>3. Cardinality(A') + Cardinality(V') <= Cardinality(A) + Cardinality(V)
    BY <1>1, <1>2, <2>1, <2>2, Shrink
  <2>4. Cardinality(A') \in Nat /\ Cardinality(V') \in Nat /\ Cardinality(V) \in Nat
    BY <1>1, <1>2, <2>1, HandlersFinite
  <2> HIDE DEF A, V
  <2>5. Cardinality(A') + Cardinality(V') <= rl.max + Cardinality(Handler) - 1
    BY <1>1, <1>2, <2>2, <2>3, <2>4
  <2> QED BY <2>5 DEF A, V
<1>5. ASSUME NEW h \in Handler, NEW e \in Event, Appends(h, e), loc[h].session = s
      PROVE  Cardinality(A') + Cardinality(V') <= rl.max + Cardinality(Handler) - 1
  <2> DEFINE log == events[s]
             n == Len(log) + 1
             hits == e.tool = x /\ e.action = "allow" /\ from <= e.at /\ e.at <= to
  <2>1. /\ log \in Seq(Event) /\ Len(log) \in Nat /\ events'[s] = Append(log, e)
        /\ loc[h].pc = "append" /\ loc'[h].pc = "audit"
        /\ e.tool = loc[h].tool /\ e.action = loc[h].action
        /\ loc[h].decidedAt <= e.at /\ e.at \in Nat
    <3>1. e.at \in Nat
      BY <1>5 DEF Event
    <3>2. log \in Seq(Event) /\ Len(log) \in Nat /\ events'[s] = Append(log, e)
      BY <1>0, <1>5 DEF Appends
    <3>3. /\ loc[h].pc = "append" /\ loc'[h].pc = "audit"
          /\ e.tool = loc[h].tool /\ e.action = loc[h].action
          /\ loc[h].decidedAt <= e.at
      BY <1>5 DEF Appends
    <3> QED BY <3>1, <3>2, <3>3
  <2>2. h \notin V'
    BY <2>1 DEF Pending, Metered
  <2>3. A' = A \cup (IF hits THEN {n} ELSE {})
    <3>1. AllowsOf(events'[s], x) = AllowsOf(log, x) \cup
              (IF e.tool = x /\ e.action = "allow" THEN {n} ELSE {})
      BY <2>1, CallsGrow
    <3>2. /\ \A i \in AllowsOf(log, x) : events'[s][i] = log[i]
          /\ events'[s][n] = e
      BY <2>1 DEF AllowsOf
    <3> HIDE DEF n, log
    <3> QED BY <3>1, <3>2 DEF Inside, log
  <2> HIDE DEF A, V, n, log, to
  <2>4. /\ Cardinality(A') <= Cardinality(A) + 1 /\ Cardinality(A') \in Nat
        /\ Cardinality(V') <= Cardinality(Handler) - 1 /\ Cardinality(V') \in Nat
    <3>1. A' \in SUBSET (A \cup {n})
      BY <2>3
    <3>2. /\ IsFiniteSet(A \cup {n}) /\ Cardinality(A \cup {n}) <= Cardinality(A) + 1
          /\ Cardinality(A \cup {n}) \in Nat
      BY <1>2, AddOneCard
    <3>3. Cardinality(A') <= Cardinality(A \cup {n}) /\ Cardinality(A') \in Nat
      BY <3>1, <3>2, FS_Subset, FS_CardinalityType
    <3>4. Cardinality(V') <= Cardinality(Handler) - 1 /\ Cardinality(V') \in Nat
      BY <1>1, <2>2, OneMissing
    <3> QED BY <1>2, <3>2, <3>3, <3>4
  <2>5. CASE ~ (Cardinality(A) >= rl.max)
    <3>1. Cardinality(A') <= rl.max
      BY <1>1, <1>2, <2>4, <2>5
    <3> QED BY <1>1, <2>4, <3>1
  <2>6. CASE Cardinality(A) >= rl.max
    <3>1. /\ V' \subseteq V
          /\ Cardinality(A) + Cardinality(V) <= rl.max + Cardinality(Handler) - 1
          /\ Cardinality(A) + Cardinality(V) \in Nat
      BY <1>3, <2>6
    <3>2. Cardinality(A') + Cardinality(V') <= Cardinality(A) + Cardinality(V)
      <4>1. CASE hits
        <5>1. h \in V
          <6>1. loc[h].requestedAt <= loc[h].decidedAt
            BY <2>1 DEF ClocksOrdered
          <6>2. loc[h].requestedAt <= to
            BY <1>0, <1>1, <2>1, <4>1, <6>1
          <6> QED BY <1>5, <2>1, <4>1, <6>2 DEF V, Pending, Metered
        <5>2. V' \in SUBSET (V \ {h}) /\ A' \in SUBSET (A \cup {n})
          BY <2>2, <2>3, <3>1, <4>1
        <5> QED BY <1>1, <1>2, <5>1, <5>2, Trade
      <4>2. CASE ~ hits
        <5>1. A' \in SUBSET A
          BY <2>3, <4>2
        <5> QED BY <1>1, <1>2, <3>1, <5>1, Shrink
      <4> QED BY <4>1, <4>2
    <3> QED BY <1>1, <2>4, <3>1, <3>2
  <2> QED BY <2>5, <2>6
<1>6. \/ events'[s] = events[s]
      \/ \E h \in Handler, e \in Event : Appends(h, e) /\ loc[h].session = s
  <2>1. ASSUME NEW h \in Handler, NEW e \in Event, Appends(h, e), loc[h].session # s
        PROVE  events'[s] = events[s]
    BY <1>0, <2>1 DEF Appends
  <2> QED BY <2>1, StepSeen
<1> QED BY <1>4, <1>5, <1>6

\* No window of the configured width holds more allowed calls than the limit
\* plus one per other handler.
THEOREM RateBounded == Spec => []RateOvershootBounded
<1> DEFINE I == ClocksOrdered /\ WindowsClaimed
<1>1. Init => I
  <2> SUFFICES ASSUME Init PROVE I
    OBVIOUS
  <2>1. ClocksOrdered
    BY DEF Init, AnIdle, Idle, ClocksOrdered
  <2>2. \A s \in Session, x \in Tool, from \in Nat : \A to : Inside(s, x, from, to) = {}
    BY DEF Init, Inside, AllowsOf
  <2>3. \A x \in Tool : \A rl \in Pol.tools[x].rateLimit : rl.max \in Nat
    BY ProxyAssumption DEF Policy, ToolPolicy
  <2>4. ASSUME NEW s \in Session, NEW x \in Tool, NEW rl \in Pol.tools[x].rateLimit,
               NEW from \in Nat, rl.max > 0,
               Cardinality(Inside(s, x, from, from + rl.window)) >= rl.max
        PROVE  FALSE
    <3>1. Inside(s, x, from, from + rl.window) = {}
      BY <2>2
    <3>2. 0 >= rl.max
      BY <2>4, <3>1, FS_EmptySet
    <3> QED BY <2>3, <2>4, <3>2
  <2>5. WindowsClaimed
    BY <2>4 DEF WindowsClaimed
  <2> QED BY <2>1, <2>5
<1>2. TypeOK /\ I => RateOvershootBounded
  <2> SUFFICES ASSUME TypeOK, WindowsClaimed, NEW s \in Session, NEW x \in Tool,
                      NEW rl \in Pol.tools[x].rateLimit, NEW from \in 0..clock, rl.max > 0
               PROVE  Cardinality(Inside(s, x, from, from + rl.window))
                          <= rl.max + Cardinality(Handler) - 1
    BY DEF RateOvershootBounded, Inside
  <2> DEFINE A == Inside(s, x, from, from + rl.window)
             V == Pending(s, x, from + rl.window)
  <2>1. /\ from \in Nat /\ rl.max \in Nat /\ Cardinality(Handler) \in Nat
        /\ events[s] \in Seq(Event) /\ V \in SUBSET Handler
        /\ A \in SUBSET AllowsOf(events[s], x)
    BY ProxyAssumption, HandlersFinite DEF TypeOK, Policy, ToolPolicy, Pending, Inside
  <2>2. Cardinality(A) \in Nat /\ Cardinality(V) \in Nat
    BY <2>1, CallsFinite, HandlersFinite, FS_Subset, FS_CardinalityType
  <2>3. Cardinality(A) >= rl.max =>
           Cardinality(A) + Cardinality(V) <= rl.max + Cardinality(Handler) - 1
    BY <2>1 DEF WindowsClaimed
  <2>4. Cardinality(Handler) >= 1
    BY <2>1, ProxyAssumption, FS_EmptySet
  <2> HIDE DEF A, V
  <2>5. Cardinality(A) <= rl.max + Cardinality(Handler) - 1
    BY <2>1, <2>2, <2>3, <2>4
  <2> QED BY <2>5 DEF A
<1>3. TypeOK /\ TypeOK' /\ I /\ [Next]_vars => I'
  BY ClocksStep, WindowsStep
<1> QED BY <1>1, <1>2, <1>3, TypeInit, TypeStep, PTL DEF Spec

-----------------------------------------------------------------------------
(* Taint.                                                                   *)

\* The flag a handler carries follows from its snapshot at every stage.
LEMMA TaintComputedStep ==
    ASSUME NEW k \in Local, NEW l, Progress(k, l), TaintComputed(k)
    PROVE  TaintComputed(l)
<1>1. CASE l = k
  BY <1>1
<1>2. CASE l = AnIdle \/ l.pc = "load"
  BY <1>2 DEF AnIdle, Idle, TaintComputed
<1>3. CASE Moves(k, l)
  BY <1>3 DEF Moves, TaintComputed
<1> QED BY <1>1, <1>2, <1>3 DEF Progress

\* A session without an allowed clearing tool never had one.
LEMMA NeverClearedBefore ==
    ASSUME TypeOK, [Next]_vars, NEW s \in Session, NeverCleared(events'[s])
    PROVE  NeverCleared(events[s])
BY EventsGrow DEF NeverCleared

\* Without an allowed clearing tool, no handler has FALSE to write: its own call
\* would have to be one.
LEMMA TaintWritersAgree ==
    ASSUME TypeOK, LedgerInv, NEW h \in Handler, TaintComputed(loc[h]),
           loc[h].pc = "taint", NeverCleared(events[loc[h].session])
    PROVE  loc[h].tainted = TRUE
<1>0. /\ loc[h] \in Local /\ loc[h].tainted \in BOOLEAN
      /\ loc[h].sess \in Row /\ loc[h].tool \in Tool
  BY DEF TypeOK, Local
<1>1. loc[h].sess.tainted \in BOOLEAN
  BY <1>0 DEF Row
<1>2. /\ loc[h].tainted # loc[h].sess.tainted
      /\ loc[h].action = "allow"
      /\ loc[h].tainted = applyTaintMutations(loc[h].tool, loc[h].sess.tainted, Pol)
  BY DEF TaintComputed
<1>3. EventIs(loc[h].session, loc[h].seq, loc[h].tool, loc[h].args, loc[h].action)
  BY DEF LedgerInv, HandlersSound, HandlerSound, Recorded
<1>4. ~ Pol.tools[loc[h].tool].clears
  BY <1>2, <1>3 DEF EventIs, NeverCleared
<1>5. CASE loc[h].sess.tainted
  BY <1>0, <1>1, <1>2, <1>4, <1>5 DEF applyTaintMutations
<1>6. CASE ~ loc[h].sess.tainted
  BY <1>0, <1>1, <1>2, <1>6
<1> QED BY <1>5, <1>6

\* A tainted row of such a session stays tainted.
LEMMA RowTaintKept ==
    ASSUME TypeOK, LedgerInv, MissingRowsBlank, [Next]_vars,
           \A h \in Handler : TaintComputed(loc[h]),
           NEW s \in Session, row[s].tainted, NeverCleared(events[s])
    PROVE  row'[s].tainted
<1>0. /\ row \in [Session -> Row] /\ row[s].exists /\ \A x \in Session : row[x] \in Row
      /\ \A h \in Handler : loc[h].session \in Session
  BY DEF TypeOK, MissingRowsBlank, Local
<1>1. ASSUME NEW h \in Handler, ~ row[loc[h].session].exists,
             row' = [row EXCEPT ![loc[h].session] = NewRow]
      PROVE  row'[s].tainted
  BY <1>0, <1>1
<1>2. ASSUME NEW h \in Handler, UpdateSessionTaint(h),
             row' = [row EXCEPT ![loc[h].session].tainted = loc[h].tainted]
      PROVE  row'[s].tainted
  <2>1. CASE loc[h].session = s
    <3>1. loc[h].tainted = TRUE
      BY <1>2, <2>1, TaintWritersAgree DEF UpdateSessionTaint
    <3> QED BY <1>0, <1>2, <2>1, <3>1 DEF Row
  <2>2. CASE loc[h].session # s
    BY <1>0, <1>2, <2>2
  <2> QED BY <2>1, <2>2
<1>3. ASSUME NEW h \in Handler,
             row' = [row EXCEPT ![loc[h].session] =
                        [row[loc[h].session] EXCEPT
                            !.calls = row[loc[h].session].calls + 1,
                            !.cost = row[loc[h].session].cost + 1]]
      PROVE  row'[s].tainted
  <2> DEFINE x == loc[h].session
             r == [row[x] EXCEPT !.calls = row[x].calls + 1, !.cost = row[x].cost + 1]
  <2>1. r.tainted = row[x].tainted /\ row' = [row EXCEPT ![x] = r]
    BY <1>0, <1>3 DEF Row
  <2> HIDE DEF r
  <2> QED BY <1>0, <2>1
<1>4. ASSUME NEW x \in Session, TerminateSession(x) PROVE row'[s].tainted
  BY <1>0, <1>4 DEF TerminateSession, Row
<1> QED BY <1>1, <1>2, <1>3, <1>4, RowsChange

\* A handler answers after the taint step only if it wrote its flag.
LEMMA TaintWritten ==
    ASSUME TypeOK, [Next]_vars, NEW g \in Handler,
           loc[g].pc = "taint", loc'[g].pc = "respond"
    PROVE  row'[loc[g].session].tainted = loc[g].tainted
<1>0. /\ loc \in [Handler -> Local] /\ row \in [Session -> Row]
      /\ loc[g].session \in Session /\ row[loc[g].session] \in Row
  BY DEF TypeOK, Local
<1>1. AnIdle.pc = "idle"
  BY DEF AnIdle, Idle
<1>2. ASSUME NEW h \in Handler, HandlerStep(h)
      PROVE  UpdateSessionTaint(g)
  <2>1. h = g
    BY <1>2, HandlerMoves
  <2> QED BY <1>2, <2>1 DEF HandlerStep, GetSession, CreateSession, EvaluateSequence,
        EvaluateRateLimit, EvaluateEscalation, AppendEvent, WriteAudit, Refuse,
        IncrementSessionCounters, Forward, CreateEscalation
<1>3. ASSUME NEW h \in Handler, NEW s, NEW t, NEW a, Receive(h, s, t, a)
      PROVE  FALSE
  <2>1. loc'[h].pc = "load" /\ \A k \in Handler \ {h} : loc'[k] = loc[k]
    BY <1>0, <1>3 DEF Receive, Become, Idle
  <2> QED BY <2>1
<1>4. ~ Crash
  BY <1>1 DEF Crash
<1>5. loc' # loc
  OBVIOUS
<1>6. UpdateSessionTaint(g)
  BY <1>2, <1>3, <1>4, <1>5 DEF Next, vars, TerminateSession, resolveEscalation, Tick
<1>7. ~ Return(g)
  BY <1>0, <1>1 DEF Return, Become
<1>8. row' = [row EXCEPT ![loc[g].session].tainted = loc[g].tainted]
  BY <1>6, <1>7 DEF UpdateSessionTaint
<1> QED BY <1>0, <1>8 DEF Row

\* What a handler has seen of the flag stays true, and a taint source is about to
\* be forwarded only when the flag is in the row.
LEMMA TaintSeenStep ==
    ASSUME TypeOK, LedgerInv, MissingRowsBlank, TaintInv, [Next]_vars, NEW g \in Handler
    PROVE  TaintSeen(loc[g])'
<1> DEFINE k == loc[g]
           l == loc'[g]
<1> SUFFICES ASSUME PastCheck(l), NeverCleared(events'[l.session])
             PROVE  /\ l.sess.tainted => row'[l.session].tainted
                    /\ /\ l.pc \in {"respond", "forward"}
                       /\ l.action = "allow" /\ Pol.tools[l.tool].applies
                       => row'[l.session].tainted
  BY DEF TaintSeen, PastCheck
<1>0. k \in Local /\ k.session \in Session /\ Progress(k, l)
  BY StepSeen DEF TypeOK, Local
<1>1. TaintSeen(k) /\ TaintComputed(k) /\ \A h \in Handler : TaintComputed(loc[h])
  BY DEF TaintInv
<1>2. l.session = k.session
  BY <1>0 DEF Progress, Moves, PastCheck, AnIdle, Idle
<1>3. NeverCleared(events[k.session])
  BY <1>0, <1>2, NeverClearedBefore
<1>4. row[k.session].tainted => row'[k.session].tainted
  BY <1>0, <1>1, <1>3, RowTaintKept
<1>5. l = k \/ Moves(k, l)
  BY <1>0 DEF Progress, PastCheck, AnIdle, Idle
<1>6. CASE l = k
  BY <1>1, <1>3, <1>4, <1>6 DEF TaintSeen
<1>7. CASE Moves(k, l)
  <2>1. l.sess.tainted => row[k.session].tainted
    <3>1. CASE PastCheck(k)
      <4>1. l.sess = k.sess
        BY <1>7, <3>1 DEF Moves, PastCheck
      <4> QED BY <1>1, <1>3, <3>1, <4>1 DEF TaintSeen
    <3>2. CASE ~ PastCheck(k)
      <4>1. l.sess = row[k.session] \/ l.sess = NewRow
        BY <1>7, <3>2 DEF Moves, PastCheck
      <4>2. ~ NewRow.tainted
        BY DEF NewRow
      <4> QED BY <4>1, <4>2
    <3> QED BY <3>1, <3>2
  <2>2. ASSUME l.pc \in {"respond", "forward"}, l.action = "allow",
               Pol.tools[l.tool].applies
        PROVE  row'[k.session].tainted
    <3>1. /\ l.tool = k.tool /\ k.action = "allow" /\ l.sess = k.sess
          /\ k.pc \in {"audit", "taint", "respond"}
      BY <1>7, <2>2 DEF Moves
    <3>2. applyTaintMutations(k.tool, k.sess.tainted, Pol) = TRUE
      BY <2>2, <3>1, Zenon DEF applyTaintMutations
    <3>3. CASE k.pc = "audit"
      <4>1. k.tainted = k.sess.tainted
        BY <1>7, <2>2, <3>3 DEF Moves
      <4>2. k.tainted = TRUE
        BY <1>1, <3>1, <3>2, <3>3 DEF TaintComputed
      <4> QED BY <1>4, <2>1, <3>1, <4>1, <4>2
    <3>4. CASE k.pc = "taint"
      <4>1. k.tainted = TRUE
        BY <1>1, <3>1, <3>2, <3>4 DEF TaintComputed
      <4>2. l.pc = "respond"
        BY <1>7, <2>2, <3>4 DEF Moves
      <4> QED BY <3>4, <4>1, <4>2, TaintWritten
    <3>5. CASE k.pc = "respond"
      BY <1>1, <1>3, <1>4, <2>2, <3>1, <3>5 DEF TaintSeen, PastCheck
    <3> QED BY <3>1, <3>3, <3>4, <3>5
  <2> QED BY <1>2, <1>4, <2>1, <2>2
<1> QED BY <1>5, <1>6, <1>7

\* The set of forwarded calls grows by the call of one handler at most.
LEMMA ForwardsChange ==
    ASSUME TypeOK, [Next]_vars
    PROVE  \/ forwarded' = forwarded
           \/ \E h \in Handler :
                 /\ loc[h].pc = "forward"
                 /\ forwarded' = [forwarded EXCEPT ![loc[h].session] = @ \cup {loc[h].seq}]
<1>1. ASSUME NEW h \in Handler, HandlerStep(h), ~ Forward(h) PROVE forwarded' = forwarded
  BY <1>1 DEF HandlerStep, GetSession, CreateSession, EvaluateSequence, EvaluateRateLimit,
              EvaluateEscalation, AppendEvent, WriteAudit, UpdateSessionTaint, Refuse,
              IncrementSessionCounters, CreateEscalation
<1>2. \A h, s, t, a : Receive(h, s, t, a) => forwarded' = forwarded
  BY DEF Receive
<1>3. forwarded' = forwarded \/ \E h \in Handler : Forward(h)
  BY <1>1, <1>2 DEF Next, TerminateSession, resolveEscalation, Crash, Tick, vars
<1> QED BY <1>3 DEF Forward

\* A call is forwarded with the flag in the row, and the flag stays.
LEMMA TaintStep ==
    ASSUME TypeOK, LedgerInv, MissingRowsBlank, TaintInv, [Next]_vars
    PROVE  TaintInv'
<1>0. /\ forwarded \in [Session -> SUBSET Nat]
      /\ \A h \in Handler : loc[h] \in Local /\ loc[h].session \in Session
  BY DEF TypeOK, Local
<1>1. ASSUME NEW g \in Handler PROVE TaintSeen(loc[g])' /\ TaintComputed(loc[g])'
  <2>1. TaintComputed(loc'[g])
    BY <1>0, StepSeen, TaintComputedStep DEF TaintInv
  <2> QED BY <2>1, TaintSeenStep DEF TaintComputed
<1>2. ASSUME NEW s \in Session, NEW n \in forwarded'[s],
             events'[s][n].action = "allow", Pol.tools[events'[s][n].tool].applies,
             NeverCleared(events'[s])
      PROVE  row'[s].tainted
  <2>1. NeverCleared(events[s])
    BY <1>2, NeverClearedBefore
  <2>2. row[s].tainted => row'[s].tainted
    BY <2>1, RowTaintKept DEF TaintInv
  <2>3. CASE n \in forwarded[s]
    <3>1. n \in 1..Len(events[s])
      BY <2>3 DEF LedgerInv, ForwardedIsRecorded
    <3>2. events'[s][n] = events[s][n]
      BY <3>1, EventsGrow
    <3>3. row[s].tainted
      BY <1>2, <2>1, <2>3, <3>2 DEF TaintInv, ForwardedTaintPersists, NeverCleared
    <3> QED BY <2>2, <3>3
  <2>4. CASE n \notin forwarded[s]
    <3>1. PICK h \in Handler :
             /\ loc[h].pc = "forward"
             /\ forwarded' = [forwarded EXCEPT ![loc[h].session] = @ \cup {loc[h].seq}]
      BY <1>2, <2>4, ForwardsChange
    <3>2. loc[h].session = s /\ n = loc[h].seq
      BY <1>0, <1>2, <2>4, <3>1
    <3>3. EventIs(s, n, loc[h].tool, loc[h].args, loc[h].action)
      BY <3>1, <3>2 DEF LedgerInv, HandlersSound, HandlerSound, Recorded
    <3>4. events'[s][n] = events[s][n]
      BY <3>3, EventsGrow DEF EventIs
    <3>5. loc[h].action = "allow" /\ Pol.tools[loc[h].tool].applies
      BY <1>2, <3>3, <3>4 DEF EventIs
    <3>6. row[s].tainted
      BY <2>1, <3>1, <3>2, <3>5 DEF TaintInv, TaintSeen, PastCheck
    <3> QED BY <2>2, <3>6
  <2> QED BY <2>3, <2>4
<1>3. ForwardedTaintPersists'
  BY <1>2 DEF ForwardedTaintPersists, NeverCleared
<1> QED BY <1>1, <1>3 DEF TaintInv

\* In a session no clearing tool was allowed in, the row is tainted once a taint
\* source was forwarded, whatever races, failures and crashes there were.
THEOREM TaintPersists == Spec => []ForwardedTaintPersists
<1>1. Init => TaintInv
  BY DEF Init, TaintInv, ForwardedTaintPersists, TaintSeen, TaintComputed, PastCheck,
         AnIdle, Idle
<1>2. TaintInv => ForwardedTaintPersists
  BY DEF TaintInv
<1> QED BY <1>1, <1>2, TaintStep, BlankCorrect, LedgerCorrect, PTL DEF Spec
==============================================================================
