-------------------------------- MODULE Proxy --------------------------------
(***************************************************************************)
(* The tool-call path of the proxy (internal/proxy/proxy.go, handleMCP)    *)
(* over the SQLite store (internal/store).  net/http runs one goroutine    *)
(* per request, so a set of handlers works concurrently; the store has one *)
(* connection, so each store call is one atomic step, and between two      *)
(* calls of one handler the calls of every other handler, of the operator  *)
(* CLI and of the admin server can take place.  The session snapshot a     *)
(* handler loaded is therefore stale when it is used.                      *)
(*                                                                         *)
(* One policy governs all sessions here (PolicyReload models hot reload);  *)
(* the calls are those of root agents, for which DelegationEvaluator       *)
(* returns at once.  Store failures are the members of Faults, "crash"     *)
(* among them; a crash loses what handlers hold in memory and keeps the    *)
(* database.                                                               *)
(***************************************************************************)
EXTENDS Engine

CONSTANTS
    Handler,        \* goroutines serving requests
    Session,        \* session ids
    Pol,            \* the policy
    AgentEnv,       \* the env claim of the agent's JWT
    HasKey,         \* a signing key was loaded at startup
    AuditStrict,    \* --audit-strict
    Faults,         \* the store operations that may fail
    MaxEvents,      \* bound: events of a session
    MaxClock        \* bound: clock

Fault == {"get", "create", "read", "append", "audit", "taint", "count",
          "escalate", "crash"}

ASSUME ProxyAssumption ==
    /\ IsFiniteSet(Handler) /\ Handler # {}
    /\ Session # {} /\ Tool # {} /\ Args # {}
    /\ Pol \in Policy
    /\ AgentEnv \in STRING
    /\ HasKey \in BOOLEAN /\ AuditStrict \in BOOLEAN
    /\ Faults \subseteq Fault
    /\ MaxEvents \in Nat /\ MaxClock \in Nat

VARIABLES
    row,            \* sessions table
    events,         \* session_events table; the seq of an event is its index
    audit,          \* audit_log table
    escalations,    \* escalations table; the id of an escalation is its index
    clock,          \* wall clock
    loc,            \* what each handler holds in memory
    forwarded,      \* history: seqs of the calls forwarded to the upstream
    uncounted       \* history: forwards whose counter update failed

vars == <<row, events, audit, escalations, clock, loc, forwarded, uncounted>>

-----------------------------------------------------------------------------

NewRow == [exists |-> TRUE, tainted |-> FALSE, calls |-> 0, cost |-> 0,
           terminated |-> FALSE]
NoRow  == [NewRow EXCEPT !.exists = FALSE]

PC == {"idle", "load", "create", "evaluate", "ratelimit", "escalation",
       "append", "audit", "taint", "respond", "forward"}

\* A handler between requests.  The value of the fields other than pc is
\* then irrelevant.
Idle(s, t, a) ==
    [pc |-> "idle", session |-> s, tool |-> t, args |-> a,
     requestedAt |-> 0, decidedAt |-> 0, sess |-> NoRow, tainted |-> FALSE,
     action |-> "deny", seq |-> 0, auditFailed |-> FALSE]

AnIdle == Idle(CHOOSE s \in Session : TRUE, CHOOSE t \in Tool : TRUE,
               CHOOSE a \in Args : TRUE)

Init ==
    /\ row         = [s \in Session |-> NoRow]
    /\ events      = [s \in Session |-> << >>]
    /\ audit       = {}
    /\ escalations = << >>
    /\ clock       = 0
    /\ loc         = [h \in Handler |-> AnIdle]
    /\ forwarded   = [s \in Session |-> {}]
    /\ uncounted   = [s \in Session |-> 0]

Become(h, l) == loc' = [loc EXCEPT ![h] = l]
Goto(h, p)   == Become(h, [loc[h] EXCEPT !.pc = p])
Return(h)    == Become(h, AnIdle)
MayFail(op)  == op \in Faults

Busy(s) == {h \in Handler : loc[h].pc # "idle" /\ loc[h].session = s}

-----------------------------------------------------------------------------
(* A request, from arrival to the pipeline.                                *)

\* A tools/call request reaches handleMCP.
Receive(h, s, t, a) ==
    /\ loc[h].pc = "idle"
    /\ Len(events[s]) + Cardinality(Busy(s)) < MaxEvents
    /\ Become(h, [Idle(s, t, a) EXCEPT !.pc = "load", !.requestedAt = clock])
    /\ UNCHANGED <<row, events, audit, escalations, clock, forwarded, uncounted>>

\* Mutant: no check of the terminated flag.
GetSessionUnchecked(h) ==
    LET r == row[loc[h].session]
    IN  /\ loc[h].pc = "load"
        /\ \/ ~ r.exists /\ Goto(h, "create")
           \/ r.exists /\ Become(h, [loc[h] EXCEPT !.pc = "evaluate", !.sess = r,
                                                   !.tainted = r.tainted])
           \/ MayFail("get") /\ Return(h)
        /\ UNCHANGED <<row, events, audit, escalations, clock, forwarded, uncounted>>

\* Store.GetSession, and the 410 of a terminated session.
GetSession(h) ==
    LET r == row[loc[h].session]
    IN  /\ loc[h].pc = "load"
        /\ \/ ~ r.exists /\ Goto(h, "create")
           \/ r.exists /\ r.terminated /\ Return(h)
           \/ /\ r.exists /\ ~ r.terminated
              /\ Become(h, [loc[h] EXCEPT !.pc = "evaluate", !.sess = r,
                                          !.tainted = r.tainted])
           \/ MayFail("get") /\ Return(h)
        /\ UNCHANGED <<row, events, audit, escalations, clock, forwarded, uncounted>>

\* Store.CreateSession: the INSERT of a handler that found no row.  It fails
\* on the primary key when another handler has created the row since.
CreateSession(h) ==
    LET s == loc[h].session
    IN  /\ loc[h].pc = "create"
        /\ \/ /\ ~ row[s].exists
              /\ row' = [row EXCEPT ![s] = NewRow]
              /\ Become(h, [loc[h] EXCEPT !.pc = "evaluate", !.sess = NewRow,
                                          !.tainted = FALSE])
           \/ /\ row[s].exists \/ MayFail("create")
              /\ Return(h)
              /\ UNCHANGED row
        /\ UNCHANGED <<events, audit, escalations, clock, forwarded, uncounted>>

-----------------------------------------------------------------------------
(* Pipeline.Evaluate, split where a stage reads the store.                 *)

\* The verdicts a stage can end with: reading the store may fail, and the
\* failure is an evaluator error.
Verdicts(v, reads) == {v} \cup (IF reads /\ MayFail("read") THEN {"error"} ELSE {})

\* The pipeline goes on at p, or it is over and the decision is made.
Judge(h, v, p) ==
    IF v = "allow" /\ p # "append"
    THEN Goto(h, p)
    ELSE Become(h, [loc[h] EXCEPT
            !.pc        = "append",
            !.decidedAt = clock,
            !.action    = Decide(v, loc[h].tool, Pol),
            !.tainted   = IF v = "allow"
                          THEN applyTaintMutations(loc[h].tool, loc[h].tainted, Pol)
                          ELSE loc[h].tainted])

\* Env, MayUse, Delegation (root agent), Budget and Taint on the snapshot,
\* and Sequence with its read of the event log.
SnapshotVerdict(h) ==
    Chain(EnvEvaluator(AgentEnv, Pol),
    Chain(MayUseEvaluator(loc[h].tool, Pol),
    Chain(BudgetEvaluator(loc[h].sess, Pol),
          TaintEvaluator(loc[h].tool, loc[h].sess, Pol))))

EvaluateSequence(h) ==
    /\ loc[h].pc = "evaluate"
    /\ \E v \in IF SnapshotVerdict(h) = "allow"
                THEN Verdicts(SequenceEvaluator(loc[h].tool, Pol, events[loc[h].session]),
                              NeedsHistory(loc[h].tool, Pol))
                ELSE {SnapshotVerdict(h)} :
          Judge(h, v, "ratelimit")
    /\ UNCHANGED <<row, events, audit, escalations, clock, forwarded, uncounted>>

\* Content, and RateLimit with its count.
EvaluateRateLimit(h) ==
    LET content == ContentEvaluator(loc[h].tool, loc[h].args, Pol)
    IN  /\ loc[h].pc = "ratelimit"
        /\ \E v \in IF content = "allow"
                    THEN Verdicts(RateLimitEvaluator(loc[h].tool, loc[h].requestedAt,
                                                     Pol, events[loc[h].session]),
                                  Pol.tools[loc[h].tool].rateLimit # {})
                    ELSE {content} :
              Judge(h, v, "escalation")
        /\ UNCHANGED <<row, events, audit, escalations, clock, forwarded, uncounted>>

\* Mutant: an escalation that nobody has looked at counts as approved.
HasUnrejectedEscalation(s, t, a) ==
    \E i \in 1..Len(escalations) :
        /\ escalations[i].session = s
        /\ escalations[i].tool = t
        /\ escalations[i].args = a
        /\ escalations[i].status # "rejected"

HasApprovedEscalation(s, t, a) ==
    \E i \in 1..Len(escalations) :
        /\ escalations[i].session = s
        /\ escalations[i].tool = t
        /\ escalations[i].args = a
        /\ escalations[i].status = "approved"

EvaluateEscalation(h) ==
    LET t == loc[h].tool
        a == loc[h].args
    IN  /\ loc[h].pc = "escalation"
        /\ \E v \in Verdicts(
                      EscalationEvaluator(t, a, Pol,
                          HasApprovedEscalation(loc[h].session, t, a)),
                      \E p \in Pol.tools[t].escalateWhen : p[a] = "fires") :
              Judge(h, v, "append")
        /\ UNCHANGED <<row, events, audit, escalations, clock, forwarded, uncounted>>

-----------------------------------------------------------------------------
(* Recording the decision and acting on it.                                *)

\* Mutant: the event keeps the MAX(seq) read in the transaction.
AppendEventStaleSeq(h) ==
    LET s == loc[h].session
    IN  /\ loc[h].pc = "append"
        /\ events' = [events EXCEPT ![s] = Append(@,
              [tool |-> loc[h].tool, args |-> loc[h].args,
               action |-> loc[h].action, at |-> clock])]
        /\ Become(h, [loc[h] EXCEPT !.pc = "audit", !.seq = Len(events[s])])
        /\ UNCHANGED <<row, audit, escalations, clock, forwarded, uncounted>>

\* Mutant: a repeated call of the same tool overwrites the event before it.
AppendEventUpsert(h) ==
    LET s == loc[h].session
        n == Len(events[s])
        e == [tool |-> loc[h].tool, args |-> loc[h].args,
              action |-> loc[h].action, at |-> clock]
        repeats == n > 0 /\ events[s][n].tool = e.tool
    IN  /\ loc[h].pc = "append"
        /\ events' = IF repeats THEN [events EXCEPT ![s][n] = e]
                     ELSE [events EXCEPT ![s] = Append(@, e)]
        /\ Become(h, [loc[h] EXCEPT !.pc = "audit",
                                    !.seq = IF repeats THEN n ELSE n + 1])
        /\ UNCHANGED <<row, audit, escalations, clock, forwarded, uncounted>>

\* Store.AppendEvent: one transaction takes MAX(seq)+1 and inserts.  The
\* timestamp is taken before the handler waits for the connection, so it may
\* lie anywhere between the decision and now.
AppendEvent(h) ==
    LET s == loc[h].session
    IN  /\ loc[h].pc = "append"
        /\ \/ /\ \E at \in loc[h].decidedAt .. clock :
                    events' = [events EXCEPT ![s] = Append(@,
                        [tool |-> loc[h].tool, args |-> loc[h].args,
                         action |-> loc[h].action, at |-> at])]
              /\ Become(h, [loc[h] EXCEPT !.pc = "audit",
                                          !.seq = Len(events[s]) + 1])
           \/ MayFail("append") /\ Return(h) /\ UNCHANGED events
        /\ UNCHANGED <<row, audit, escalations, clock, forwarded, uncounted>>

\* writeAuditRecord.  Without a key nothing is written and nothing fails; a
\* failed write is remembered.  (Signing cannot fail: it marshals a flat record
\* of strings and numbers with a key checked when it was loaded.)  Next comes
\* the taint update, if the pipeline changed the flag of the snapshot.
WriteAudit(h) ==
    LET next == IF loc[h].tainted # loc[h].sess.tainted THEN "taint" ELSE "respond"
    IN  /\ loc[h].pc = "audit"
        /\ \/ /\ audit' = IF HasKey
                          THEN audit \cup {[session |-> loc[h].session,
                                            seq |-> loc[h].seq,
                                            tool |-> loc[h].tool,
                                            action |-> loc[h].action]}
                          ELSE audit
              /\ Goto(h, next)
           \/ /\ HasKey /\ MayFail("audit")
              /\ Become(h, [loc[h] EXCEPT !.pc = next, !.auditFailed = TRUE])
              /\ UNCHANGED audit
        /\ UNCHANGED <<row, events, escalations, clock, forwarded, uncounted>>

\* Mutant: a failed taint update is logged and ignored.
UpdateSessionTaintAdvisory(h) ==
    /\ loc[h].pc = "taint"
    /\ \/ row' = [row EXCEPT ![loc[h].session].tainted = loc[h].tainted]
       \/ MayFail("taint") /\ UNCHANGED row
    /\ Goto(h, "respond")
    /\ UNCHANGED <<events, audit, escalations, clock, forwarded, uncounted>>

\* Store.UpdateSessionTaint.  If it fails the request is answered with 400
\* although its event says "allow".
UpdateSessionTaint(h) ==
    /\ loc[h].pc = "taint"
    /\ \/ /\ row' = [row EXCEPT ![loc[h].session].tainted = loc[h].tainted]
          /\ Goto(h, "respond")
       \/ MayFail("taint") /\ Return(h) /\ UNCHANGED row
    /\ UNCHANGED <<events, audit, escalations, clock, forwarded, uncounted>>

\* Mutant: strictness is applied to shadow denials only.
StrictRefusalShadowOnly(h) ==
    loc[h].auditFailed /\ AuditStrict /\ loc[h].action = "shadow_deny"

StrictRefusal(h) == loc[h].auditFailed /\ AuditStrict

\* Mutant: the request is held when its audit record could not be written.
RefuseDenied(h) ==
    /\ loc[h].pc = "respond" /\ loc[h].action = "deny"
    /\ Return(h)
    /\ UNCHANGED <<row, events, audit, escalations, clock, forwarded, uncounted>>

\* The answer to a denied call, and to an allowed one under --audit-strict
\* whose audit record could not be written.
Refuse(h) ==
    /\ loc[h].pc = "respond"
    /\ \/ loc[h].action = "deny"
       \/ loc[h].action \in {"allow", "shadow_deny"} /\ StrictRefusal(h)
    /\ Return(h)
    /\ UNCHANGED <<row, events, audit, escalations, clock, forwarded, uncounted>>

\* Store.IncrementSessionCounters; a failure is logged and ignored.
IncrementSessionCounters(h) ==
    LET s == loc[h].session
    IN  /\ loc[h].pc = "respond"
        /\ loc[h].action \in {"allow", "shadow_deny"}
        /\ ~ StrictRefusal(h)
        /\ \/ /\ row' = [row EXCEPT ![s] = [row[s] EXCEPT !.calls = row[s].calls + 1,
                                                       !.cost = row[s].cost + 1]]
              /\ UNCHANGED uncounted
           \/ /\ MayFail("count")
              /\ uncounted' = [uncounted EXCEPT ![s] = @ + 1]
              /\ UNCHANGED row
        /\ Goto(h, "forward")
        /\ UNCHANGED <<events, audit, escalations, clock, forwarded>>

\* The reverse proxy sends the call to the upstream server.
Forward(h) ==
    /\ loc[h].pc = "forward"
    /\ forwarded' = [forwarded EXCEPT ![loc[h].session] = @ \cup {loc[h].seq}]
    /\ Return(h)
    /\ UNCHANGED <<row, events, audit, escalations, clock, uncounted>>

\* Mutant: the seq is that of the last event of the session.
CreateEscalationForLast(h) ==
    /\ loc[h].pc = "respond"
    /\ loc[h].action = "escalate"
    /\ \/ escalations' = Append(escalations,
              [session |-> loc[h].session, seq |-> Len(events[loc[h].session]),
               tool |-> loc[h].tool, args |-> loc[h].args,
               status |-> "pending"])
       \/ MayFail("escalate") /\ UNCHANGED escalations
    /\ Return(h)
    /\ UNCHANGED <<row, events, audit, clock, forwarded, uncounted>>

\* Store.CreateEscalation, then the notification and the escalated answer.
CreateEscalation(h) ==
    /\ loc[h].pc = "respond"
    /\ loc[h].action = "escalate"
    /\ \/ escalations' = Append(escalations,
              [session |-> loc[h].session, seq |-> loc[h].seq,
               tool |-> loc[h].tool, args |-> loc[h].args,
               status |-> "pending"])
       \/ MayFail("escalate") /\ UNCHANGED escalations
    /\ Return(h)
    /\ UNCHANGED <<row, events, audit, clock, forwarded, uncounted>>

-----------------------------------------------------------------------------
(* Everyone else.                                                          *)

\* truebearing session terminate.
TerminateSession(s) ==
    /\ row[s].exists
    /\ row' = [row EXCEPT ![s].terminated = TRUE]
    /\ UNCHANGED <<events, audit, escalations, clock, loc, forwarded, uncounted>>

\* Mutant: the UPDATE without its status = 'pending' guard.
resolveAnyEscalation(i, status) ==
    /\ escalations' = [escalations EXCEPT ![i].status = status]
    /\ UNCHANGED <<row, events, audit, clock, loc, forwarded, uncounted>>

\* Approve or reject, from the CLI or the admin server: one UPDATE guarded by
\* status = 'pending'.  Resolving a resolved escalation changes nothing.
resolveEscalation(i, status) ==
    /\ escalations[i].status = "pending"
    /\ escalations' = [escalations EXCEPT ![i].status = status]
    /\ UNCHANGED <<row, events, audit, clock, loc, forwarded, uncounted>>

Crash ==
    /\ MayFail("crash")
    /\ loc' = [h \in Handler |-> AnIdle]
    /\ UNCHANGED <<row, events, audit, escalations, clock, forwarded, uncounted>>

Tick ==
    /\ clock < MaxClock
    /\ clock' = clock + 1
    /\ UNCHANGED <<row, events, audit, escalations, loc, forwarded, uncounted>>

HandlerStep(h) ==
    \/ GetSession(h) \/ CreateSession(h)
    \/ EvaluateSequence(h) \/ EvaluateRateLimit(h) \/ EvaluateEscalation(h)
    \/ AppendEvent(h) \/ WriteAudit(h) \/ UpdateSessionTaint(h)
    \/ Refuse(h) \/ IncrementSessionCounters(h) \/ Forward(h) \/ CreateEscalation(h)

Next ==
    \/ \E h \in Handler : HandlerStep(h)
    \/ \E h \in Handler, s \in Session, t \in Tool, a \in Args : Receive(h, s, t, a)
    \/ \E s \in Session : TerminateSession(s)
    \/ \E i \in 1..Len(escalations), st \in {"approved", "rejected"} :
          resolveEscalation(i, st)
    \/ Crash
    \/ Tick

Spec == Init /\ [][Next]_vars

-----------------------------------------------------------------------------
(* Properties.                                                             *)

Row       == [exists : BOOLEAN, tainted : BOOLEAN, calls : Nat, cost : Nat,
              terminated : BOOLEAN]
Event     == [tool : Tool, args : Args, action : Action, at : Nat]
AuditRec  == [session : Session, seq : Nat, tool : Tool, action : Action]
EscRec    == [session : Session, seq : Nat, tool : Tool, args : Args,
              status : {"pending", "approved", "rejected"}]
Local     == [pc : PC, session : Session, tool : Tool, args : Args,
              requestedAt : Nat, decidedAt : Nat, sess : Row,
              tainted : BOOLEAN, action : Action, seq : Nat,
              auditFailed : BOOLEAN]

\* Every table and every handler variable holds values of its type.
TypeOK ==
    /\ row \in [Session -> Row]
    /\ events \in [Session -> Seq(Event)]
    /\ audit \subseteq AuditRec
    /\ escalations \in Seq(EscRec)
    /\ clock \in Nat
    /\ loc \in [Handler -> Local]
    /\ forwarded \in [Session -> SUBSET Nat]
    /\ uncounted \in [Session -> Nat]

\* handleMCP records before it forwards: whatever reached the upstream has an
\* event that says allow or shadow_deny, and, under --audit-strict with a key,
\* a signed audit record, whatever store call failed and wherever a crash hit.
ForwardedIsRecorded ==
    \A s \in Session : \A n \in forwarded[s] :
        /\ n \in 1..Len(events[s])
        /\ Counts(events[s][n])
        /\ HasKey /\ AuditStrict => \E r \in audit : r.session = s /\ r.seq = n

\* An audit record tells the truth about one session event, the one with its
\* session and seq: same tool, same decision.  (So no event has two records
\* that disagree, in whatever order handlers write them.)
AuditAgreesWithEvents ==
    \A r \in audit :
        /\ r.seq \in 1..Len(events[r.session])
        /\ events[r.session][r.seq].tool = r.tool
        /\ events[r.session][r.seq].action = r.action

Enforced(t) == effectiveMode(Pol, t) # "shadow"
AllEnforced == \A t \in Tool : Enforced(t)

\* The ceilings a policy sets; both columns advance together.
Ceilings == {Pol.maxCalls, Pol.maxCost} \ {0}

\* BudgetEvaluator compares a counter loaded at the start of the request, and
\* the counter moves at its end: handlers that loaded it in time all pass.
\* The overshoot is at most one call per other concurrent handler, plus one
\* per counter update that failed and was ignored.
BudgetOvershootBounded ==
    AllEnforced =>
        \A s \in Session, m \in Ceilings :
            /\ row[s].calls <= m + Cardinality(Handler) - 1
            /\ Cardinality(forwarded[s])
                  <= m + Cardinality(Handler) - 1 + uncounted[s]

\* The inductive invariant behind it.  Passed: the handler's call is through
\* the budget stage and will be counted unless something stops it.  Claims:
\* the handlers of session s that loaded a counter below m and have not yet
\* counted their call.
Passed(l) ==
    \/ l.pc \in {"ratelimit", "escalation"}
    \/ /\ l.pc \in {"append", "audit", "taint", "respond"}
       /\ l.action \in {"allow", "shadow_deny"}

Claims(s, m) ==
    {h \in Handler :
        /\ loc[h].session = s
        /\ loc[h].pc \in PC \ {"idle", "load", "create", "forward"}
        /\ loc[h].sess.calls < m}

Forwarding(s) == {h \in Handler : loc[h].session = s /\ loc[h].pc = "forward"}

RowsConsistent ==
    \A s \in Session : /\ row[s].calls = row[s].cost
                       /\ row[s].exists \/ row[s].calls = 0

LocalsConsistent ==
    \A h \in Handler :
        /\ loc[h].sess.calls = loc[h].sess.cost
        /\ loc[h].pc \in {"idle", "load", "create"} \/ row[loc[h].session].exists

PassedBelowCeilings ==
    AllEnforced => \A h \in Handler, m \in Ceilings :
        Passed(loc[h]) => loc[h].sess.calls < m

ClaimsBounded ==
    AllEnforced => \A s \in Session, m \in Ceilings : row[s].calls >= m =>
        row[s].calls + Cardinality(Claims(s, m)) <= m + Cardinality(Handler) - 1

ForwardsCounted ==
    \A s \in Session :
        /\ IsFiniteSet(forwarded[s])
        /\ Cardinality(forwarded[s]) + Cardinality(Forwarding(s))
              <= row[s].calls + uncounted[s]

BudgetInv == /\ RowsConsistent /\ LocalsConsistent
             /\ PassedBelowCeilings /\ ClaimsBounded /\ ForwardsCounted

AllowsOf(log, t) == {i \in 1..Len(log) : log[i].tool = t /\ log[i].action = "allow"}

\* SequenceEvaluator, never_after: once a forbidding call is in the history,
\* only handlers that had read the history before it can still be allowed.
NeverAfterOvershootBounded ==
    \A s \in Session, x \in Tool :
        \A t \in Pol.tools[x].neverAfter : \A j \in CallsOf(events[s], t) :
            Cardinality({i \in AllowsOf(events[s], x) : i > j})
                <= Cardinality(Handler) - 1

\* SequenceEvaluator, only_after and requires_prior_n: the prerequisites of an
\* allowed call precede it in the log, however requests interleave.
PrerequisitesPrecede ==
    \A s \in Session, x \in Tool : \A i \in AllowsOf(events[s], x) :
        LET before == SubSeq(events[s], 1, i - 1)
        IN  /\ \A t \in Pol.tools[x].onlyAfter : CallsOf(before, t) # {}
            /\ \A r \in Pol.tools[x].priorN :
                  Cardinality(CallsOf(before, r.tool)) >= r.count

\* RateLimitEvaluator: no window of the configured width holds more allowed
\* calls, by their recorded_at, than the limit plus one per other handler.
RateOvershootBounded ==
    \A s \in Session, x \in Tool :
        \A rl \in Pol.tools[x].rateLimit : \A from \in 0..clock :
            LET inside == {i \in AllowsOf(events[s], x) :
                              /\ from <= events[s][i].at
                              /\ events[s][i].at <= from + rl.window}
            IN  rl.max > 0 =>
                  Cardinality(inside) <= rl.max + Cardinality(Handler) - 1

\* The taint flag is persisted before the call that sets it is forwarded: in a
\* session no clearing tool was allowed in, a forwarded taint source leaves
\* the row tainted, past races, failed updates and crashes.
ForwardedTaintPersists ==
    \A s \in Session :
        /\ \E n \in forwarded[s] :
              events[s][n].action = "allow" /\ Pol.tools[events[s][n].tool].applies
        /\ \A n \in 1..Len(events[s]) :
              events[s][n].action = "allow" => ~ Pol.tools[events[s][n].tool].clears
        => row[s].tainted

\* EscalationEvaluator: a call whose arguments trigger escalate_when is allowed
\* only after an operator approved an earlier call of the same session with
\* the same tool and the same arguments.
ApprovalPrecedesAllow ==
    \A s \in Session : \A n \in 1..Len(events[s]) :
        LET e == events[s][n]
        IN  /\ e.action = "allow"
            /\ \E p \in Pol.tools[e.tool].escalateWhen : p[e.args] = "fires"
            => \E i \in 1..Len(escalations) :
                  /\ escalations[i].session = s
                  /\ escalations[i].seq < n
                  /\ escalations[i].tool = e.tool
                  /\ escalations[i].args = e.args
                  /\ escalations[i].status = "approved"

\* The handlers working on session s past the termination check.
Admitted(s) == {h \in Busy(s) : loc[h].pc \notin {"load", "create"}}

\* After `session terminate` no further call is admitted, and the session
\* stays terminated: the admitted ones run to their end, none joins them.
TerminationIsFinal ==
    [][\A s \in Session : row[s].terminated =>
          row'[s].terminated /\ Admitted(s)' \subseteq Admitted(s)]_vars

\* An operator's resolution is never overwritten, and an escalation never
\* changes hands: only pending becomes approved or rejected.
ResolutionIsFinal ==
    [][\A i \in 1..Len(escalations) :
          /\ i <= Len(escalations')
          /\ escalations'[i] = escalations[i]
             \/ /\ escalations[i].status = "pending"
                /\ [escalations'[i] EXCEPT !.status = "pending"] = escalations[i]]_vars

\* The handlers finish what they started: net/http runs every request to its
\* end, and no store call waits for another handler.
FairSpec == Spec /\ \A h \in Handler : WF_vars(HandlerStep(h))

\* A terminated session falls silent for good: the calls admitted before the
\* operator acted drain, and the session never becomes active again.
TerminatedSessionFallsSilent ==
    \A s \in Session : row[s].terminated ~> [](Admitted(s) = {})

Permits == {e \in Event : Counts(e)}

L == INSTANCE Ledger WITH
        Entry <- Event, Strict <- HasKey /\ AuditStrict,
        log <- events, certificates <- audit, sent <- forwarded,
        closed <- [s \in Session |-> row[s].terminated]

\* The proxy keeps the auditor's ledger: no event is rewritten, certified twice
\* or forwarded twice, and nothing is forwarded that the log does not permit.
KeepsLedger == L!Spec
=============================================================================
