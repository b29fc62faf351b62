------------------------------- MODULE Offline -------------------------------
(***************************************************************************)
(* `truebearing simulate` (cmd/simulate.go) and `truebearing audit replay` *)
(* (cmd/audit/replay.go): two commands that run the pipeline again over    *)
(* what a proxy captured and report how the decisions would change under   *)
(* another policy.  They keep their own session bookkeeping, use fewer     *)
(* stages than the proxy and see less of each call, so whether the report  *)
(* is right is a question about three pieces of code.                      *)
(*                                                                         *)
(* The proxy serves pols.old while it captures.  live.old are its sessions *)
(* and live.new those of a proxy that serves pols.new and receives the     *)
(* same calls: what the report should say.  The calls of a session do not  *)
(* overlap here (Proxy is about those that do), sessions interleave,       *)
(* --audit-strict is off, and store calls fail only as Loss says.          *)
(***************************************************************************)
EXTENDS Engine, SequencesExt

CONSTANTS
    Session,
    AgentEnv,           \* env claim of the agent's token
    Pairs,              \* policies in force and policies under examination
    TicksPerSecond,     \* resolution of the clock
    MaxTime,            \* bound: last tick of the clock
    MaxCalls,           \* bound: calls received
    MaxLosses           \* bound: lost records

ASSUME OfflineAssumption ==
    /\ \A p \in Pairs : p.old \in Policy /\ p.new \in Policy
    /\ TicksPerSecond \in Nat \ {0}
    /\ MaxTime \in Nat /\ MaxCalls \in Nat /\ MaxLosses \in Nat

VARIABLES
    pols,       \* the pair of policies
    clock,      \* wall clock of the proxy
    live,       \* sessions under each policy
    escalated,  \* calls for which a human was asked
    approved,   \* calls a human has approved
    trace,      \* the --capture-trace file
    audit,      \* audit_log table of the proxy
    spoiled,    \* history: calls at which the trace or the audit log lost something
    received,   \* history: number of calls
    job,        \* "capture", "simulate" or "replay"
    input,      \* the entries of the file the command was given
    line,       \* the next entry to read
    groups,     \* the entries read, by session
    pass,       \* "read", then the policy it is evaluating
    pos,        \* the next entry: its group and its index there
    sess,       \* its Session struct
    store,      \* its in-memory database: events by session
    results     \* decisions, by policy

vars == <<pols, clock, live, escalated, approved, trace, audit, spoiled, received,
          job, input, line, groups, pass, pos, sess, store, results>>
captureVars == <<pols, clock, live, escalated, approved, trace, audit, spoiled, received>>
commandVars == <<job, input, line, groups, pass, pos, sess, store, results>>

Version    == {"old", "new"}
NewSession == [calls |-> 0, cost |-> 0, tainted |-> FALSE]

Init ==
    /\ pols     \in Pairs
    /\ clock    = 0
    /\ live     = [v \in Version |-> [s \in Session |-> [sess |-> NewSession, log |-> << >>]]]
    /\ escalated = {}
    /\ approved = {}
    /\ trace    = << >>
    /\ audit    = {}
    /\ spoiled  = {}
    /\ received = 0
    /\ job      = "capture"
    /\ input    = << >>
    /\ line     = 1
    /\ groups   = << >>
    /\ pass     = "read"
    /\ pos      = [group |-> 1, entry |-> 1]
    /\ sess     = NewSession
    /\ store    = [s \in Session |-> << >>]
    /\ results  = [v \in Version |-> << >>]

-----------------------------------------------------------------------------
(* The proxy, one call after the other.                                    *)

\* All stages, in the order of proxy.New (the agent is a root agent).
ProxyVerdict(pol, t, a, requestedAt, x, isApproved) ==
    Chain(EnvEvaluator(AgentEnv, pol),
    Chain(MayUseEvaluator(t, pol),
    Chain(BudgetEvaluator(x.sess, pol),
    Chain(TaintEvaluator(t, x.sess, pol),
    Chain(SequenceEvaluator(t, pol, x.log),
    Chain(ContentEvaluator(t, a, pol),
    Chain(RateLimitEvaluator(t, requestedAt, pol, x.log),
          EscalationEvaluator(t, a, pol, isApproved))))))))

\* The rule that decided, as far as a reader of the log tells rules apart.
ProxyRule(pol, t, x) ==
    IF Chain(EnvEvaluator(AgentEnv, pol),
       Chain(MayUseEvaluator(t, pol), BudgetEvaluator(x.sess, pol))) = "allow"
       /\ TaintEvaluator(t, x.sess, pol) # "allow"
    THEN "taint.session_tainted" ELSE ""

\* Event, taint flag and counters of a decided call.
ProxyRecords(pol, t, a, v, recordedAt, x) ==
    LET event == [tool |-> t, args |-> a, action |-> Decide(v, t, pol),
                  at |-> recordedAt, rule |-> ProxyRule(pol, t, x)]
    IN  [sess |-> [calls   |-> IF Counts(event) THEN x.sess.calls + 1 ELSE x.sess.calls,
                   cost    |-> IF Counts(event) THEN x.sess.cost + 1 ELSE x.sess.cost,
                   tainted |-> IF v = "allow" THEN applyTaintMutations(t, x.sess.tainted, pol)
                               ELSE x.sess.tainted],
         log  |-> Append(x.log, event)]

\* time.RFC3339 drops what is below a second; parsing it back adds nothing.
FormatRFC3339(time) == (time \div TicksPerSecond) * TicksPerSecond

\* What a call may lose: its trace entry, its audit record, or, when the
\* session is terminated or the store fails after the trace entry was written,
\* the evaluation itself.
Loss == {"none", "trace", "audit", "event"}

Lose(loss, s) ==
    /\ loss # "none" => Cardinality(spoiled) < MaxLosses
    /\ spoiled' = IF loss = "none" THEN spoiled
                  ELSE spoiled \cup {[file    |-> IF loss = "audit" THEN "audit" ELSE "trace",
                                      session |-> s,
                                      call    |-> Len(live.old[s].log) + 1]}

Capture(s, t, a, loss, recordedAt) ==
    LET decided(w) == ProxyRecords(pols[w], t, a,
                          ProxyVerdict(pols[w], t, a, clock, live[w][s],
                                       <<s, t, a>> \in approved),
                          recordedAt, live[w][s])
        seq == Len(live.old[s].log) + 1
    IN  /\ job = "capture" /\ received < MaxCalls
        /\ received' = received + 1
        /\ Lose(loss, s)
        /\ clock' = recordedAt
        /\ trace' = IF loss = "trace" THEN trace
                    ELSE Append(trace, [session |-> s, tool |-> t, args |-> a,
                                        at |-> FormatRFC3339(clock)])
        /\ live'  = IF loss = "event" THEN live
                    ELSE [w \in Version |-> [live[w] EXCEPT ![s] = decided(w)]]
        /\ audit' = IF loss \in {"event", "audit"} THEN audit
                    ELSE audit \cup {[session |-> s, seq |-> seq, tool |-> t,
                                      action |-> decided("old").log[seq].action,
                                      at |-> recordedAt]}
        /\ escalated' = IF loss # "event" /\ decided("old").log[seq].action = "escalate"
                        THEN escalated \cup {<<s, t, a>>} ELSE escalated
        /\ UNCHANGED <<pols, approved>> /\ UNCHANGED commandVars

\* A human approves an escalated call.
Approve(s, t, a) ==
    /\ job = "capture" /\ <<s, t, a>> \in escalated \ approved
    /\ approved' = approved \cup {<<s, t, a>>}
    /\ UNCHANGED <<pols, clock, live, escalated, trace, audit, spoiled, received>>
    /\ UNCHANGED commandVars

-----------------------------------------------------------------------------
(* Reading the files.                                                      *)

\* One iteration of groupTraceBySession and of groupAuditBySession: the entry
\* goes to the group of its session, or opens one after the others.
appendToGroup(gs, e) ==
    IF \E g \in 1..Len(gs) : gs[g][1].session = e.session
    THEN [g \in 1..Len(gs) |->
             IF gs[g][1].session = e.session THEN Append(gs[g], e) ELSE gs[g]]
    ELSE Append(gs, <<e>>)

\* Mutant: the order of the file is trusted.
keepFileOrder(q) == {q}

\* sort.Slice by Seq: an arrangement in order, any one, as it is not stable.
sortBySeq(q) ==
    {r \in {[i \in 1..Len(q) |-> q[p[i]]] :
               p \in {p \in [1..Len(q) -> 1..Len(q)] : IsInjective(p)}} :
        \A i, j \in 1..Len(q) : i < j => r[i].seq <= r[j].seq}

\* audit export: ORDER BY recorded_at, and no order among equal times.
Exports ==
    {f \in SetToSeqs(audit) : \A i, j \in 1..Len(f) : i < j => f[i].at <= f[j].at}

\* A file without entries ends the command.
Start(command, file) ==
    /\ job = "capture" /\ file # << >>
    /\ job'   = command
    /\ input' = file
    /\ UNCHANGED <<line, groups, pass, pos, sess, store, results>>
    /\ UNCHANGED captureVars

runSimulate == Start("simulate", trace)
runReplay   == \E f \in Exports : Start("replay", f)

ReadEntry ==
    /\ job \in {"simulate", "replay"} /\ pass = "read" /\ line <= Len(input)
    /\ groups' = appendToGroup(groups, input[line])
    /\ line'   = line + 1
    /\ UNCHANGED <<job, input, pass, pos, sess, store, results>>
    /\ UNCHANGED captureVars

\* The end of groupTraceBySession keeps the file order of each group; that of
\* groupAuditBySession sorts each group.  Then the new policy is evaluated.
EndOfFile ==
    /\ job \in {"simulate", "replay"} /\ pass = "read" /\ line > Len(input)
    /\ IF job = "simulate" THEN groups' = groups
       ELSE groups' \in {h \in [1..Len(groups) -> UNION {sortBySeq(groups[g]) : g \in 1..Len(groups)}] :
                           \A g \in 1..Len(groups) : h[g] \in sortBySeq(groups[g])}
    /\ pass'  = "new"
    /\ input' = << >> /\ line' = 1
    /\ UNCHANGED <<job, pos, sess, store, results>>
    /\ UNCHANGED captureVars

-----------------------------------------------------------------------------
(* evaluateSession and replaySession: one entry per step.                  *)

Entry == groups[pos.group][pos.entry]

\* Mutant: simulate has one Session struct for all groups.
SharedSession == IF job = "replay" /\ pos.entry = 1 THEN NewSession ELSE sess

\* A new Session struct for each group.
CurrentSession == IF pos.entry = 1 THEN NewSession ELSE sess

\* The stages of each command. Neither has Env, Delegation or Content; the
\* database of simulate holds no approvals, and replay does not know arguments.
CommandVerdict(pol, e, cur, log) ==
    Chain(MayUseEvaluator(e.tool, pol),
    Chain(BudgetEvaluator(cur, pol),
    Chain(TaintEvaluator(e.tool, cur, pol),
    Chain(SequenceEvaluator(e.tool, pol, log),
    Chain(RateLimitEvaluator(e.tool, e.at, pol, log),
          IF job = "simulate" THEN EscalationEvaluator(e.tool, e.args, pol, FALSE)
          ELSE "allow")))))

CountsInCommand(action) == action \in {"allow", "shadow_deny"}

\* The Session struct after an entry.
SessionAfter(pol, e, v, cur) ==
    LET one == IF CountsInCommand(Decide(v, e.tool, pol)) THEN 1 ELSE 0
    IN  [calls   |-> cur.calls + one,
         cost    |-> cur.cost + one,
         tainted |-> IF v = "allow" THEN applyTaintMutations(e.tool, cur.tainted, pol)
                     ELSE cur.tainted]

\* The loops over groups and over the entries of a group.
NextPos(p) ==
    IF p.entry = Len(groups[p.group]) THEN [group |-> p.group + 1, entry |-> 1]
    ELSE [group |-> p.group, entry |-> p.entry + 1]

\* The number of a row: simulate counts, replay has the recorded one.
RowSeq(p) == IF job = "simulate" THEN p.entry ELSE groups[p.group][p.entry].seq

Evaluate ==
    LET e   == Entry
        pol == pols[pass]
        v   == CommandVerdict(pol, e, CurrentSession, store[e.session])
        act == Decide(v, e.tool, pol)
        row(action) == [session |-> e.session, seq |-> RowSeq(pos), action |-> action]
    IN  /\ job \in {"simulate", "replay"} /\ pass # "read" /\ pos.group <= Len(groups)
        /\ sess'  = SessionAfter(pol, e, v, CurrentSession)
        /\ store' = [store EXCEPT ![e.session] =
                        Append(@, [tool |-> e.tool, action |-> act, at |-> e.at])]
        /\ results' = [w \in Version |->
                          IF w = pass THEN Append(results[w], row(act))
                          ELSE IF job = "replay" THEN Append(results[w], row(e.action))
                          ELSE results[w]]
        /\ pos' = NextPos(pos)
        /\ UNCHANGED <<job, input, line, groups, pass>> /\ UNCHANGED captureVars

\* simulate --old-policy goes on with the old policy and a new database.
OldPass ==
    /\ job = "simulate" /\ pass = "new" /\ pos.group > Len(groups)
    /\ pass'  = "old"
    /\ pos'   = [group |-> 1, entry |-> 1]
    /\ sess'  = NewSession
    /\ store' = [s \in Session |-> << >>]
    /\ UNCHANGED <<job, input, line, groups, results>> /\ UNCHANGED captureVars

\* The rows of the report: old and new results paired by position.
mergeResults ==
    [i \in 1..Len(results.new) |->
        [session |-> results.new[i].session,
         seq     |-> results.new[i].seq,
         new     |-> results.new[i].action,
         old     |-> IF i <= Len(results.old) THEN results.old[i].action ELSE ""]]

Next ==
    \/ \E s \in Session, t \in Tool, a \in Args :
          \/ Approve(s, t, a)
          \/ \E loss \in Loss : \E now \in clock..MaxTime : Capture(s, t, a, loss, now)
    \/ runSimulate
    \/ runReplay
    \/ ReadEntry
    \/ EndOfFile
    \/ Evaluate
    \/ OldPass

Spec == Init /\ [][Next]_vars

-----------------------------------------------------------------------------
(* Properties.                                                             *)

\* The rules that no command looks at, or looks at with other timestamps.
Visible(pol) ==
    /\ EnvEvaluator(AgentEnv, pol) = "allow"
    /\ \A t \in Tool : pol.tools[t].neverWhen = << >> /\ pol.tools[t].rateLimit = {}

\* The file lost nothing of the session up to call i.
Intact(file, s, i) ==
    \A x \in spoiled : x.file = file /\ x.session = s => i < x.call

\* So far, column w of the rows of session s holds the proxy's decisions, up to
\* the first call at which the file lost something.
Agrees(w, s, file) ==
    \A i \in 1..Len(mergeResults) :
        LET row == mergeResults[i]
        IN  row.session = s /\ Intact(file, s, row.seq) =>
                \/ row[w] = ""
                \/ /\ row.seq \in 1..Len(live[w][s].log)
                   /\ row[w] = live[w][s].log[row.seq].action

\* simulate reports, for either policy, the decisions of a proxy that serves
\* it and receives the same calls: for policies without never_when and
\* rate_limit whose require_env the agent meets, and sessions none of whose
\* calls was approved by a human.  In a session of which a trace entry was lost,
\* or a call traced that was never evaluated, that is so before this call; and
\* the other sessions do not suffer.
SimulatePredicts ==
    job = "simulate" =>
        \A w \in Version, s \in Session :
            /\ Visible(pols[w])
            /\ \A t \in Tool, a \in Args : <<s, t, a>> \notin approved
            => Agrees(w, s, "trace")

\* audit replay reports the decisions of a proxy that serves the new policy
\* and receives the same calls, beside the decisions that were taken: for such
\* policies without escalate_when, in whatever order the audit log was exported,
\* and in each session up to the first call without an audit record.
ReplayPredicts ==
    job = "replay" =>
        \A s \in Session :
            /\ Visible(pols.new)
            /\ \A t \in Tool : pols.new.tools[t].escalateWhen = {}
            => \A w \in Version : Agrees(w, s, "audit")
==============================================================================
