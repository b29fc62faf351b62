------------------------------- MODULE Engine -------------------------------
(***************************************************************************)
(* The policy evaluation pipeline of internal/engine: the evaluators, the  *)
(* rule that combines their verdicts, and the taint mutation of an allowed *)
(* call.  Everything here is a function of the call, of the session        *)
(* snapshot the handler loaded and of what the evaluator reads from the    *)
(* store; the modules that extend this one say when those reads happen.    *)
(*                                                                         *)
(* Data.  A tool is a model value, the raw arguments of a call are one     *)
(* member of Args, and a predicate on arguments (never_when,               *)
(* escalate_when) is the table of its outcomes: "fires", "quiet", or       *)
(* "error" (argument missing, bad operator, bad pattern).  A Go pointer    *)
(* that may be nil is a set with at most one element.  pol.tools is total: *)
(* reading a missing key of the Go map yields the zero ToolPolicy, which   *)
(* no evaluator distinguishes from a missing one.  Costs are counted in    *)
(* units of costPerToolCall, and 0 means "no limit", as in the code.       *)
(***************************************************************************)
EXTENDS Naturals, Sequences, FiniteSets

CONSTANTS
    Tool,       \* tool names
    Args        \* raw arguments of a call

Mode      == {"", "shadow", "block"}
Outcome   == {"fires", "quiet", "error"}
Predicate == [Args -> Outcome]

\* What one evaluator returns: an Action, or an error.
Verdict == {"allow", "deny", "escalate", "error"}

\* What the pipeline returns, and what a session event records.
Action == {"allow", "deny", "escalate", "shadow_deny"}

ToolPolicy ==
    [mode         : Mode,
     onlyAfter    : SUBSET Tool,
     neverAfter   : SUBSET Tool,
     priorN       : SUBSET [tool : Tool, count : Nat],
     applies      : BOOLEAN,
     clears       : BOOLEAN,
     neverWhen    : Seq(Predicate),
     neverWhenAll : BOOLEAN,
     rateLimit    : SUBSET [max : Nat, window : Nat],
     escalateWhen : SUBSET Predicate]

Policy ==
    [mode       : Mode,
     requireEnv : STRING,
     mayUse     : SUBSET Tool,
     maxCalls   : Nat,
     maxCost    : Nat,
     maxHistory : Nat,
     tools      : [Tool -> ToolPolicy]]

-----------------------------------------------------------------------------
(* Stages that look only at the call, the snapshot and the policy.         *)

EnvEvaluator(env, pol) ==
    IF pol.requireEnv \in {"", env} THEN "allow" ELSE "deny"

MayUseEvaluator(tool, pol) ==
    IF tool \in pol.mayUse THEN "allow" ELSE "deny"

\* Mutant: the ceiling itself still passes.
BudgetExceededLate(sess, pol) ==
    \/ pol.maxCalls > 0 /\ sess.calls > pol.maxCalls
    \/ pol.maxCost  > 0 /\ sess.cost  > pol.maxCost

BudgetExceeded(sess, pol) ==
    \/ pol.maxCalls > 0 /\ sess.calls >= pol.maxCalls
    \/ pol.maxCost  > 0 /\ sess.cost  >= pol.maxCost

BudgetEvaluator(sess, pol) ==
    IF BudgetExceeded(sess, pol) THEN "deny" ELSE "allow"

taintApplyingTools(pol) == {t \in Tool : pol.tools[t].applies}

TaintEvaluator(tool, sess, pol) ==
    IF /\ sess.tainted
       /\ ~ pol.tools[tool].clears
       /\ pol.tools[tool].neverAfter \cap taintApplyingTools(pol) # {}
    THEN "deny" ELSE "allow"

\* Mutant: a predicate that fails is passed over.
evalNeverWhenAnyOpen(preds, args) ==
    IF \E i \in 1..Len(preds) : preds[i][args] = "fires" THEN "deny" ELSE "allow"

\* never_when_match: any. The predicates run in order and the first that
\* fires or fails decides.
evalNeverWhenAny(preds, args) ==
    LET stops == {i \in 1..Len(preds) : preds[i][args] # "quiet"}
    IN  IF stops = {} THEN "allow"
        ELSE LET first == CHOOSE i \in stops : \A j \in stops : i <= j
             IN  IF preds[first][args] = "error" THEN "error" ELSE "deny"

\* never_when_match: all. The first predicate that does not fire allows.
evalNeverWhenAll(preds, args) ==
    LET stops == {i \in 1..Len(preds) : preds[i][args] # "fires"}
    IN  IF stops = {} THEN "deny"
        ELSE LET first == CHOOSE i \in stops : \A j \in stops : i <= j
             IN  IF preds[first][args] = "error" THEN "error" ELSE "allow"

ContentEvaluator(tool, args, pol) ==
    LET tp == pol.tools[tool]
    IN  IF tp.neverWhen = << >> THEN "allow"
        ELSE IF tp.neverWhenAll THEN evalNeverWhenAll(tp.neverWhen, args)
             ELSE evalNeverWhenAny(tp.neverWhen, args)

-----------------------------------------------------------------------------
(* Stages that read the store. `log` is the session's event log at the     *)
(* moment of the read.                                                     *)

\* An event that counts as a call made: denied and escalated ones do not.
Counts(e) == e.action \in {"allow", "shadow_deny"}

CallsOf(log, tool) ==
    {i \in 1..Len(log) : log[i].tool = tool /\ Counts(log[i])}

NeedsHistory(tool, pol) ==
    LET tp == pol.tools[tool]
    IN  tp.onlyAfter # {} \/ tp.neverAfter # {} \/ tp.priorN # {}

\* Mutant: never_after is left to the taint stage.
SequenceWithoutNeverAfter(tool, pol, log) ==
    LET tp == pol.tools[tool]
    IN  IF /\ \A t \in tp.onlyAfter : CallsOf(log, t) # {}
           /\ \A r \in tp.priorN : Cardinality(CallsOf(log, r.tool)) >= r.count
        THEN "allow" ELSE "deny"

\* Mutant: requires_prior_n off by one.
SequencePriorNLate(tool, pol, log) ==
    LET tp == pol.tools[tool]
    IN  IF /\ \A t \in tp.onlyAfter  : CallsOf(log, t) # {}
           /\ \A t \in tp.neverAfter : CallsOf(log, t) = {}
           /\ \A r \in tp.priorN : Cardinality(CallsOf(log, r.tool)) + 1 >= r.count
        THEN "allow" ELSE "deny"

SequenceEvaluator(tool, pol, log) ==
    LET tp == pol.tools[tool]
    IN  IF /\ \A t \in tp.onlyAfter  : CallsOf(log, t) # {}
           /\ \A t \in tp.neverAfter : CallsOf(log, t) = {}
           /\ \A r \in tp.priorN : Cardinality(CallsOf(log, r.tool)) >= r.count
        THEN "allow" ELSE "deny"

\* recorded_at >= requestedAt - window, written without negative numbers.
InWindow(e, requestedAt, window) == e.at + window >= requestedAt

\* Mutant: one call more than max_calls.
RateLimitLate(tool, requestedAt, pol, log) ==
    IF \E rl \in pol.tools[tool].rateLimit :
          Cardinality({i \in CallsOf(log, tool) :
                          InWindow(log[i], requestedAt, rl.window)}) > rl.max
    THEN "deny" ELSE "allow"

RateLimitEvaluator(tool, requestedAt, pol, log) ==
    IF \E rl \in pol.tools[tool].rateLimit :
          Cardinality({i \in CallsOf(log, tool) :
                          InWindow(log[i], requestedAt, rl.window)}) >= rl.max
    THEN "deny" ELSE "allow"

\* `approved`: HasApprovedEscalation for this session, tool and arguments.
EscalationEvaluator(tool, args, pol, approved) ==
    LET outcomes == {p[args] : p \in pol.tools[tool].escalateWhen}
    IN  IF "error" \in outcomes THEN "error"
        ELSE IF "fires" \in outcomes /\ ~approved THEN "escalate" ELSE "allow"

-----------------------------------------------------------------------------
(* Pipeline.Evaluate.                                                      *)

\* A later stage runs only if the earlier one allowed.
Chain(first, rest) == IF first = "allow" THEN rest ELSE first

effectiveMode(pol, tool) ==
    IF pol.tools[tool].mode # "" THEN pol.tools[tool].mode ELSE pol.mode

\* Mutant: an evaluator error is not turned into a denial.
DecideUnguarded(verdict, tool, pol) ==
    IF verdict # "allow" /\ effectiveMode(pol, tool) = "shadow"
    THEN "shadow_deny" ELSE verdict

\* The decision for the verdict the stages ended with: an error denies, in
\* shadow mode too; every other refusal becomes shadow_deny in shadow mode.
Decide(verdict, tool, pol) ==
    CASE verdict = "allow" -> "allow"
      [] verdict = "error" -> "deny"
      [] OTHER -> IF effectiveMode(pol, tool) = "shadow"
                  THEN "shadow_deny" ELSE verdict

\* The taint flag after an allowed call: clears first, then applies.
applyTaintMutations(tool, tainted, pol) ==
    LET tp == pol.tools[tool]
    IN  tp.applies \/ (tainted /\ ~tp.clears)
=============================================================================
