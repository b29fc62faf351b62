-------------------------------- MODULE Lint --------------------------------
(***************************************************************************)
(* The ERROR rules of the policy linter (internal/policy/lint.go), and the *)
(* sessions of a proxy that serves the linted file.  Rule L013, the search *)
(* for circular only_after dependencies, is the three-colour depth-first   *)
(* search of the code, one step per loop iteration, because what it        *)
(* reports depends on Go's map order.  The other ERROR rules are           *)
(* predicates on the file.  WARNING and INFO rules only print.             *)
(*                                                                         *)
(* A file is the parsed policy and the set of tools with an entry under    *)
(* tools:.  In a Nat field 0 stands for every non-positive value.          *)
(***************************************************************************)
EXTENDS Engine

CONSTANTS
    File,           \* the policy files considered
    BadPredicate,   \* predicates whose operator or pattern is not valid
    VirtualTool,    \* check_escalation_status, which the proxy answers itself
    MaxCalls        \* bound: calls of the session

ZeroToolPolicy ==
    [mode |-> "", onlyAfter |-> {}, neverAfter |-> {}, priorN |-> {},
     applies |-> FALSE, clears |-> FALSE, neverWhen |-> << >>,
     neverWhenAll |-> FALSE, rateLimit |-> {}, escalateWhen |-> {}]

ASSUME LintAssumption ==
    /\ \A f \in File :
          /\ f.policy.mayUse \in SUBSET Tool
          /\ f.defined \in SUBSET Tool
          /\ \A t \in Tool :
                /\ f.policy.tools[t].onlyAfter \in SUBSET Tool
                /\ t \notin f.defined => f.policy.tools[t] = ZeroToolPolicy
    /\ \A p \in BadPredicate : \A a \in Args : p[a] = "error"
    /\ MaxCalls \in Nat

VARIABLES
    file,       \* the file under the linter, and then under the proxy
    color,      \* of each node of the search
    path,       \* nodes on the search stack, outermost first
    pending,    \* neighbours a node on the stack has still to look at
    verdict,    \* of L013: "running", "acyclic" or "cycle"
    cyclePath,  \* the cycle reported, its first node repeated at the end
    log         \* session events, once the file is served

vars == <<file, color, path, pending, verdict, cyclePath, log>>

-----------------------------------------------------------------------------
(* The rules that look at one tool at a time.                              *)

Rules(f, t)     == f.policy.tools[t]
lintL001(f)     == f.policy.mayUse = {}
lintL002(f, t)  == t \in f.defined /\ t \notin f.policy.mayUse

\* Mutant: one dependency that can be called is enough.
lintL003Any(f, t) ==
    Rules(f, t).onlyAfter # {} /\ Rules(f, t).onlyAfter \cap f.policy.mayUse = {}

lintL003(f, t)  == ~ (Rules(f, t).onlyAfter \subseteq f.policy.mayUse)
lintL004(f, t)  == ~ (Rules(f, t).neverAfter \subseteq f.policy.mayUse)
lintL010(f, t)  == \E r \in Rules(f, t).priorN : r.count = 0
lintL012(f, t)  == Rules(f, t).escalateWhen \cap BadPredicate # {}
lintL014(f, t)  == \E i \in 1..Len(Rules(f, t).neverWhen) :
                      Rules(f, t).neverWhen[i] \in BadPredicate
lintL017(f, t)  == \E r \in Rules(f, t).rateLimit : r.window = 0
lintL018(f, t)  == \E r \in Rules(f, t).rateLimit : r.max = 0

\* An ERROR was reported: `policy lint` exits with 1, a reload is refused.
HasErrors ==
    \/ lintL001(file)
    \/ verdict = "cycle"
    \/ \E t \in Tool :
          \/ lintL002(file, t) \/ lintL003(file, t) \/ lintL004(file, t)
          \/ lintL010(file, t) \/ lintL012(file, t) \/ lintL014(file, t)
          \/ lintL017(file, t) \/ lintL018(file, t)

-----------------------------------------------------------------------------
(* lintL013.                                                               *)

adj(f, n) == Rules(f, n).onlyAfter

Init ==
    /\ file \in File
    /\ color     = [t \in Tool |-> "white"]
    /\ path      = << >>
    /\ pending   = [t \in Tool |-> {}]
    /\ verdict   = "running"
    /\ cyclePath = << >>
    /\ log       = << >>

Top == path[Len(path)]

\* The outer loop starts a search at an unvisited node; map order is arbitrary.
StartSearch(n) ==
    /\ verdict = "running" /\ path = << >>
    /\ n \in file.defined /\ color[n] = "white"
    /\ color'   = [color EXCEPT ![n] = "gray"]
    /\ path'    = <<n>>
    /\ pending' = [pending EXCEPT ![n] = adj(file, n)]
    /\ UNCHANGED <<file, verdict, cyclePath, log>>

\* A white neighbour is searched next.
Descend(n) ==
    /\ verdict = "running" /\ path # << >>
    /\ n \in pending[Top] /\ color[n] = "white"
    /\ color'   = [color EXCEPT ![n] = "gray"]
    /\ path'    = Append(path, n)
    /\ pending' = [pending EXCEPT ![Top] = @ \ {n}, ![n] = adj(file, n)]
    /\ UNCHANGED <<file, verdict, cyclePath, log>>

\* Mutant: the loop does not advance past an explored neighbour.
SkipForever(n) ==
    /\ verdict = "running" /\ path # << >>
    /\ n \in pending[Top] /\ color[n] = "black"
    /\ UNCHANGED vars

\* A black neighbour is passed over.
Skip(n) ==
    /\ verdict = "running" /\ path # << >>
    /\ n \in pending[Top] /\ color[n] = "black"
    /\ pending' = [pending EXCEPT ![Top] = @ \ {n}]
    /\ UNCHANGED <<file, color, path, verdict, cyclePath, log>>

\* Mutant: the whole stack is reported.
CycleFromWholeStack(n) == Append(path, n)

\* The stack from the node met again, closed with that node.
CycleFrom(n) ==
    LET start == CHOOSE i \in 1..Len(path) : path[i] = n
    IN  Append(SubSeq(path, start, Len(path)), n)

\* A gray neighbour is on the stack: the search ends with a cycle.
BackEdge(n) ==
    /\ verdict = "running" /\ path # << >>
    /\ n \in pending[Top] /\ color[n] = "gray"
    /\ cyclePath' = CycleFrom(n)
    /\ verdict'   = "cycle"
    /\ UNCHANGED <<file, color, path, pending, log>>

\* All neighbours are done.
Leave ==
    /\ verdict = "running" /\ path # << >>
    /\ pending[Top] = {}
    /\ color' = [color EXCEPT ![Top] = "black"]
    /\ path'  = SubSeq(path, 1, Len(path) - 1)
    /\ UNCHANGED <<file, pending, verdict, cyclePath, log>>

\* Mutant: one search is taken to reach every node.
FinishAfterFirst ==
    /\ verdict = "running" /\ path = << >>
    /\ file.defined = {} \/ \E n \in file.defined : color[n] # "white"
    /\ verdict' = "acyclic"
    /\ UNCHANGED <<file, color, path, pending, cyclePath, log>>

Finish ==
    /\ verdict = "running" /\ path = << >>
    /\ \A n \in file.defined : color[n] # "white"
    /\ verdict' = "acyclic"
    /\ UNCHANGED <<file, color, path, pending, cyclePath, log>>

LintStep ==
    \/ \E n \in Tool : StartSearch(n) \/ Descend(n) \/ Skip(n) \/ BackEdge(n)
    \/ Leave
    \/ Finish

-----------------------------------------------------------------------------
(* The linted file in force.  A proxy started with it serves it whatever   *)
(* the linter said: only a reload lints.                                   *)

MayBeCalled(t) ==
    Chain(MayUseEvaluator(t, file.policy), SequenceEvaluator(t, file.policy, log))

\* Stages that read the clock, the counters, the taint flag or the approvals
\* may refuse as well; they are not what the rules above are about.
OtherVerdicts == {"allow", "deny", "escalate"}

\* A call that reaches the pipeline: a virtual tool is answered before and leaves
\* no event.
Call(t, a) ==
    /\ verdict # "running" /\ Len(log) < MaxCalls /\ t \notin VirtualTool
    /\ \E other \in OtherVerdicts :
          LET v == Chain(MayBeCalled(t),
                   Chain(ContentEvaluator(t, a, file.policy),
                   Chain(EscalationEvaluator(t, a, file.policy, TRUE), other)))
          IN  log' = Append(log, [tool |-> t, action |-> Decide(v, t, file.policy)])
    /\ UNCHANGED <<file, color, path, pending, verdict, cyclePath>>

Next == LintStep \/ \E t \in Tool : \E a \in Args : Call(t, a)

Spec     == Init /\ [][Next]_vars
FairSpec == Spec /\ WF_vars(LintStep)

-----------------------------------------------------------------------------
(* Properties.                                                             *)

\* A set of tools that wait for each other: each needs a member of the set
\* before it.  In a finite graph one exists exactly if there is a cycle.
Circular(S) == S # {} /\ \A t \in S : adj(file, t) \cap S # {}

\* L013 reports an error if and only if some only_after dependencies are
\* circular, whatever order the maps are walked in.
L013Correct ==
    /\ verdict = "cycle"   => \E S \in SUBSET Tool : Circular(S)
    /\ verdict = "acyclic" => \A S \in SUBSET Tool : ~ Circular(S)

\* The path L013 prints is a cycle of only_after dependencies: it returns to
\* its first tool and each tool depends on the next.
CyclePathIsCycle ==
    verdict = "cycle" =>
        /\ Len(cyclePath) > 1
        /\ cyclePath[1] = cyclePath[Len(cyclePath)]
        /\ \A i \in 1..(Len(cyclePath) - 1) : cyclePath[i + 1] \in adj(file, cyclePath[i])

Called == {log[i].tool : i \in {j \in 1..Len(log) : Counts(log[j])}}

\* The only sequence rule is only_after, and it names no virtual tool.
OnlyAfterOnly ==
    \A t \in Tool : /\ Rules(file, t).neverAfter = {} /\ Rules(file, t).priorN = {}
                    /\ Rules(file, t).onlyAfter \cap VirtualTool = {}

Uncalled == file.policy.mayUse \ (VirtualTool \cup Called)

\* A file without errors never wedges a session: as long as tools of may_use
\* have not been called, whatever calls were made and refused before, one of
\* them passes the may_use and sequence stages now.  For files whose only
\* sequence rule is only_after, and which wait for no virtual tool: the linter
\* does not look for dead ends made by never_after, by requires_prior_n or by
\* an only_after of check_escalation_status, whose calls are not recorded.
NeverWedged ==
    verdict # "running" /\ ~ HasErrors /\ OnlyAfterOnly
        => Uncalled = {} \/ \E t \in Uncalled : MayBeCalled(t) = "allow"

Blocking == \A t \in Tool : effectiveMode(file.policy, t) # "shadow"

\* Tools that L002, L003, L012, L013, L014 or L015 blame.
Blamed ==
    {t \in Tool : \/ lintL002(file, t) \/ lintL003(file, t) \/ lintL012(file, t)
                  \/ lintL014(file, t) /\ ~ Rules(file, t).neverWhenAll
                  \/ verdict = "cycle" /\ \E i \in 1..Len(cyclePath) : cyclePath[i] = t}

\* No false alarm: where nothing is in shadow mode, a tool that these rules
\* blame is never called, in any session served under the file.  (An invalid
\* predicate under never_when_match: all does not block its tool, because an
\* earlier predicate that does not match allows the call.)
BlamedToolsAreDead == Blocking => Called \cap Blamed = {}

\* The search ends.
LintTerminates == <>(verdict # "running")
=============================================================================
