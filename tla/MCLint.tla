------------------------------- MODULE MCLint -------------------------------
(* Policy files and answers for model checking Lint and Wizard.            *)
EXTENDS Wizard

CONSTANTS x, y, z, status, arg

Real == Tool \ VirtualTool

Block == [mode |-> "block", requireEnv |-> "", mayUse |-> Real, maxCalls |-> 0,
          maxCost |-> 0, maxHistory |-> 0, tools |-> [t \in Tool |-> ZeroToolPolicy]]

\* Every only_after graph.
GraphFiles ==
    {[policy |-> [Block EXCEPT !.tools =
                     [t \in Tool |-> IF t \in Real THEN [ZeroToolPolicy EXCEPT !.onlyAfter = g[t]]
                                     ELSE ZeroToolPolicy]],
      defined |-> {t \in Real : g[t] # {}}] : g \in [Real -> SUBSET Real]}

\* x after y and z, with one of the three left out of may_use.
FanFiles ==
    {[policy |-> [Block EXCEPT !.mayUse = Real \ {u}, !.tools[x].onlyAfter = {y, z}],
      defined |-> {x, y}] : u \in Real}

Bad   == [a \in Args |-> "error"]
Quiet == [a \in Args |-> "quiet"]

\* One rule of each other kind on x, valid and not, in each mode.
RuleFiles ==
    {[policy |-> [Block EXCEPT !.mode = m, !.tools[x] = r], defined |-> {x, y}] :
        m \in {"block", "shadow"},
        r \in {[ZeroToolPolicy EXCEPT !.escalateWhen = {p}] : p \in {Bad, Quiet}}
         \cup {[ZeroToolPolicy EXCEPT !.neverWhen = <<Quiet, p>>, !.neverWhenAll = b] :
                  p \in {Bad, Quiet}, b \in BOOLEAN}
         \cup {[ZeroToolPolicy EXCEPT !.rateLimit = {[max |-> n, window |-> 1 - n]}] :
                  n \in {0, 1}}
         \cup {[ZeroToolPolicy EXCEPT !.priorN = {[tool |-> y, count |-> n]}] : n \in {0, 1}}
         \cup {[ZeroToolPolicy EXCEPT !.neverAfter = {y}]}}

Answer(tools, prerequisites) ==
    [named |-> TRUE, tools |-> tools, highRisk |-> DOMAIN prerequisites,
     prerequisites |-> prerequisites, calls |-> {}, cost |-> {4}]

\* x, y or both high-risk with all kinds of prerequisites, `status` (the virtual
\* tool) among the tools of the user or not; and answers that are refused.
MCAnswers ==
    UNION {{Answer(T, g) : g \in UNION {[H -> SUBSET T] : H \in SUBSET {x, y}}} :
              T \in {{x, y, z}, {x, y, status}}}
    \cup {Answer({x}, [t \in {y} |-> {}]), Answer({x}, [t \in {x} |-> {y}]),
          [Answer({x}, << >>) EXCEPT !.calls = {0}]}

MCFiles == GraphFiles \cup FanFiles \cup RuleFiles \cup GeneratedFiles
MCBad   == {Bad}
=============================================================================
