------------------------------- MODULE Wizard -------------------------------
(***************************************************************************)
(* `truebearing init` (cmd/init.go): five answers become a policy file,    *)
(* which is linted before it is written.  The generated files are policy   *)
(* files like any other: Lint runs the linter on them and then a session,  *)
(* and the properties below say that the questions were answered: a file   *)
(* is refused only for the reason the wizard names, and the guards asked   *)
(* for hold although the file is in shadow mode.                           *)
(*                                                                         *)
(* An answer is what the user typed: sets of tools (parseCSV drops empty   *)
(* and repeated names) and numbers.  A number is a set: {} for Enter, {0}  *)
(* for a text that is not a positive number.  Money is counted in tenths   *)
(* of a cent, the cost of one call.                                        *)
(***************************************************************************)
EXTENDS Lint

CONSTANTS
    Answers,        \* what users answer
    DefaultCalls,   \* the default of question 5
    DefaultCost,
    HistoryLimit    \* max_history of every generated file

ASSUME WizardAssumption ==
    /\ \A a \in Answers :
          /\ a.tools \in SUBSET Tool /\ a.highRisk \in SUBSET Tool
          /\ a.prerequisites \in [a.highRisk -> SUBSET Tool]
          /\ a.calls \in SUBSET Nat /\ a.cost \in SUBSET Nat
    /\ {DefaultCalls, DefaultCost, HistoryLimit} \subseteq Nat

\* parsePositiveInt and parsePositiveFloat.
Number(answer, default) == IF answer = {} THEN default ELSE CHOOSE n \in answer : TRUE
Positive(answer)        == 0 \notin answer

\* "%.2f": rounded to a cent. An answer below half a cent becomes 0, no limit.
FormatCost(cost) == ((cost + 5) \div 10) * 10

\* The checks of runInit before anything is generated.
Valid(a) ==
    /\ a.named                                  \* question 1, Enter is refused
    /\ a.tools # {}
    /\ a.highRisk \subseteq a.tools
    /\ \A t \in a.highRisk : a.prerequisites[t] \subseteq a.tools
    /\ Positive(a.calls) /\ Positive(a.cost)

\* Mutant: the mode of a high-risk tool is left to the file's.
GuardedToolUnenforced(a, t) == [ZeroToolPolicy EXCEPT !.onlyAfter = a.prerequisites[t]]

\* The entry of a high-risk tool.
GuardedTool(a, t) ==
    [ZeroToolPolicy EXCEPT !.mode = "block", !.onlyAfter = a.prerequisites[t]]

\* Mutant: only tools with an entry of their own may be used.
MayUseListHighRisk(a) == a.highRisk \cup VirtualTool

MayUseList(a) == a.tools \cup VirtualTool

generatePolicyYAML(a) ==
    [policy  |-> [mode |-> "shadow", requireEnv |-> "", mayUse |-> MayUseList(a),
                  maxCalls   |-> Number(a.calls, DefaultCalls),
                  maxCost    |-> FormatCost(Number(a.cost, DefaultCost)),
                  maxHistory |-> HistoryLimit,
                  tools |-> [t \in Tool |-> IF t \in a.highRisk THEN GuardedTool(a, t)
                                            ELSE ZeroToolPolicy]],
     defined |-> a.highRisk \cup (a.tools \ VirtualTool)]

\* runInit writes the file, unless an ERROR is found.
GeneratedFiles == {generatePolicyYAML(a) : a \in {b \in Answers : Valid(b)}}

\* The answers that a generated file comes from.
AnswersOf == [f \in GeneratedFiles |-> {a \in Answers : Valid(a) /\ generatePolicyYAML(a) = f}]

Answered == IF file \in GeneratedFiles THEN AnswersOf[file] ELSE {}

-----------------------------------------------------------------------------
(* Properties.                                                             *)

\* runInit: "any lint ERRORs (e.g. L013 circular dependency from two high-risk
\* tools that list each other as prerequisites)": a set of answers is refused
\* exactly if high-risk tools wait for each other, and for no other reason.
RefusedOnlyForCycles ==
    \A a \in Answered : verdict # "running" =>
        (HasErrors <=> \E S \in SUBSET a.highRisk :
                           S # {} /\ \A t \in S : a.prerequisites[t] \cap S # {})

\* generatePolicyYAML: "Even when global mode is shadow, these tools always
\* enforce": in every session served under a generated file, a high-risk call
\* that went through came after a call of each of its prerequisites.
GuardsHoldInShadow ==
    \A a \in Answered :
        \A i \in 1..Len(log) : log[i].tool \in a.highRisk /\ Counts(log[i]) =>
            \A p \in a.prerequisites[log[i].tool] :
                \E j \in 1..(i - 1) : log[j].tool = p /\ Counts(log[j])
=============================================================================
