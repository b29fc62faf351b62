----------------------------- MODULE LintProofs -----------------------------
(***************************************************************************)
(* What the ERROR rules of the linter are worth, for every set of tools    *)
(* and every policy file, and what the files that init writes promise.     *)
(***************************************************************************)
EXTENDS Wizard, SequenceTheorems, TLAPS

LintTypeOK ==
    /\ file      \in File
    /\ color     \in [Tool -> {"white", "gray", "black"}]
    /\ path      \in Seq(Tool)
    /\ pending   \in [Tool -> SUBSET Tool]
    /\ verdict   \in {"running", "acyclic", "cycle"}
    /\ cyclePath \in Seq(Tool)
    /\ log       \in Seq([tool : Tool, action : Action])

\* The gray nodes are those on the stack, each there once, and each node of
\* the stack depends on the next.
StackIsGray ==
    /\ \A i \in 1..Len(path) : color[path[i]] = "gray"
    /\ \A t \in Tool : color[t] = "gray" => \E i \in 1..Len(path) : path[i] = t
    /\ \A i, j \in 1..Len(path) : path[i] = path[j] => i = j
    /\ \A i \in 1..(Len(path) - 1) : path[i + 1] \in adj(file, path[i])

\* A neighbour of a node on the stack is still to be looked at, or black, or
\* the next node of the stack.
StackProgress ==
    \A i \in 1..Len(path) :
        /\ pending[path[i]] \subseteq adj(file, path[i])
        /\ \A m \in adj(file, path[i]) :
              \/ m \in pending[path[i]]
              \/ color[m] = "black"
              \/ i < Len(path) /\ m = path[i + 1]

\* What has been explored leads to explored nodes only, and is free of cycles.
BlackClosed  == \A t \in Tool : color[t] = "black" =>
                    \A m \in adj(file, t) : color[m] = "black"
BlackAcyclic == \A S \in SUBSET Tool :
                    (\A t \in S : color[t] = "black") => ~ Circular(S)

Reported ==
    /\ verdict = "cycle"   => CyclePathIsCycle
    /\ verdict = "acyclic" => \A S \in SUBSET Tool : ~ Circular(S)

SearchInv == LintTypeOK /\ StackIsGray /\ StackProgress /\ BlackClosed
                /\ BlackAcyclic /\ Reported

-----------------------------------------------------------------------------

\* The dependencies of a tool are tools.
LEMMA AdjType == ASSUME LintTypeOK, NEW t \in Tool PROVE adj(file, t) \in SUBSET Tool
BY LintAssumption DEF LintTypeOK, adj, Rules

\* What SubSeq leaves when a node is popped off the stack.
LEMMA AllButLast ==
    ASSUME NEW S, NEW s \in Seq(S), Len(s) \in Nat \ {0}
    PROVE  LET f == SubSeq(s, 1, Len(s) - 1)
           IN  /\ f \in Seq(S) /\ Len(f) = Len(s) - 1
               /\ \A i \in 1..Len(f) : f[i] = s[i]
<1> DEFINE n == Len(s) - 1
<1>1. n \in Nat /\ \A i \in 1..n : s[i] \in S
  OBVIOUS
<1> HIDE DEF n
<1>2. /\ SubSeq(s, 1, n) \in Seq(S)
      /\ Len(SubSeq(s, 1, n)) = IF 1 <= n THEN n - 1 + 1 ELSE 0
      /\ \A i \in 1..(n - 1 + 1) : SubSeq(s, 1, n)[i] = s[1 + i - 1]
  BY <1>1, SubSeqProperties
<1>3. Len(SubSeq(s, 1, n)) = n
  BY <1>1, <1>2
<1>4. \A i \in 1..n : SubSeq(s, 1, n)[i] = s[i]
  <2> TAKE i \in 1..n
  <2>1. i \in 1..(n - 1 + 1) /\ 1 + i - 1 = i
    BY <1>1
  <2> QED
    BY <1>2, <2>1
<1> QED
  BY <1>2, <1>3, <1>4 DEF n

\* Before the first search nothing is gray or black.
LEMMA SearchInit == Init => SearchInv
<1> SUFFICES ASSUME Init PROVE SearchInv
  OBVIOUS
<1>1. LintTypeOK
  BY DEF Init, LintTypeOK
<1>2. StackIsGray /\ StackProgress /\ BlackClosed /\ Reported
  BY DEF Init, StackIsGray, StackProgress, BlackClosed, Reported
<1>3. BlackAcyclic
  BY DEF Init, BlackAcyclic, Circular
<1> QED
  BY <1>1, <1>2, <1>3 DEF SearchInv

\* Pipeline.Evaluate turns every verdict, errors included, into an action.
LEMMA DecideType ==
    ASSUME NEW v \in Verdict, NEW t, NEW p PROVE Decide(v, t, p) \in Action
BY DEF Verdict, Decide, Action

\* The verdict a call of the session ends with is one of the four.
LEMMA ChainType ==
    ASSUME NEW u \in Verdict, NEW v \in Verdict PROVE Chain(u, v) \in Verdict
BY DEF Chain

\* What the stages that a session of this module runs can return.
LEMMA StageTypes ==
    ASSUME NEW t, NEW a, NEW p, NEW lg, NEW b
    PROVE  /\ MayUseEvaluator(t, p) \in {"allow", "deny"}
           /\ SequenceEvaluator(t, p, lg) \in {"allow", "deny"}
           /\ ContentEvaluator(t, a, p) \in {"allow", "deny", "error"}
           /\ EscalationEvaluator(t, a, p, b) \in Verdict
<1>1. MayUseEvaluator(t, p) \in {"allow", "deny"}
  BY DEF MayUseEvaluator
<1>2. SequenceEvaluator(t, p, lg) \in {"allow", "deny"}
  BY DEF SequenceEvaluator
<1>3. \A q : evalNeverWhenAll(q, a) \in {"allow", "deny", "error"}
  BY Zenon DEF evalNeverWhenAll
<1>4. \A q : evalNeverWhenAny(q, a) \in {"allow", "deny", "error"}
  BY Zenon DEF evalNeverWhenAny
<1>5. ContentEvaluator(t, a, p) \in {"allow", "deny", "error"}
  BY <1>3, <1>4 DEF ContentEvaluator
<1>6. EscalationEvaluator(t, a, p, b) \in Verdict
  BY DEF EscalationEvaluator, Verdict
<1> QED
  BY <1>1, <1>2, <1>5, <1>6

-----------------------------------------------------------------------------
(* The search, one lemma per action that moves it.                         *)

\* A new search puts one white node on the empty stack.
LEMMA StartSearchStep ==
    ASSUME SearchInv, NEW n \in Tool, StartSearch(n) PROVE SearchInv'
<1> USE DEF StartSearch
<1>0. file' = file /\ \A t \in Tool : adj(file, t) \in SUBSET Tool
  BY AdjType DEF SearchInv
<1>1. LintTypeOK'
  BY <1>0 DEF SearchInv, LintTypeOK
<1>2. StackIsGray'
  BY DEF SearchInv, LintTypeOK, StackIsGray
<1>3. StackProgress'
  BY <1>0 DEF SearchInv, LintTypeOK, StackProgress
<1>4. BlackClosed'
  BY <1>0 DEF SearchInv, LintTypeOK, BlackClosed
<1>5. BlackAcyclic'
  BY <1>0 DEF SearchInv, LintTypeOK, BlackAcyclic, Circular
<1>6. Reported'
  BY DEF SearchInv, LintTypeOK, Reported
<1> QED
  BY <1>1, <1>2, <1>3, <1>4, <1>5, <1>6 DEF SearchInv

\* A white neighbour goes on top of the stack, below it a node that depends on it.
LEMMA DescendStep ==
    ASSUME SearchInv, NEW n \in Tool, Descend(n) PROVE SearchInv'
<1>0. file' = file /\ \A t \in Tool : adj(file, t) \in SUBSET Tool
  BY AdjType DEF SearchInv, Descend
<1>a. Top \in Tool /\ Top = path[Len(path)] /\ Len(path) \in Nat \ {0}
  BY DEF SearchInv, LintTypeOK, Top, Descend
<1>b. color[Top] = "gray" /\ n # Top /\ n \in adj(file, Top)
  BY <1>a DEF SearchInv, StackIsGray, StackProgress, Descend
<1>c. /\ path' = Append(path, n) /\ Len(path') = Len(path) + 1
      /\ path'[Len(path) + 1] = n
      /\ \A i \in 1..Len(path) : path'[i] = path[i] /\ path[i] \in Tool
  BY DEF SearchInv, LintTypeOK, Descend
<1>d. \A i \in 1..Len(path) : path[i] # n
  BY DEF SearchInv, StackIsGray, Descend
<1>e. \A i \in 1..Len(path) : path[i] = Top => i = Len(path)
  BY <1>a DEF SearchInv, StackIsGray
<1>f. /\ color' \in [Tool -> {"white", "gray", "black"}]
      /\ color[n] = "white" /\ color'[n] = "gray"
      /\ \A t \in Tool : t # n => color'[t] = color[t]
  BY DEF SearchInv, LintTypeOK, Descend
<1>g. /\ pending' \in [Tool -> SUBSET Tool]
      /\ pending'[n] = adj(file, n)
      /\ pending'[Top] = pending[Top] \ {n}
      /\ \A t \in Tool \ {n, Top} : pending'[t] = pending[t]
  <2>1. pending \in [Tool -> SUBSET Tool] /\ adj(file, n) \in SUBSET Tool
    BY <1>0 DEF SearchInv, LintTypeOK
  <2>2. pending' = [pending EXCEPT ![Top] = @ \ {n}, ![n] = adj(file, n)]
    BY DEF Descend
  <2> QED
    BY <2>1, <2>2, <1>a, <1>b
<1>1. LintTypeOK'
  <2>1. UNCHANGED <<file, verdict, cyclePath, log>> /\ path' \in Seq(Tool)
    BY DEF SearchInv, LintTypeOK, Descend
  <2> QED
    BY <2>1, <1>f, <1>g DEF SearchInv, LintTypeOK
<1>2. StackIsGray'
  <2>1. \A i \in 1..Len(path') : color'[path'[i]] = "gray"
    BY <1>a, <1>c, <1>d, <1>f DEF SearchInv, StackIsGray
  <2>2. \A t \in Tool : color'[t] = "gray" => \E i \in 1..Len(path') : path'[i] = t
    <3> SUFFICES ASSUME NEW t \in Tool, color'[t] = "gray"
                 PROVE  \E i \in 1..Len(path') : path'[i] = t
      OBVIOUS
    <3>1. CASE t = n
      BY <3>1, <1>a, <1>c
    <3>2. CASE t # n
      <4>1. PICK i \in 1..Len(path) : path[i] = t
        BY <3>2, <1>f DEF SearchInv, StackIsGray
      <4>2. i \in 1..Len(path') /\ path'[i] = t
        BY <4>1, <1>a, <1>c
      <4> QED
        BY <4>2
    <3> QED
      BY <3>1, <3>2
  <2>3. \A i, j \in 1..Len(path') : path'[i] = path'[j] => i = j
    BY <1>a, <1>c, <1>d DEF SearchInv, StackIsGray
  <2>4. \A i \in 1..(Len(path') - 1) : path'[i + 1] \in adj(file, path'[i])
    <3> SUFFICES ASSUME NEW i \in 1..(Len(path') - 1)
                 PROVE  path'[i + 1] \in adj(file, path'[i])
      OBVIOUS
    <3>1. i \in 1..Len(path) /\ path'[i] = path[i] /\ path[i] \in Tool
      BY <1>a, <1>c
    <3>2. CASE i = Len(path)
      BY <3>1, <3>2, <1>a, <1>b, <1>c
    <3>3. CASE i < Len(path)
      <4>1. i \in 1..(Len(path) - 1) /\ i + 1 \in 1..Len(path)
        BY <3>1, <3>3, <1>a
      <4>2. path[i + 1] \in adj(file, path[i])
        BY <4>1 DEF SearchInv, StackIsGray
      <4> QED
        BY <4>1, <4>2, <1>c
    <3> QED
      BY <3>1, <3>2, <3>3, <1>a
  <2> QED
    BY <1>0, <2>1, <2>2, <2>3, <2>4 DEF StackIsGray
<1>3. StackProgress'
  <2> SUFFICES ASSUME NEW i \in 1..Len(path')
               PROVE  /\ pending'[path'[i]] \subseteq adj(file, path'[i])
                      /\ \A m \in adj(file, path'[i]) :
                            \/ m \in pending'[path'[i]]
                            \/ color'[m] = "black"
                            \/ i < Len(path') /\ m = path'[i + 1]
    BY <1>0 DEF StackProgress
  <2>1. CASE i = Len(path) + 1
    BY <2>1, <1>c, <1>g
  <2>2. CASE i = Len(path)
    <3>1. path'[i] = Top /\ pending'[Top] = pending[Top] \ {n} /\ path'[i + 1] = n
      BY <2>2, <1>a, <1>c, <1>g
    <3>2. /\ pending[Top] \subseteq adj(file, Top)
          /\ \A m \in adj(file, Top) : m \in pending[Top] \/ color[m] = "black"
      BY <1>a DEF SearchInv, StackProgress
    <3>3. \A m \in adj(file, Top) : color[m] = "black" => color'[m] = "black"
      BY <1>0, <1>a, <1>f
    <3> QED
      BY <2>2, <3>1, <3>2, <3>3, <1>a, <1>c
  <2>3. CASE i < Len(path)
    <3>1. i \in 1..Len(path) /\ path'[i] = path[i] /\ path'[i + 1] = path[i + 1]
      BY <2>3, <1>a, <1>c
    <3>2. path[i] # n /\ path[i] # Top /\ path[i] \in Tool
      BY <2>3, <3>1, <1>a, <1>c, <1>d, <1>e
    <3>3. pending'[path[i]] = pending[path[i]]
      BY <3>2, <1>g
    <3>4. /\ pending[path[i]] \subseteq adj(file, path[i])
          /\ \A m \in adj(file, path[i]) : \/ m \in pending[path[i]] \/ color[m] = "black"
                                     \/ m = path[i + 1]
      BY <3>1 DEF SearchInv, StackProgress
    <3>5. \A m \in adj(file, path[i]) : color[m] = "black" => color'[m] = "black"
      BY <1>0, <3>2, <1>f
    <3> QED
      BY <2>3, <3>1, <3>3, <3>4, <3>5, <1>a, <1>c
  <2>4. i = Len(path) + 1 \/ i = Len(path) \/ i < Len(path)
    BY <1>a, <1>c
  <2> QED
    BY <2>1, <2>2, <2>3, <2>4
<1>4. BlackClosed'
  BY <1>0, <1>f DEF SearchInv, BlackClosed
<1>5. BlackAcyclic'
  BY <1>0, <1>f DEF SearchInv, BlackAcyclic, Circular
<1>6. Reported'
  BY DEF SearchInv, Reported, Descend
<1> QED
  BY <1>1, <1>2, <1>3, <1>4, <1>5, <1>6 DEF SearchInv

\* A black neighbour leads nowhere new.
LEMMA SkipStep ==
    ASSUME SearchInv, NEW n \in Tool, Skip(n) PROVE SearchInv'
<1> USE DEF Skip
<1>0. file' = file /\ \A t \in Tool : adj(file, t) \in SUBSET Tool
  BY AdjType DEF SearchInv
<1>a. Top \in Tool /\ \A i \in 1..Len(path) : path[i] \in Tool
  BY DEF SearchInv, LintTypeOK, Top
<1>1. LintTypeOK'
  BY <1>a DEF SearchInv, LintTypeOK
<1>2. StackIsGray'
  BY <1>0, <1>a DEF SearchInv, LintTypeOK, StackIsGray
<1>3. StackProgress'
  <2>1. \A t \in Tool : /\ pending'[t] \subseteq pending[t]
                        /\ \A m \in pending[t] : m \in pending'[t] \/ color[m] = "black"
    BY <1>a DEF SearchInv, LintTypeOK
  <2> QED
    BY <2>1, <1>0, <1>a DEF SearchInv, StackProgress
<1>4. BlackClosed' /\ BlackAcyclic' /\ Reported'
  BY <1>0 DEF SearchInv, LintTypeOK, BlackClosed, BlackAcyclic, Circular, Reported
<1> QED
  BY <1>1, <1>2, <1>3, <1>4 DEF SearchInv

\* A gray neighbour is on the stack: the stack from there on is a cycle.
LEMMA BackEdgeStep ==
    ASSUME SearchInv, NEW n \in Tool, BackEdge(n) PROVE SearchInv'
<1>0. /\ UNCHANGED <<file, color, path, pending, log>>
      /\ verdict' = "cycle" /\ cyclePath' = CycleFrom(n)
  BY DEF BackEdge
<1>a. Top = path[Len(path)] /\ Len(path) \in Nat \ {0} /\ path \in Seq(Tool)
  BY DEF SearchInv, LintTypeOK, Top, BackEdge
<1>b. n \in adj(file, Top)
  BY <1>a DEF SearchInv, StackProgress, BackEdge
<1> DEFINE start == CHOOSE i \in 1..Len(path) : path[i] = n
           stack == SubSeq(path, start, Len(path))
           size  == Len(path) - start + 1
<1>c. start \in 1..Len(path) /\ path[start] = n
  BY DEF SearchInv, StackIsGray, BackEdge
<1> HIDE DEF start
<1>d. /\ stack \in Seq(Tool) /\ Len(stack) = size /\ size \in Nat \ {0}
      /\ \A i \in 1..size : stack[i] = path[start + i - 1]
  BY <1>a, <1>c
<1> HIDE DEF stack
<1>e. cyclePath' = Append(stack, n)
  BY <1>0 DEF CycleFrom, stack, start
<1>f. /\ cyclePath' \in Seq(Tool) /\ Len(cyclePath') = size + 1
      /\ cyclePath'[size + 1] = n
      /\ \A i \in 1..size : cyclePath'[i] = path[start + i - 1]
  BY <1>d, <1>e
<1>1. CyclePathIsCycle'
  <2>1. Len(cyclePath') > 1 /\ cyclePath'[1] = cyclePath'[Len(cyclePath')]
    BY <1>a, <1>c, <1>d, <1>f
  <2>2. ASSUME NEW i \in 1..(Len(cyclePath') - 1)
        PROVE  cyclePath'[i + 1] \in adj(file, cyclePath'[i])
    <3>1. i \in 1..size /\ cyclePath'[i] = path[start + i - 1]
      BY <1>d, <1>f
    <3>2. CASE i = size
      <4>1. start + i - 1 = Len(path)
        BY <3>2, <1>a, <1>c
      <4> QED
        BY <3>1, <3>2, <4>1, <1>a, <1>b, <1>f
    <3>3. CASE i < size
      <4>1. /\ start + i - 1 \in 1..(Len(path) - 1)
            /\ i + 1 \in 1..size
            /\ start + (i + 1) - 1 = (start + i - 1) + 1
        BY <3>1, <3>3, <1>a, <1>c
      <4>2. path[(start + i - 1) + 1] \in adj(file, path[start + i - 1])
        BY <4>1 DEF SearchInv, StackIsGray
      <4>3. cyclePath'[i + 1] = path[(start + i - 1) + 1]
        BY <4>1, <1>f
      <4> QED
        BY <3>1, <4>2, <4>3
    <3> QED
      BY <3>1, <3>2, <3>3, <1>d
  <2> QED
    BY <2>1, <2>2, <1>0 DEF CyclePathIsCycle
<1>2. LintTypeOK'
  BY <1>0, <1>f DEF SearchInv, LintTypeOK
<1>3. StackIsGray' /\ StackProgress' /\ BlackClosed' /\ BlackAcyclic'
  BY <1>0 DEF SearchInv, StackIsGray, StackProgress, BlackClosed, BlackAcyclic, Circular
<1>4. Reported'
  BY <1>0, <1>1 DEF Reported
<1> QED
  BY <1>1, <1>2, <1>3, <1>4 DEF SearchInv

\* A node whose neighbours are all black turns black: a circular set through it
\* would have contained a black node before.
LEMMA LeaveStep == ASSUME SearchInv, Leave PROVE SearchInv'
<1>0. /\ UNCHANGED <<file, pending, verdict, cyclePath, log>>
      /\ verdict = "running" /\ pending[Top] = {}
  BY DEF Leave
<1>a. Top \in Tool /\ Top = path[Len(path)] /\ Len(path) \in Nat \ {0}
  BY DEF SearchInv, LintTypeOK, Top, Leave
<1>b. /\ path' \in Seq(Tool) /\ Len(path') = Len(path) - 1
      /\ \A i \in 1..Len(path') : path'[i] = path[i]
  <2>1. path \in Seq(Tool) /\ path' = SubSeq(path, 1, Len(path) - 1)
    BY DEF SearchInv, LintTypeOK, Leave
  <2> QED
    BY <2>1, <1>a, AllButLast
<1>c. /\ color' \in [Tool -> {"white", "gray", "black"}]
      /\ color[Top] = "gray" /\ color'[Top] = "black"
      /\ \A t \in Tool : t # Top => color'[t] = color[t]
  BY <1>a DEF SearchInv, LintTypeOK, StackIsGray, Leave
<1>d. \A i \in 1..Len(path) : path[i] \in Tool /\ (path[i] = Top => i = Len(path))
  BY <1>a DEF SearchInv, LintTypeOK, StackIsGray
<1>e. /\ \A t \in Tool : adj(file, t) \in SUBSET Tool
      /\ \A m \in adj(file, Top) : color[m] = "black"
  BY <1>0, <1>a, AdjType DEF SearchInv, StackProgress
<1>1. LintTypeOK'
  BY <1>0, <1>b, <1>c DEF SearchInv, LintTypeOK
<1>2. StackIsGray'
  <2>1. \A i \in 1..Len(path') : i \in 1..Len(path) /\ i # Len(path)
    BY <1>a, <1>b
  <2>2. \A i \in 1..Len(path') : color'[path'[i]] = "gray"
    <3>1. \A i \in 1..Len(path') : path[i] \in Tool /\ path[i] # Top
      BY <2>1, <1>d
    <3>2. \A i \in 1..Len(path') : color[path[i]] = "gray"
      BY <2>1 DEF SearchInv, StackIsGray
    <3> QED
      BY <3>1, <3>2, <1>b, <1>c
  <2>3. ASSUME NEW t \in Tool, color'[t] = "gray"
        PROVE  \E i \in 1..Len(path') : path'[i] = t
    <3>1. t # Top /\ color[t] = "gray"
      BY <2>3, <1>c
    <3>2. PICK i \in 1..Len(path) : path[i] = t
      BY <3>1 DEF SearchInv, StackIsGray
    <3>3. i \in 1..Len(path')
      BY <3>1, <3>2, <1>a, <1>b
    <3> QED
      BY <3>2, <3>3, <1>b
  <2>4. \A i, j \in 1..Len(path') : path'[i] = path'[j] => i = j
    BY <2>1, <1>b DEF SearchInv, StackIsGray
  <2>5. ASSUME NEW i \in 1..(Len(path') - 1)
        PROVE  path'[i + 1] \in adj(file, path'[i])
    <3>1. i \in 1..(Len(path) - 1) /\ i \in 1..Len(path') /\ i + 1 \in 1..Len(path')
      BY <1>a, <1>b
    <3> QED
      BY <3>1, <1>b DEF SearchInv, StackIsGray
  <2> QED
    BY <2>2, <2>3, <2>4, <2>5, <1>0 DEF StackIsGray
<1>3. StackProgress'
  <2> SUFFICES ASSUME NEW i \in 1..Len(path'), NEW m \in adj(file, path'[i])
               PROVE  /\ pending[path'[i]] \subseteq adj(file, path'[i])
                      /\ \/ m \in pending[path'[i]]
                         \/ color'[m] = "black"
                         \/ i < Len(path') /\ m = path'[i + 1]
    <3>1. \A i \in 1..Len(path') : pending[path'[i]] \subseteq adj(file, path'[i])
      BY <1>a, <1>b DEF SearchInv, StackProgress
    <3> QED
      BY <3>1, <1>0 DEF StackProgress
  <2>1. i \in 1..Len(path) /\ i < Len(path) /\ path'[i] = path[i]
    BY <1>a, <1>b
  <2>2. /\ pending[path[i]] \subseteq adj(file, path[i])
        /\ \/ m \in pending[path[i]] \/ color[m] = "black"
           \/ m = path[i + 1]
    BY <2>1 DEF SearchInv, StackProgress
  <2>3. m \in Tool /\ (color[m] = "black" => color'[m] = "black")
    BY <2>1, <1>c, <1>d, <1>e
  <2>4. CASE m = path[i + 1]
    <3>1. CASE i + 1 = Len(path)
      BY <3>1, <2>1, <2>2, <2>4, <1>a, <1>c
    <3>2. CASE i + 1 < Len(path)
      <4>1. i < Len(path') /\ i + 1 \in 1..Len(path')
        BY <3>2, <1>a, <1>b
      <4> QED
        BY <4>1, <2>1, <2>2, <2>4, <1>b
    <3> QED
      BY <3>1, <3>2, <2>1, <1>a
  <2> QED
    BY <2>1, <2>2, <2>3, <2>4
<1>4. BlackClosed'
  <2>1. \A m \in Tool : color[m] = "black" => color'[m] = "black"
    BY <1>c
  <2>2. \A t \in Tool : color'[t] = "black" => \A m \in adj(file, t) : color[m] = "black"
    BY <1>c, <1>e DEF SearchInv, BlackClosed
  <2> QED
    BY <2>1, <2>2, <1>0, <1>e DEF BlackClosed
<1>5. BlackAcyclic'
  <2> SUFFICES ASSUME NEW S \in SUBSET Tool, \A t \in S : color'[t] = "black",
                      S # {}, \A t \in S : adj(file, t) \cap S # {}
               PROVE  FALSE
    BY <1>0 DEF BlackAcyclic, Circular
  <2> DEFINE R == S \ {Top}
  <2>1. \A t \in R : color[t] = "black"
    BY <1>c
  <2>2. \A t \in S : \A m \in adj(file, t) : color[m] = "black"
    BY <1>c, <1>e, <2>1 DEF SearchInv, BlackClosed
  <2>3. \A t \in S : adj(file, t) \cap R # {}
    BY <2>2, <1>c
  <2>4. R # {}
    BY <2>3
  <2>5. Circular(R)
    BY <2>3, <2>4 DEF Circular
  <2> QED
    BY <2>1, <2>5 DEF SearchInv, BlackAcyclic
<1>6. Reported'
  BY <1>0 DEF Reported
<1> QED
  BY <1>1, <1>2, <1>3, <1>4, <1>5, <1>6 DEF SearchInv

\* When every node with an entry is black, no circular set is left: a tool without
\* an entry depends on nothing.
LEMMA FinishStep == ASSUME SearchInv, Finish PROVE SearchInv'
<1>0. /\ UNCHANGED <<file, color, path, pending, cyclePath, log>>
      /\ path = << >> /\ verdict' = "acyclic"
      /\ \A n \in file.defined : color[n] # "white"
  BY DEF Finish
<1>1. \A n \in file.defined : n \in Tool /\ color[n] = "black"
  <2>1. file.defined \in SUBSET Tool
    BY LintAssumption DEF SearchInv, LintTypeOK
  <2>2. \A n \in Tool : color[n] # "gray"
    BY <1>0 DEF SearchInv, StackIsGray
  <2> QED
    BY <1>0, <2>1, <2>2 DEF SearchInv, LintTypeOK
<1>2. \A t \in Tool : adj(file, t) # {} => t \in file.defined
  <2>1. \A t \in Tool : t \notin file.defined => file.policy.tools[t] = ZeroToolPolicy
    BY LintAssumption DEF SearchInv, LintTypeOK
  <2>2. ZeroToolPolicy.onlyAfter = {}
    BY DEF ZeroToolPolicy
  <2> QED
    BY <2>1, <2>2 DEF adj, Rules
<1>3. \A S \in SUBSET Tool : ~ Circular(S)
  <2> SUFFICES ASSUME NEW S \in SUBSET Tool, Circular(S) PROVE FALSE
    OBVIOUS
  <2>1. \A t \in S : color[t] = "black"
    BY <1>1, <1>2 DEF Circular
  <2> QED
    BY <2>1 DEF SearchInv, BlackAcyclic
<1>4. LintTypeOK'
  BY <1>0 DEF SearchInv, LintTypeOK
<1>5. StackIsGray' /\ StackProgress' /\ BlackClosed' /\ BlackAcyclic'
  BY <1>0 DEF SearchInv, StackIsGray, StackProgress, BlackClosed, BlackAcyclic, Circular
<1>6. Reported'
  BY <1>0, <1>3 DEF Reported, Circular
<1> QED
  BY <1>4, <1>5, <1>6 DEF SearchInv

-----------------------------------------------------------------------------
(* The sessions.                                                           *)

\* A call of a session leaves the result of the search alone.
LEMMA CallStep ==
    ASSUME SearchInv, NEW t \in Tool, NEW a \in Args, Call(t, a) PROVE SearchInv'
<1> DEFINE v(other) == Chain(MayBeCalled(t), Chain(ContentEvaluator(t, a, file.policy),
                       Chain(EscalationEvaluator(t, a, file.policy, TRUE), other)))
<1>0. UNCHANGED <<file, color, path, pending, verdict, cyclePath>>
  BY DEF Call
<1>1. \A other \in OtherVerdicts : v(other) \in Verdict
  BY StageTypes DEF OtherVerdicts, Verdict, Chain, MayBeCalled
<1>2. log' \in Seq([tool : Tool, action : Action])
  <2>1. PICK other \in OtherVerdicts :
           log' = Append(log, [tool |-> t, action |-> Decide(v(other), t, file.policy)])
    BY Zenon DEF Call
  <2> HIDE DEF v
  <2>2. Decide(v(other), t, file.policy) \in Action
    BY <1>1, DecideType
  <2>3. [tool |-> t, action |-> Decide(v(other), t, file.policy)]
           \in [tool : Tool, action : Action]
    BY <2>2
  <2> QED
    BY <2>1, <2>3 DEF SearchInv, LintTypeOK
<1>3. LintTypeOK'
  BY <1>0, <1>2 DEF SearchInv, LintTypeOK
<1>4. /\ StackIsGray' /\ StackProgress' /\ BlackClosed'
      /\ BlackAcyclic' /\ Reported'
  BY <1>0 DEF SearchInv, StackIsGray, StackProgress, BlackClosed, BlackAcyclic,
             Reported, Circular, CyclePathIsCycle
<1> QED
  BY <1>3, <1>4 DEF SearchInv

\* The search invariant holds throughout, whatever order the nodes are walked in.
LEMMA SearchInvariant == Spec => []SearchInv
<1>1. SearchInv /\ [Next]_vars => SearchInv'
  <2> SUFFICES ASSUME SearchInv, [Next]_vars PROVE SearchInv'
    OBVIOUS
  <2>1. ASSUME NEW n \in Tool, StartSearch(n) PROVE SearchInv'
    BY <2>1, StartSearchStep
  <2>2. ASSUME NEW n \in Tool, Descend(n) PROVE SearchInv'
    BY <2>2, DescendStep
  <2>3. ASSUME NEW n \in Tool, Skip(n) PROVE SearchInv'
    BY <2>3, SkipStep
  <2>4. ASSUME NEW n \in Tool, BackEdge(n) PROVE SearchInv'
    BY <2>4, BackEdgeStep
  <2>5. CASE Leave
    BY <2>5, LeaveStep
  <2>6. CASE Finish
    BY <2>6, FinishStep
  <2>7. ASSUME NEW t \in Tool, NEW a \in Args, Call(t, a) PROVE SearchInv'
    BY <2>7, CallStep
  <2>8. CASE UNCHANGED vars
    BY <2>8 DEF vars, SearchInv, LintTypeOK, StackIsGray, StackProgress, BlackClosed,
                BlackAcyclic, Reported, Circular, CyclePathIsCycle
  <2> QED
    BY <2>1, <2>2, <2>3, <2>4, <2>5, <2>6, <2>7, <2>8 DEF Next, LintStep
<1> QED
  BY SearchInit, <1>1, PTL DEF Spec

\* The tools on a reported path form a circular set.
LEMMA CycleIsCircular ==
    ASSUME SearchInv, verdict = "cycle",
           NEW k \in 1..Len(cyclePath)
    PROVE  \E S \in SUBSET Tool : Circular(S) /\ cyclePath[k] \in S
<1> DEFINE S == {cyclePath[i] : i \in 1..Len(cyclePath)}
<1>1. cyclePath \in Seq(Tool) /\ Len(cyclePath) \in Nat
  BY DEF SearchInv, LintTypeOK
<1>2. /\ Len(cyclePath) > 1
      /\ cyclePath[1] = cyclePath[Len(cyclePath)]
      /\ \A i \in 1..(Len(cyclePath) - 1) : cyclePath[i + 1] \in adj(file, cyclePath[i])
  BY DEF SearchInv, Reported, CyclePathIsCycle
<1>3. S \in SUBSET Tool /\ cyclePath[k] \in S
  BY <1>1
<1>4. ASSUME NEW t \in S PROVE adj(file, t) \cap S # {}
  <2>1. PICK i \in 1..(Len(cyclePath) - 1) : cyclePath[i] = t
    <3>1. PICK i \in 1..Len(cyclePath) : cyclePath[i] = t
      OBVIOUS
    <3>2. CASE i = Len(cyclePath)
      <4>1. 1 \in 1..(Len(cyclePath) - 1) /\ cyclePath[1] = t
        BY <3>1, <3>2, <1>1, <1>2
      <4> QED
        BY <4>1
    <3>3. CASE i # Len(cyclePath)
      <4>1. i \in 1..(Len(cyclePath) - 1)
        BY <3>3, <1>1
      <4> QED
        BY <3>1, <4>1
    <3> QED
      BY <3>2, <3>3
  <2>2. i + 1 \in 1..Len(cyclePath) /\ cyclePath[i + 1] \in adj(file, t)
    BY <2>1, <1>1, <1>2
  <2> QED
    BY <2>2
<1> QED
  BY <1>3, <1>4 DEF Circular

\* Rule L013 of lint.go reports an error exactly for the policies whose
\* only_after dependencies are circular: for every graph and map order.
THEOREM CycleDetectionCorrect == Spec => []L013Correct
<1>1. SearchInv => L013Correct
  <2> SUFFICES ASSUME SearchInv, verdict = "cycle"
               PROVE  \E S \in SUBSET Tool : Circular(S)
    BY DEF SearchInv, Reported, L013Correct
  <2>1. 1 \in 1..Len(cyclePath)
    BY DEF SearchInv, LintTypeOK, Reported, CyclePathIsCycle
  <2> QED
    BY <2>1, CycleIsCircular
<1> QED
  BY <1>1, SearchInvariant, PTL

\* The path printed by L013 is a cycle of only_after dependencies.
THEOREM CyclePathCorrect == Spec => []CyclePathIsCycle
<1>1. SearchInv => CyclePathIsCycle
  BY DEF SearchInv, Reported, CyclePathIsCycle
<1> QED
  BY <1>1, SearchInvariant, PTL

\* A policy file without lint errors whose sequence rules are only_after lists of
\* real tools never leads a session into a dead end.
THEOREM LintedNeverWedged == Spec => []NeverWedged
<1>1. SearchInv => NeverWedged
  <2> SUFFICES ASSUME SearchInv, verdict # "running", ~ HasErrors, OnlyAfterOnly,
                      Uncalled # {}
               PROVE  \E t \in Uncalled : MayBeCalled(t) = "allow"
    BY DEF NeverWedged
  <2> DEFINE S == Uncalled
  <2>1. S \in SUBSET Tool /\ S # {}
    BY LintAssumption DEF SearchInv, LintTypeOK, Uncalled
  <2>2. ~ Circular(S)
    <3>1. verdict = "acyclic"
      BY DEF SearchInv, LintTypeOK, HasErrors
    <3> QED
      BY <2>1, <3>1 DEF SearchInv, Reported
  <2>3. PICK t \in S : adj(file, t) \cap S = {}
    BY <2>1, <2>2 DEF Circular
  <2>4. adj(file, t) \subseteq Called
    <3>1. ~ lintL003(file, t)
      BY <2>1 DEF HasErrors
    <3>2. adj(file, t) \cap VirtualTool = {}
      BY <2>1 DEF OnlyAfterOnly, adj
    <3> QED
      BY <2>3, <3>1, <3>2 DEF lintL003, adj, Uncalled
  <2>5. \A u \in adj(file, t) : CallsOf(log, u) # {}
    BY <2>4 DEF Called, CallsOf
  <2>6. SequenceEvaluator(t, file.policy, log) = "allow"
    <3>1. t \in Tool
      BY <2>1
    <3>2. file.policy.tools[t].neverAfter = {} /\ file.policy.tools[t].priorN = {}
      BY <3>1 DEF OnlyAfterOnly, Rules
    <3> QED
      BY <2>5, <3>2 DEF SequenceEvaluator, adj, Rules
  <2>7. MayUseEvaluator(t, file.policy) = "allow"
    BY DEF MayUseEvaluator, Uncalled
  <2>8. MayBeCalled(t) = "allow"
    BY <2>6, <2>7 DEF MayBeCalled, Chain
  <2> QED
    BY <2>8
<1> QED
  BY <1>1, SearchInvariant, PTL

-----------------------------------------------------------------------------
(* No false alarms.                                                        *)

\* Where nothing is in shadow mode, a called tool obeys the rules that blame
\* single tools, its prerequisites have been called, and no tool of a circular
\* set has been called.
SessionInv ==
    Blocking =>
        /\ \A t \in Called :
              /\ t \in file.policy.mayUse
              /\ adj(file, t) \subseteq Called
              /\ ~ lintL012(file, t)
              /\ ~ (lintL014(file, t) /\ ~ Rules(file, t).neverWhenAll)
        /\ \A S \in SUBSET Tool : Circular(S) => Called \cap S = {}

\* Outside shadow mode only an allowed call counts.
LEMMA AllowedOnly ==
    ASSUME NEW v \in Verdict, NEW t, NEW p, effectiveMode(p, t) # "shadow",
           Decide(v, t, p) \in {"allow", "shadow_deny"}
    PROVE  v = "allow"
<1>1. CASE v = "error"
  BY <1>1 DEF Decide
<1>2. CASE v = "deny"
  BY <1>2 DEF Decide
<1>3. CASE v = "escalate"
  BY <1>3 DEF Decide
<1> QED
  BY <1>1, <1>2, <1>3 DEF Verdict

\* An invalid predicate, in any position, keeps evalNeverWhenAny from allowing.
LEMMA InvalidContentDenies ==
    ASSUME NEW f \in File, NEW t \in Tool, NEW a \in Args,
           lintL014(f, t), ~ Rules(f, t).neverWhenAll
    PROVE  ContentEvaluator(t, a, f.policy) # "allow"
<1> DEFINE preds == f.policy.tools[t].neverWhen
           stops == {i \in 1..Len(preds) : preds[i][a] # "quiet"}
<1>1. PICK i \in 1..Len(preds) : preds[i] \in BadPredicate
  BY DEF lintL014, Rules
<1>2. preds[i][a] = "error"
  BY <1>1, LintAssumption
<1>3. stops # {}
  BY <1>1, <1>2
<1>4. evalNeverWhenAny(preds, a) # "allow"
  BY <1>3 DEF evalNeverWhenAny
<1>5. preds # << >>
  BY <1>1
<1> QED
  BY <1>4, <1>5 DEF ContentEvaluator, Rules

\* An invalid escalate_when predicate keeps EscalationEvaluator from allowing.
LEMMA InvalidEscalationDenies ==
    ASSUME NEW f \in File, NEW t \in Tool, NEW a \in Args, lintL012(f, t)
    PROVE  EscalationEvaluator(t, a, f.policy, TRUE) # "allow"
<1>1. PICK p \in f.policy.tools[t].escalateWhen : p \in BadPredicate
  BY DEF lintL012, Rules
<1>2. "error" \in {p2[a] : p2 \in f.policy.tools[t].escalateWhen}
  BY <1>1, LintAssumption
<1> QED
  BY <1>2 DEF EscalationEvaluator

\* A call that counts has passed may_use, its prerequisites and its predicates, so
\* it cannot be the first of a circular set.
LEMMA SessionCallStep ==
    ASSUME SearchInv, SessionInv, NEW t \in Tool, NEW a \in Args, Call(t, a)
    PROVE  SessionInv'
<1> DEFINE v(other) == Chain(MayBeCalled(t), Chain(ContentEvaluator(t, a, file.policy),
                       Chain(EscalationEvaluator(t, a, file.policy, TRUE), other)))
           e(other) == [tool |-> t, action |-> Decide(v(other), t, file.policy)]
<1>0. file' = file /\ file \in File /\ Len(log) \in Nat /\ log \in Seq([tool : Tool, action : Action])
  BY DEF Call, SearchInv, LintTypeOK
<1>1. \A other \in OtherVerdicts : v(other) \in Verdict
  BY StageTypes DEF OtherVerdicts, Verdict, Chain, MayBeCalled
<1>2. PICK other \in OtherVerdicts : log' = Append(log, e(other))
  BY Zenon DEF Call
<1>3. ASSUME v(other) = "allow"
      PROVE  /\ t \in file.policy.mayUse
             /\ SequenceEvaluator(t, file.policy, log) = "allow"
             /\ ContentEvaluator(t, a, file.policy) = "allow"
             /\ EscalationEvaluator(t, a, file.policy, TRUE) = "allow"
  <2>1. /\ MayUseEvaluator(t, file.policy) = "allow"
        /\ SequenceEvaluator(t, file.policy, log) = "allow"
        /\ ContentEvaluator(t, a, file.policy) = "allow"
        /\ EscalationEvaluator(t, a, file.policy, TRUE) = "allow"
    BY <1>3 DEF Chain, MayBeCalled
  <2> QED
    BY <2>1 DEF MayUseEvaluator
<1> HIDE DEF v
<1>4. /\ Len(log') = Len(log) + 1 /\ log'[Len(log) + 1] = e(other)
      /\ \A i \in 1..Len(log) : log'[i] = log[i]
  BY <1>0, <1>2
<1>5. Called \subseteq Called' /\ Called' \subseteq Called \cup {t}
  <2>1. Called \subseteq Called'
    BY <1>0, <1>4 DEF Called, Counts
  <2>2. ASSUME NEW u \in Called' PROVE u \in Called \cup {t}
    <3>1. PICK i \in 1..Len(log') : Counts(log'[i]) /\ log'[i].tool = u
      BY DEF Called, Counts
    <3>2. CASE i = Len(log) + 1
      BY <3>1, <3>2, <1>4
    <3>3. CASE i # Len(log) + 1
      <4>1. i \in 1..Len(log) /\ log'[i] = log[i]
        BY <3>3, <1>0, <1>4
      <4> QED
        BY <3>1, <4>1 DEF Called, Counts
    <3> QED
      BY <3>2, <3>3
  <2> QED
    BY <2>1, <2>2
<1>6. ASSUME t \in Called' \ Called, Blocking PROVE v(other) = "allow"
  <2>1. PICK i \in 1..Len(log') : Counts(log'[i]) /\ log'[i].tool = t
    BY <1>6 DEF Called, Counts
  <2>2. i = Len(log) + 1
    <3> SUFFICES ASSUME i # Len(log) + 1 PROVE FALSE
      OBVIOUS
    <3>1. i \in 1..Len(log) /\ log'[i] = log[i]
      BY <1>0, <1>4
    <3> QED
      BY <2>1, <3>1, <1>6 DEF Called, Counts
  <2>3. Counts(e(other))
    BY <2>1, <2>2, <1>4
  <2>4. Decide(v(other), t, file.policy) \in {"allow", "shadow_deny"}
    BY <2>3 DEF Counts
  <2>5. effectiveMode(file.policy, t) # "shadow"
    BY <1>6 DEF Blocking
  <2> QED
    BY <2>4, <2>5, <1>1, AllowedOnly
<1>7. ASSUME Blocking, t \in Called' \ Called
      PROVE  /\ t \in file.policy.mayUse
             /\ adj(file, t) \subseteq Called
             /\ ~ lintL012(file, t)
             /\ ~ (lintL014(file, t) /\ ~ Rules(file, t).neverWhenAll)
  <2>1. v(other) = "allow"
    BY <1>6, <1>7
  <2>2. \A u \in adj(file, t) : CallsOf(log, u) # {}
    BY <2>1, <1>3 DEF SequenceEvaluator, adj, Rules
  <2>3. adj(file, t) \subseteq Called
    BY <2>2 DEF CallsOf, Called
  <2>4. ~ lintL012(file, t)
    BY <2>1, <1>0, <1>3, InvalidEscalationDenies
  <2>5. ~ (lintL014(file, t) /\ ~ Rules(file, t).neverWhenAll)
    BY <2>1, <1>0, <1>3, InvalidContentDenies
  <2> QED
    BY <2>1, <2>3, <2>4, <2>5, <1>3
<1>8. Blocking' = Blocking
  BY <1>0 DEF Blocking
<1>9. ASSUME Blocking
      PROVE  \A u \in Called' :
              /\ u \in file.policy.mayUse
              /\ adj(file, u) \subseteq Called'
              /\ ~ lintL012(file, u)
              /\ ~ (lintL014(file, u) /\ ~ Rules(file, u).neverWhenAll)
  <2> TAKE u \in Called'
  <2>1. CASE u \in Called
    BY <2>1, <1>5, <1>9 DEF SessionInv
  <2>2. CASE u \notin Called
    BY <2>2, <1>5, <1>7, <1>9
  <2> QED
    BY <2>1, <2>2
<1>10. ASSUME Blocking, NEW S \in SUBSET Tool, Circular(S) PROVE Called' \cap S = {}
  <2>1. Called \cap S = {}
    BY <1>10 DEF SessionInv
  <2>2. t \in S => t \notin Called'
    BY <2>1, <1>7, <1>10 DEF Circular
  <2> QED
    BY <2>1, <2>2, <1>5
<1> QED
  <2>1. \A S \in SUBSET Tool : Circular(S)' => Circular(S)
    BY <1>0 DEF Circular
  <2> QED
    BY <1>0, <1>8, <1>9, <1>10, <2>1 DEF SessionInv

\* Where nothing is in shadow mode, no session calls a tool that the linter
\* blames for a missing permission, an unreachable or circular prerequisite or
\* an invalid predicate.
THEOREM LintErrorsAreReal == Spec => []BlamedToolsAreDead
<1>1. Init => SessionInv
  <2> SUFFICES ASSUME Init PROVE Called = {}
    BY DEF SessionInv
  <2>1. log = << >>
    BY DEF Init
  <2> QED
    BY <2>1 DEF Called
<1>2. SearchInv /\ SessionInv /\ [Next]_vars => SessionInv'
  <2> SUFFICES ASSUME SearchInv, SessionInv, [Next]_vars PROVE SessionInv'
    OBVIOUS
  <2>1. ASSUME NEW t \in Tool, NEW a \in Args, Call(t, a) PROVE SessionInv'
    BY <2>1, SessionCallStep
  <2>2. CASE LintStep \/ UNCHANGED vars
    <3>1. file' = file /\ log' = log
      BY <2>2 DEF LintStep, vars, StartSearch, Descend, Skip, BackEdge, Leave, Finish
    <3>2. Called' = Called /\ Blocking' = Blocking
      BY <3>1 DEF Called, Blocking
    <3>3. \A S \in SUBSET Tool : Circular(S)' => Circular(S)
      BY <3>1 DEF Circular
    <3> QED
      BY <3>1, <3>2, <3>3 DEF SessionInv
  <2> QED
    BY <2>1, <2>2 DEF Next
<1>3. SearchInv /\ L013Correct /\ SessionInv => BlamedToolsAreDead
  <2> SUFFICES ASSUME SearchInv, SessionInv, Blocking, NEW t \in Called, t \in Blamed
               PROVE  FALSE
    BY DEF BlamedToolsAreDead
  <2>1. /\ t \in file.policy.mayUse /\ adj(file, t) \subseteq Called
        /\ ~ lintL012(file, t)
        /\ ~ (lintL014(file, t) /\ ~ Rules(file, t).neverWhenAll)
    BY DEF SessionInv
  <2>2. ~ lintL002(file, t)
    BY <2>1 DEF lintL002
  <2>3. ~ lintL003(file, t)
    BY <2>1 DEF lintL003, adj, SessionInv
  <2>4. verdict = "cycle" /\ \E i \in 1..Len(cyclePath) : cyclePath[i] = t
    BY <2>1, <2>2, <2>3 DEF Blamed
  <2>5. PICK S \in SUBSET Tool : Circular(S) /\ t \in S
    BY <2>4, CycleIsCircular
  <2> QED
    BY <2>5 DEF SessionInv
<1> QED
  BY <1>1, <1>2, <1>3, SearchInvariant, CycleDetectionCorrect, PTL DEF Spec

-----------------------------------------------------------------------------
(* The files that `truebearing init` generates (Wizard).                   *)

\* An entry of a generated file: block mode and prerequisites where the user
\* asked for them, no other rule.  All tools it speaks of are in may_use.
LEMMA GeneratedShape ==
    ASSUME NEW a \in Answered, file \in File
    PROVE  /\ a \in Answers /\ Valid(a) /\ a.highRisk \in SUBSET Tool
           /\ file.policy.mayUse # {}
           /\ file.defined \subseteq file.policy.mayUse
           /\ \A t \in Tool : t \notin a.highRisk => Rules(file, t) = ZeroToolPolicy
           /\ \A t \in a.highRisk :
                 /\ Rules(file, t) = GuardedTool(a, t)
                 /\ adj(file, t) = a.prerequisites[t]
                 /\ a.prerequisites[t] \subseteq file.policy.mayUse
                 /\ Rules(file, t).mode = "block"
<1>1. a \in Answers /\ Valid(a) /\ generatePolicyYAML(a) = file
  BY DEF Answered, AnswersOf
<1>2. a.highRisk \in SUBSET Tool
  BY <1>1, WizardAssumption
<1>3. /\ file.policy.mayUse = a.tools \cup VirtualTool
      /\ file.defined = a.highRisk \cup (a.tools \ VirtualTool)
      /\ file.policy.tools = [t \in Tool |-> IF t \in a.highRisk THEN GuardedTool(a, t)
                                             ELSE ZeroToolPolicy]
  BY <1>1 DEF generatePolicyYAML, MayUseList
<1>4. /\ a.tools # {} /\ a.highRisk \subseteq a.tools
      /\ \A t \in a.highRisk : a.prerequisites[t] \subseteq a.tools
  BY <1>1 DEF Valid
<1>5. \A t \in Tool : t \notin a.highRisk => Rules(file, t) = ZeroToolPolicy
  BY <1>3 DEF Rules
<1>6. ASSUME NEW t \in a.highRisk
      PROVE  /\ Rules(file, t) = GuardedTool(a, t)
             /\ adj(file, t) = a.prerequisites[t]
             /\ Rules(file, t).mode = "block"
  <2>1. Rules(file, t) = GuardedTool(a, t)
    BY <1>2, <1>3 DEF Rules
  <2> QED
    BY <2>1 DEF GuardedTool, ZeroToolPolicy, adj
<1> QED
  BY <1>1, <1>2, <1>3, <1>4, <1>5, <1>6

\* A tool without an entry has no rules.
LEMMA NoRules ==
    /\ ZeroToolPolicy.onlyAfter = {} /\ ZeroToolPolicy.neverAfter = {}
    /\ ZeroToolPolicy.priorN = {} /\ ZeroToolPolicy.escalateWhen = {}
    /\ ZeroToolPolicy.rateLimit = {} /\ ZeroToolPolicy.neverWhen = << >>
BY DEF ZeroToolPolicy

\* Of the ERROR rules only L013 can fail on a generated file.
LEMMA GeneratedErrors ==
    ASSUME NEW a \in Answered, file \in File
    PROVE  HasErrors <=> verdict = "cycle"
<1> SUFFICES ASSUME HasErrors PROVE verdict = "cycle"
  BY DEF HasErrors
<1>1. ~ lintL001(file) /\ \A t \in Tool : ~ lintL002(file, t)
  BY GeneratedShape DEF lintL001, lintL002
<1>2. ASSUME NEW t \in Tool
      PROVE  /\ Rules(file, t).neverAfter = {} /\ Rules(file, t).priorN = {}
             /\ Rules(file, t).escalateWhen = {} /\ Rules(file, t).rateLimit = {}
             /\ Rules(file, t).neverWhen = << >>
             /\ Rules(file, t).onlyAfter \subseteq file.policy.mayUse
  <2>1. CASE t \in a.highRisk
    <3>1. /\ Rules(file, t) = GuardedTool(a, t)
          /\ Rules(file, t).onlyAfter \subseteq file.policy.mayUse
      BY <2>1, GeneratedShape DEF adj
    <3> QED
      BY <3>1 DEF GuardedTool, ZeroToolPolicy
  <2>2. CASE t \notin a.highRisk
    <3>1. Rules(file, t) = ZeroToolPolicy
      BY <2>2, GeneratedShape
    <3> QED
      BY <3>1, NoRules
  <2> QED
    BY <2>1, <2>2
<1>3. ASSUME NEW t \in Tool
      PROVE  /\ ~ lintL003(file, t) /\ ~ lintL004(file, t) /\ ~ lintL010(file, t)
             /\ ~ lintL012(file, t) /\ ~ lintL017(file, t) /\ ~ lintL018(file, t)
  BY <1>2 DEF lintL003, lintL004, lintL010, lintL012, lintL017, lintL018
<1>4. ASSUME NEW t \in Tool PROVE ~ lintL014(file, t)
  <2>1. Len(Rules(file, t).neverWhen) = 0
    BY <1>2
  <2> QED
    BY <2>1 DEF lintL014
<1> QED
  BY <1>1, <1>3, <1>4 DEF HasErrors

\* The wizard refuses to write a file exactly when the answers make high-risk
\* tools wait for each other: for every set of tools and every answer, and
\* whatever order the linter walks its maps in.
THEOREM WizardRefusesCycles == Spec => []RefusedOnlyForCycles
<1>1. SearchInv /\ L013Correct => RefusedOnlyForCycles
  <2> SUFFICES ASSUME SearchInv, L013Correct, NEW a \in Answered, verdict # "running"
               PROVE  HasErrors <=> \E S \in SUBSET a.highRisk :
                          S # {} /\ \A t \in S : a.prerequisites[t] \cap S # {}
    BY DEF RefusedOnlyForCycles
  <2>1. file \in File /\ verdict \in {"acyclic", "cycle"}
    BY DEF SearchInv, LintTypeOK
  <2>2. HasErrors <=> verdict = "cycle"
    BY <2>1, GeneratedErrors
  <2>3. \A t \in a.highRisk : t \in Tool /\ adj(file, t) = a.prerequisites[t]
    BY <2>1, GeneratedShape
  <2>4. ASSUME NEW t \in Tool, t \notin a.highRisk PROVE adj(file, t) = {}
    <3>1. Rules(file, t) = ZeroToolPolicy
      BY <2>1, <2>4, GeneratedShape
    <3> QED
      BY <3>1, NoRules DEF adj
  <2>5. ASSUME verdict = "cycle"
        PROVE  \E S \in SUBSET a.highRisk :
                   S # {} /\ \A t \in S : a.prerequisites[t] \cap S # {}
    <3>1. PICK S \in SUBSET Tool : Circular(S)
      BY <2>5 DEF L013Correct
    <3>2. S \in SUBSET a.highRisk
      BY <3>1, <2>4 DEF Circular
    <3> QED
      BY <3>1, <3>2, <2>3 DEF Circular
  <2>6. ASSUME verdict = "acyclic", NEW S \in SUBSET a.highRisk,
               S # {} /\ \A t \in S : a.prerequisites[t] \cap S # {}
        PROVE  FALSE
    <3>1. S \in SUBSET Tool /\ Circular(S)
      BY <2>6, <2>3 DEF Circular
    <3> QED
      BY <3>1, <2>6 DEF L013Correct
  <2> QED
    BY <2>1, <2>2, <2>5, <2>6
<1> QED
  BY <1>1, SearchInvariant, CycleDetectionCorrect, PTL

\* In every file, generated or not: a call of a tool in block mode that went
\* through came after a call of each of its prerequisites.
GuardedInv ==
    \A i \in 1..Len(log) :
        effectiveMode(file.policy, log[i].tool) = "block" /\ Counts(log[i]) =>
            \A p \in adj(file, log[i].tool) :
                \E j \in 1..(i - 1) : log[j].tool = p /\ Counts(log[j])

\* A call of a tool in block mode counts only if all its prerequisites are in
\* the log already: a shadow-mode file does not turn its refusal into a pass.
LEMMA GuardedCallStep ==
    ASSUME LintTypeOK, GuardedInv, NEW t \in Tool, NEW a \in Args, Call(t, a)
    PROVE  GuardedInv'
<1> DEFINE v(other) == Chain(MayBeCalled(t), Chain(ContentEvaluator(t, a, file.policy),
                       Chain(EscalationEvaluator(t, a, file.policy, TRUE), other)))
           e(other) == [tool |-> t, action |-> Decide(v(other), t, file.policy)]
<1>0. file' = file /\ Len(log) \in Nat /\ log \in Seq([tool : Tool, action : Action])
  BY DEF Call, LintTypeOK
<1>1. \A other \in OtherVerdicts : v(other) \in Verdict
  BY StageTypes DEF OtherVerdicts, Verdict, Chain, MayBeCalled
<1>2. PICK other \in OtherVerdicts : log' = Append(log, e(other))
  BY Zenon DEF Call
<1>3. v(other) = "allow" => SequenceEvaluator(t, file.policy, log) = "allow"
  BY DEF Chain, MayBeCalled
<1> HIDE DEF v
<1>4. /\ Len(log') = Len(log) + 1 /\ log'[Len(log) + 1] = e(other)
      /\ \A i \in 1..Len(log) : log'[i] = log[i]
  BY <1>0, <1>2
<1>5. ASSUME effectiveMode(file.policy, t) = "block", Counts(e(other)), NEW p \in adj(file, t)
      PROVE  \E j \in 1..Len(log) : log[j].tool = p /\ Counts(log[j])
  <2>1. Decide(v(other), t, file.policy) \in {"allow", "shadow_deny"}
    BY <1>5 DEF Counts
  <2>2. v(other) = "allow"
    BY <2>1, <1>1, <1>5, AllowedOnly
  <2>3. CallsOf(log, p) # {}
    BY <2>2, <1>3, <1>5 DEF SequenceEvaluator, adj, Rules
  <2> QED
    BY <2>3 DEF CallsOf
<1> SUFFICES ASSUME NEW i \in 1..Len(log'),
                    effectiveMode(file.policy, log'[i].tool) = "block", Counts(log'[i]),
                    NEW p \in adj(file, log'[i].tool)
             PROVE  \E j \in 1..(i - 1) : log'[j].tool = p /\ Counts(log'[j])
  BY <1>0 DEF GuardedInv, Counts
<1>6. CASE i = Len(log) + 1
  <2>1. PICK j \in 1..Len(log) : log[j].tool = p /\ Counts(log[j])
    BY <1>4, <1>5, <1>6
  <2>2. j \in 1..(i - 1) /\ log'[j] = log[j]
    BY <1>0, <1>4, <1>6
  <2> QED
    BY <2>1, <2>2
<1>7. CASE i # Len(log) + 1
  <2>1. i \in 1..Len(log) /\ log'[i] = log[i]
    BY <1>0, <1>4, <1>7
  <2>2. PICK j \in 1..(i - 1) : log[j].tool = p /\ Counts(log[j])
    BY <2>1 DEF GuardedInv
  <2>3. log'[j] = log[j]
    BY <2>1, <1>0, <1>4
  <2> QED
    BY <2>2, <2>3
<1> QED
  BY <1>6, <1>7

\* The guards asked for in the wizard hold in every session served under the
\* generated file, although its global mode is shadow.
THEOREM WizardGuardsHold == Spec => []GuardsHoldInShadow
<1>1. Init => GuardedInv
  BY DEF Init, GuardedInv
<1>2. SearchInv /\ GuardedInv /\ [Next]_vars => GuardedInv'
  <2> SUFFICES ASSUME SearchInv, GuardedInv, [Next]_vars PROVE GuardedInv'
    OBVIOUS
  <2>1. ASSUME NEW t \in Tool, NEW a \in Args, Call(t, a) PROVE GuardedInv'
    BY <2>1, GuardedCallStep DEF SearchInv
  <2>2. CASE LintStep \/ UNCHANGED vars
    <3>1. file' = file /\ log' = log
      BY <2>2 DEF LintStep, vars, StartSearch, Descend, Skip, BackEdge, Leave, Finish
    <3> QED
      BY <3>1 DEF GuardedInv, Counts
  <2> QED
    BY <2>1, <2>2 DEF Next
<1>3. SearchInv /\ GuardedInv => GuardsHoldInShadow
  <2> SUFFICES ASSUME SearchInv, GuardedInv, NEW a \in Answered, NEW i \in 1..Len(log),
                      log[i].tool \in a.highRisk, Counts(log[i])
               PROVE  \A p \in a.prerequisites[log[i].tool] :
                          \E j \in 1..(i - 1) : log[j].tool = p /\ Counts(log[j])
    BY DEF GuardsHoldInShadow
  <2>1. /\ adj(file, log[i].tool) = a.prerequisites[log[i].tool]
        /\ Rules(file, log[i].tool).mode = "block"
    BY GeneratedShape DEF SearchInv, LintTypeOK
  <2>2. effectiveMode(file.policy, log[i].tool) = "block"
    BY <2>1 DEF effectiveMode, Rules
  <2>3. \A p \in adj(file, log[i].tool) :
            \E j \in 1..(i - 1) : log[j].tool = p /\ Counts(log[j])
    BY Zenon, <2>2 DEF GuardedInv
  <2> QED
    BY <2>1, <2>3
<1> QED
  BY <1>1, <1>2, <1>3, SearchInvariant, PTL DEF Spec
==============================================================================
