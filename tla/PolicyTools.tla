----------------------------- MODULE PolicyTools -----------------------------
(***************************************************************************)
(* Two commands that explain: `policy diff` (cmd/policy/diff.go), which    *)
(* compares two policy files, and the diagram of `session inspect`         *)
(* (cmd/session/inspect.go), which guesses from the events of a session    *)
(* which call tainted it.  Offline supplies what they are measured with:   *)
(* sessions of proxies that serve the two policies, and `simulate`.        *)
(***************************************************************************)
EXTENDS Offline

CONSTANT FilePairs      \* pairs of files, as written

VARIABLE scan           \* loop of detectTaintCausingEvents, and its session

toolsVars == <<vars, scan>>

\* A file: lists are sequences, tools has the tools with an entry, and an
\* escalate_when rule has its text (path, operator and value as printed), the
\* YAML type of the value and the outcomes, which depend on the type: a
\* quoted threshold is compared as 0.  (max_duration_seconds, which the diff
\* compares and no stage reads, and the taint label are left out.)
ParseEntry(e) ==
    [e EXCEPT !.onlyAfter = ToSet(@), !.neverAfter = ToSet(@),
              !.escalateWhen = {r.outcomes : r \in @}]

NoEntry ==
    [mode |-> "", onlyAfter |-> {}, neverAfter |-> {}, priorN |-> {},
     applies |-> FALSE, clears |-> FALSE, neverWhen |-> << >>,
     neverWhenAll |-> FALSE, rateLimit |-> {}, escalateWhen |-> {}]

ParseFile(f) ==
    [mode |-> f.mode, requireEnv |-> f.requireEnv, mayUse |-> ToSet(f.mayUse),
     maxCalls |-> f.maxCalls, maxCost |-> f.maxCost, maxHistory |-> f.maxHistory,
     tools |-> [t \in Tool |-> IF t \in DOMAIN f.tools THEN ParseEntry(f.tools[t]) ELSE NoEntry]]

Rule == [text : STRING, type : STRING, outcomes : Predicate]

\* An entry of `tools`, as written.
ToolEntry ==
    [mode : Mode, onlyAfter : Seq(Tool), neverAfter : Seq(Tool),
     priorN : SUBSET [tool : Tool, count : Nat], applies : BOOLEAN, clears : BOOLEAN,
     neverWhen : Seq(Predicate), neverWhenAll : BOOLEAN,
     rateLimit : SUBSET [max : Nat, window : Nat], escalateWhen : SUBSET Rule]

\* What a rule fires on is a matter of its path, operator and value, which are
\* its text, and of the YAML type of the value.
ASSUME ToolsAssumption ==
    /\ \A fp \in FilePairs : \A v \in Version :
          fp[v].mayUse \in Seq(Tool) /\ \A t \in DOMAIN fp[v].tools : fp[v].tools[t] \in ToolEntry
    /\ \A fp \in FilePairs : \A t \in DOMAIN fp.old.tools \cap DOMAIN fp.new.tools :
          \A o \in fp.old.tools[t].escalateWhen, n \in fp.new.tools[t].escalateWhen :
              o.text = n.text /\ o.type = n.type => o.outcomes = n.outcomes

Parsed(fp) == [old |-> ParseFile(fp.old), new |-> ParseFile(fp.new)]

-----------------------------------------------------------------------------
(* policy diff.                                                            *)

\* Mutant: the lists are compared by length alone.
sameLength(a, b) == Len(a) = Len(b)

\* Same length, and every member of b is in a. (So <<x, y>> and <<x, x>> are
\* taken for the same set, one way round.)
sameStringSet(a, b) == Len(a) = Len(b) /\ ToSet(b) \subseteq ToSet(a)

\* fmt.Sprintf("%v") prints 10 and "10" alike.
sameEscalateRule(a, b) == {r.text : r \in a} = {r.text : r \in b}

\* The fields of a tool entry that the diff compares.
ChangedFields(o, n) ==
    {f \in {"onlyAfter", "neverAfter"} : ~ sameStringSet(o[f], n[f])}
    \cup {f \in {"mode", "priorN", "applies", "clears"} : o[f] # n[f]}
    \cup {f \in {"escalateWhen"} : ~ sameEscalateRule(o[f], n[f])}

\* The lines printed below the header; {} is "(no changes detected)".
printDiff(old, new) ==
    {<<f>> : f \in {g \in {"mode", "maxCalls", "maxCost", "maxHistory"} : old[g] # new[g]}}
    \cup {<<"may_use", "added", t>>   : t \in ToSet(new.mayUse) \ ToSet(old.mayUse)}
    \cup {<<"may_use", "removed", t>> : t \in ToSet(old.mayUse) \ ToSet(new.mayUse)}
    \cup {<<"tools", "added", t>>     : t \in DOMAIN new.tools \ DOMAIN old.tools}
    \cup {<<"tools", "removed", t>>   : t \in DOMAIN old.tools \ DOMAIN new.tools}
    \cup UNION {{<<"tools", f, t>> : f \in ChangedFields(old.tools[t], new.tools[t])} :
                   t \in DOMAIN old.tools \cap DOMAIN new.tools}

\* The pair of files whose policies are in force and under examination.
Compared == {fp \in FilePairs : Parsed(fp) = pols}

-----------------------------------------------------------------------------
(* session inspect --format mermaid.                                       *)

TaintDenial(e) == e.rule = "taint.session_tainted" /\ e.action = "deny"

\* Mutant: an allowed call does not end the cycle.
ScanEventOnce(acc, e) ==
    IF TaintDenial(e) /\ ~ acc.active
    THEN [acc EXCEPT !.result = IF acc.last > 0 THEN @ \cup {acc.last} ELSE @, !.active = TRUE]
    ELSE IF Counts(e) /\ e.rule # "taint.session_tainted" THEN [acc EXCEPT !.last = acc.seq]
    ELSE acc

\* One iteration of detectTaintCausingEvents: the first denial of a cycle blames
\* the last call that went through, and an allowed call ends the cycle.
ScanEvent(acc, e) ==
    IF TaintDenial(e) /\ ~ acc.active
    THEN [acc EXCEPT !.result = IF acc.last > 0 THEN @ \cup {acc.last} ELSE @, !.active = TRUE]
    ELSE IF e.action = "allow" THEN [acc EXCEPT !.last = acc.seq, !.active = FALSE]
    ELSE IF Counts(e) /\ e.rule # "taint.session_tainted" THEN [acc EXCEPT !.last = acc.seq]
    ELSE acc

runInspect(s) ==
    /\ job = "capture"
    /\ job'  = "inspect"
    /\ scan' = [scan EXCEPT !.session = {s}]
    /\ UNCHANGED <<input, line, groups, pass, pos, sess, store, results>>
    /\ UNCHANGED captureVars

\* The events of the session in order; in the end, scan.result are those that
\* the diagram marks "session tainted".
detectTaintCausingEvents(s) ==
    /\ job = "inspect" /\ s \in scan.session
    /\ scan.seq < Len(live.old[s].log)
    /\ scan' = ScanEvent([scan EXCEPT !.seq = @ + 1], live.old[s].log[scan.seq + 1])
    /\ UNCHANGED vars

-----------------------------------------------------------------------------

ToolsInit ==
    /\ Init
    /\ scan = [session |-> {}, seq |-> 0, last |-> 0, active |-> FALSE, result |-> {}]

\* Calls, approvals, `simulate` and `session inspect`; nothing is lost and
\* nothing replayed.
ToolsNext ==
    \/ /\ \/ \E s \in Session, t \in Tool, a \in Args :
                Capture(s, t, a, "none", clock) \/ Approve(s, t, a)
          \/ runSimulate
          \/ ReadEntry
          \/ EndOfFile
          \/ Evaluate
          \/ OldPass
       /\ UNCHANGED scan
    \/ \E s \in Session : runInspect(s) \/ detectTaintCausingEvents(s)

ToolsSpec == ToolsInit /\ [][ToolsNext]_toolsVars

-----------------------------------------------------------------------------
(* Properties.                                                             *)

NoRepeats(f) ==
    /\ IsInjective(f.mayUse)
    /\ \A t \in DOMAIN f.tools :
          IsInjective(f.tools[t].onlyAfter) /\ IsInjective(f.tools[t].neverAfter)

\* The thresholds of a tool's rules in both files have the same YAML type.
SameTypes(fp) ==
    \A t \in DOMAIN fp.old.tools \cap DOMAIN fp.new.tools :
        \A o \in fp.old.tools[t].escalateWhen, n \in fp.new.tools[t].escalateWhen :
            o.type = n.type

RateLimits(pol) == [t \in Tool |-> pol.tools[t].rateLimit]

\* The two commands for reviewing a change agree: where `policy diff` detects
\* no changes, `simulate` reports the same decision under both files for every
\* traced call, over whole sessions.  For lists without repeated names,
\* thresholds whose YAML type did not change, and files with the same rate
\* limits, which the diff does not compare.
SilentDiffChangesNothing ==
    \A fp \in Compared :
        /\ job = "simulate"
        /\ printDiff(fp.old, fp.new) = {}
        /\ NoRepeats(fp.old) /\ NoRepeats(fp.new) /\ SameTypes(fp)
        /\ RateLimits(pols.old) = RateLimits(pols.new)
        => \A i \in 1..Len(mergeResults) : mergeResults[i].old \in {"", mergeResults[i].new}

\* The session is tainted after event k of the log: some earlier allowed call
\* applied the taint and none cleared it since.
TaintedAfter(log, pol, k) ==
    \E j \in 1..k :
        /\ log[j].action = "allow" /\ pol.tools[log[j].tool].applies
        /\ \A i \in (j + 1)..k :
              log[i].action = "allow" => ~ pol.tools[log[i].tool].clears

\* Every call that was denied because of the taint is explained: the diagram
\* marks a call before it, and the session was tainted from that call on.  (The
\* mark need not be on the call that applied the taint: see the README.)
TaintDenialsExplained ==
    \A s \in scan.session :
        LET log == live.old[s].log
        IN  \A n \in 1..scan.seq : TaintDenial(log[n]) =>
                \E i \in scan.result :
                    i < n /\ \A k \in i..(n - 1) : TaintedAfter(log, pols.old, k)

-----------------------------------------------------------------------------

\* printDiff: "Every changed field is listed; unchanged fields are omitted. If
\* nothing changed, a single "(no changes detected)" line is printed."  Then
\* two proxies that serve the files decide all calls alike.
DiffListsEveryChange ==
    \A fp \in Compared :
        /\ NoRepeats(fp.old) /\ NoRepeats(fp.new) /\ SameTypes(fp)
        /\ printDiff(fp.old, fp.new) = {}
        => \A s \in Session : live.old[s].log = live.new[s].log
==============================================================================
