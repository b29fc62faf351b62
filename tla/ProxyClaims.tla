----------------------------- MODULE ProxyClaims -----------------------------
(* What the documentation and comments of the repository say of the proxy   *)
(* and the code does not do.  Each is refuted by a run.                     *)
EXTENDS Reports

Quiet(s) == Busy(s) = {} /\ row[s].exists

\* internal/session/session.go: "Tainted is true if any tool with taint.applies
\* = true has been called in this session and no subsequent tool with
\* taint.clears = true has run."
TaintFlagFollowsHistory ==
    \A s \in Session : Quiet(s) =>
        LET calls == {i \in 1..Len(events[s]) : Counts(events[s][i])}
            applies(i) == Pol.tools[events[s][i].tool].applies
            clears(i)  == Pol.tools[events[s][i].tool].clears
        IN  (\E i \in calls : applies(i) /\ \A j \in calls : j > i => ~clears(j))
                => row[s].tainted
==============================================================================
