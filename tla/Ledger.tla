------------------------------- MODULE Ledger -------------------------------
(***************************************************************************)
(* What the proxy promises to an auditor, with no handlers in it: a log of *)
(* decisions per session that only grows, certificates (audit records)     *)
(* that each repeat one entry of a log, and calls sent to the upstream,    *)
(* each for an entry that permits it, at most once per entry, and, when    *)
(* Strict, only with a certificate.  A closed session stays closed.        *)
(***************************************************************************)
EXTENDS Naturals, Sequences

CONSTANTS
    Session,
    Entry,          \* decisions: records with a tool and an action
    Permits,        \* the entries a call may be sent for
    Strict          \* a call is sent only once its entry is certified

VARIABLES log, certificates, sent, closed

vars == <<log, certificates, sent, closed>>

Init ==
    /\ log = [s \in Session |-> << >>]
    /\ certificates = {}
    /\ sent = [s \in Session |-> {}]
    /\ closed = [s \in Session |-> FALSE]

\* Some entry is added at the end of the log of s.
Record(s) ==
    LET e == log'[s][Len(log'[s])]
    IN  /\ log'[s] # << >> /\ e \in Entry
        /\ log' = [log EXCEPT ![s] = Append(@, e)]
        /\ UNCHANGED <<certificates, sent, closed>>

Certified(s, n) == \E c \in certificates : c.session = s /\ c.seq = n

Certify(s, n) ==
    /\ n \in 1..Len(log[s])
    /\ ~ Certified(s, n)
    /\ certificates' = certificates \cup
          {[session |-> s, seq |-> n, tool |-> log[s][n].tool,
            action |-> log[s][n].action]}
    /\ UNCHANGED <<log, sent, closed>>

Send(s, n) ==
    /\ n \in 1..Len(log[s]) \ sent[s]
    /\ log[s][n] \in Permits
    /\ Strict => Certified(s, n)
    /\ sent' = [sent EXCEPT ![s] = @ \cup {n}]
    /\ UNCHANGED <<log, certificates, closed>>

Close(s) ==
    /\ closed' = [closed EXCEPT ![s] = TRUE]
    /\ UNCHANGED <<log, certificates, sent>>

Next ==
    \E s \in Session :
        \/ Record(s)
        \/ \E n \in 1..Len(log[s]) : Certify(s, n) \/ Send(s, n)
        \/ Close(s)

Spec == Init /\ [][Next]_vars
=============================================================================
