------------------------------- MODULE Reports -------------------------------
(***************************************************************************)
(* How `audit report` and `session inspect` put a session together from    *)
(* its audit records or events and its escalations: three tables that      *)
(* handlers fill in separate steps, joined by session and seq.             *)
(***************************************************************************)
EXTENDS Proxy

\* GetEscalationsBySession, and the map from seq to escalation.
escBySeq(s, n) ==
    {i \in 1..Len(escalations) : escalations[i].session = s /\ escalations[i].seq = n}

\* The escalation status a line of the timeline or of the diagram shows. The
\* last of several rows wins; without a row the line says PENDING.
EscalationStatus(s, n) ==
    LET rows == escBySeq(s, n)
    IN  IF rows = {} THEN "pending"
        ELSE escalations[CHOOSE i \in rows : \A j \in rows : j <= i].status

\* A line shows the fate of its own call: a status other than PENDING stands
\* beside an escalated call only, is the resolution of an escalation of that
\* tool with those arguments, and no other escalation claims the same line,
\* however handlers interleaved and whichever writes failed.
ShownResolutionIsOwn ==
    \A s \in Session, n \in 1..MaxEvents :
        /\ Cardinality(escBySeq(s, n)) <= 1
        /\ EscalationStatus(s, n) # "pending" =>
              /\ n <= Len(events[s]) /\ events[s][n].action = "escalate"
              /\ \E x \in {escalations[i] : i \in 1..Len(escalations)} :
                    /\ x.session = s /\ x.status = EscalationStatus(s, n)
                    /\ x.tool = events[s][n].tool /\ x.args = events[s][n].args
==============================================================================
