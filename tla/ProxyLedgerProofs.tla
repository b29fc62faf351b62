------------------------- MODULE ProxyLedgerProofs -------------------------
(* What the tables of the proxy say of each other.  Handlers write the event,*)
(* the audit record, the escalation and the forward of a call in separate    *)
(* steps, and any of them may fail; LedgerInv says what every handler in the *)
(* middle of that may rely on.  It is inductive, and the properties of the   *)
(* recording half of handleMCP follow from it.                               *)
EXTENDS ProxyProofs, Reports

-----------------------------------------------------------------------------
(* The inductive invariant.                                                 *)

\* The row of session_events at seq n of session s records this decision.
EventIs(s, n, t, a, action) ==
    /\ n \in 1..Len(events[s])
    /\ events[s][n].tool = t
    /\ events[s][n].args = a
    /\ events[s][n].action = action

Audited(s, n)   == \E r \in audit : r.session = s /\ r.seq = n
Escalated(s, n) == escBySeq(s, n) # {}
Fires(t, a)     == \E p \in Pol.tools[t].escalateWhen : p[a] = "fires"

\* The handler has appended its event and its request is still open.
Recorded(l) == l.pc \in {"audit", "taint", "respond", "forward"}

\* What a handler may rely on: its event is in the log as it decided it, and
\* what it has still to do for that event nobody has done; once past the audit
\* step, the record is there or the handler knows it is not.  A handler about
\* to record "allow" for a call that escalate_when catches has seen an approval.
HandlerSound(l) ==
    /\ Recorded(l) => /\ EventIs(l.session, l.seq, l.tool, l.args, l.action)
                      /\ l.seq \notin forwarded[l.session]
                      /\ ~ Escalated(l.session, l.seq)
    /\ l.pc = "audit" => ~ Audited(l.session, l.seq)
    /\ l.pc \in {"taint", "respond", "forward"} =>
          ~ HasKey \/ l.auditFailed \/ Audited(l.session, l.seq)
    /\ l.pc = "forward" => /\ l.action \in {"allow", "shadow_deny"}
                           /\ ~ (l.auditFailed /\ AuditStrict)
    /\ l.pc = "append" /\ l.action = "allow" /\ Fires(l.tool, l.args) =>
          HasApprovedEscalation(l.session, l.tool, l.args)

HandlersSound == \A h \in Handler : HandlerSound(loc[h])

\* No two handlers hold the same event.
EventsOwned ==
    \A g, h \in Handler :
        /\ Recorded(loc[g]) /\ Recorded(loc[h])
        /\ loc[g].session = loc[h].session /\ loc[g].seq = loc[h].seq
        => g = h

\* An escalation belongs to one escalated event, and no other one does.
EscalationsOwnEvents ==
    \A i \in 1..Len(escalations) :
        /\ EventIs(escalations[i].session, escalations[i].seq,
                   escalations[i].tool, escalations[i].args, "escalate")
        /\ \A j \in escBySeq(escalations[i].session, escalations[i].seq) : j = i

LedgerInv ==
    /\ HandlersSound /\ EventsOwned /\ EscalationsOwnEvents
    /\ ForwardedIsRecorded /\ AuditAgreesWithEvents /\ ApprovalPrecedesAllow

-----------------------------------------------------------------------------
(* Steps that touch no table of the ledger.                                 *)

\* A handler that moves on to a local state it may rely on, with the event it
\* already held or with none, keeps the invariant.
LEMMA QuietKeepsLedger ==
    ASSUME LedgerInv, NEW h \in Handler,
           \A g \in Handler \ {h} : loc'[g] = loc[g],
           UNCHANGED <<events, audit, escalations, forwarded>>,
           HandlerSound(loc'[h]),
           Recorded(loc'[h]) => /\ Recorded(loc[h])
                                /\ loc'[h].session = loc[h].session
                                /\ loc'[h].seq = loc[h].seq
    PROVE  LedgerInv'
<1>1. \A g \in Handler : HandlerSound(loc'[g])
  BY DEF LedgerInv, HandlersSound
<1>2. HandlersSound'
  BY <1>1 DEF HandlersSound, HandlerSound, EventIs, Audited, Escalated, escBySeq,
              Recorded, HasApprovedEscalation
<1>3. EventsOwned'
  BY DEF LedgerInv, EventsOwned
<1>4. EscalationsOwnEvents'
  BY DEF LedgerInv, EscalationsOwnEvents, EventIs, escBySeq
<1>5. ForwardedIsRecorded' /\ AuditAgreesWithEvents' /\ ApprovalPrecedesAllow'
  BY DEF LedgerInv, ForwardedIsRecorded, AuditAgreesWithEvents, ApprovalPrecedesAllow
<1> QED BY <1>2, <1>3, <1>4, <1>5 DEF LedgerInv

\* A handler that has not recorded anything yet, and is not about to, relies on
\* nothing.
LEMMA UnrecordedIsSound ==
    ASSUME NEW l, l.pc \in PC \ {"append", "audit", "taint", "respond", "forward"}
    PROVE  HandlerSound(l) /\ ~ Recorded(l)
BY DEF HandlerSound, Recorded, PC

\* Ending the request in whatever way keeps the invariant.
LEMMA ReturnKeepsLedger ==
    ASSUME TypeOK, LedgerInv, NEW h \in Handler, Return(h),
           UNCHANGED <<events, audit, escalations, forwarded>>
    PROVE  LedgerInv'
<1>1. loc'[h] = AnIdle /\ \A g \in Handler \ {h} : loc'[g] = loc[g]
  BY DEF Return, Become, TypeOK
<1>2. AnIdle.pc = "idle"
  BY DEF AnIdle, Idle
<1> QED BY <1>1, <1>2, UnrecordedIsSound, QuietKeepsLedger DEF PC

\* So does the end of a pipeline stage, if a call that escalate_when catches is
\* only allowed with an approval.
LEMMA JudgeKeepsLedger ==
    ASSUME TypeOK, LedgerInv, NEW h \in Handler, NEW v \in Verdict,
           NEW p \in {"ratelimit", "escalation", "append"}, Judge(h, v, p),
           p = "append" /\ v = "allow" /\ Fires(loc[h].tool, loc[h].args) =>
              HasApprovedEscalation(loc[h].session, loc[h].tool, loc[h].args),
           UNCHANGED <<events, audit, escalations, forwarded>>
    PROVE  LedgerInv'
<1>0. loc[h] \in Local /\ loc[h].tool \in Tool /\ loc \in [Handler -> Local]
  BY DEF TypeOK, Local
<1>1. \A g \in Handler \ {h} : loc'[g] = loc[g]
  BY <1>0 DEF Judge, Goto, Become
<1>2. CASE v = "allow" /\ p # "append"
  <2>1. loc'[h] = [loc[h] EXCEPT !.pc = p]
    BY <1>0, <1>2 DEF Judge, Goto, Become
  <2>2. loc'[h].pc \in {"ratelimit", "escalation"}
    BY <1>0, <1>2, <2>1 DEF Local
  <2> QED BY <1>1, <2>2, UnrecordedIsSound, QuietKeepsLedger DEF PC
<1>3. CASE ~ (v = "allow" /\ p # "append")
  <2>1. /\ loc'[h].pc = "append" /\ loc'[h].action = Decide(v, loc[h].tool, Pol)
        /\ loc'[h].session = loc[h].session /\ loc'[h].tool = loc[h].tool
        /\ loc'[h].args = loc[h].args
    BY <1>0, <1>3 DEF Judge, Become, Local
  <2>2. loc'[h].action = "allow" => v = "allow" /\ p = "append"
    BY <1>0, <1>3, <2>1, DecideIsTotal
  <2>3. HandlerSound(loc'[h]) /\ ~ Recorded(loc'[h])
    BY <2>1, <2>2 DEF HandlerSound, Recorded
  <2> QED BY <1>1, <2>3, QuietKeepsLedger
<1> QED BY <1>2, <1>3

-----------------------------------------------------------------------------
(* Steps that write a table of the ledger.                                  *)

\* Audit records and escalations are about sessions.
LEMMA RowsNameSessions ==
    ASSUME TypeOK
    PROVE  /\ \A r \in audit : r.session \in Session
           /\ \A i \in 1..Len(escalations) :
                  escalations[i] \in EscRec /\ escalations[i].session \in Session
<1>1. \A r \in audit : r.session \in Session
  BY DEF TypeOK, AuditRec
<1>2. ASSUME NEW i \in 1..Len(escalations)
      PROVE  escalations[i] \in EscRec /\ escalations[i].session \in Session
  <2>1. escalations \in Seq(EscRec)
    BY DEF TypeOK
  <2>2. escalations[i] \in EscRec
    BY <2>1, ElementOfSeq
  <2> QED BY <2>2 DEF EscRec
<1> QED BY <1>1, <1>2

\* Store.AppendEvent.  The new seq lies beyond every seq that a handler, an
\* audit record, an escalation or a forward refers to.
LEMMA AppendKeepsLedger ==
    ASSUME TypeOK, TypeOK', LedgerInv, NEW h \in Handler, NEW e \in Event,
           loc[h].pc = "append",
           e.tool = loc[h].tool, e.args = loc[h].args, e.action = loc[h].action,
           events' = [events EXCEPT ![loc[h].session] = Append(@, e)],
           Become(h, [loc[h] EXCEPT !.pc = "audit",
                                    !.seq = Len(events[loc[h].session]) + 1]),
           UNCHANGED <<audit, escalations, forwarded>>
    PROVE  LedgerInv'
<1> DEFINE s == loc[h].session
           n == Len(events[s]) + 1
<1>0. /\ loc \in [Handler -> Local] /\ loc[h] \in Local /\ s \in Session
      /\ events \in [Session -> Seq(Event)] /\ events[s] \in Seq(Event)
      /\ \A g \in Handler : loc[g].session \in Session
      /\ audit \subseteq AuditRec /\ escalations \in Seq(EscRec)
  BY DEF TypeOK, Local
<1>a. /\ \A r \in audit : r.session \in Session
      /\ \A i \in 1..Len(escalations) : escalations[i].session \in Session
  BY RowsNameSessions
<1>1. /\ \A g \in Handler \ {h} : loc'[g] = loc[g]
      /\ loc'[h].pc = "audit" /\ loc'[h].seq = n /\ loc'[h].session = s
      /\ loc'[h].tool = loc[h].tool /\ loc'[h].args = loc[h].args
      /\ loc'[h].action = loc[h].action
  BY <1>0 DEF Become, Local
<1>2. /\ Len(events[s]) \in Nat /\ events'[s] = Append(events[s], e)
      /\ Len(events'[s]) = n /\ events'[s][n] = e
  BY <1>0
<1>3. ASSUME NEW x \in Session, NEW i \in 1..Len(events[x])
      PROVE  i \in 1..Len(events'[x]) /\ events'[x][i] = events[x][i]
  BY <1>0, <1>2
<1>4. \A x \in Session : \A i, t, a, act : EventIs(x, i, t, a, act) => EventIs(x, i, t, a, act)'
  BY <1>3 DEF EventIs
<1>5. \A x, i : /\ Audited(x, i)' <=> Audited(x, i)
                /\ Escalated(x, i)' <=> Escalated(x, i)
  BY DEF Audited, Escalated, escBySeq
<1>6. \A x, t, a : HasApprovedEscalation(x, t, a) => HasApprovedEscalation(x, t, a)'
  BY DEF HasApprovedEscalation
<1>7. HandlersSound /\ EventsOwned /\ EscalationsOwnEvents /\ ForwardedIsRecorded
      /\ AuditAgreesWithEvents /\ ApprovalPrecedesAllow
  BY DEF LedgerInv
<1>8. n \notin forwarded[s] /\ ~ Audited(s, n) /\ ~ Escalated(s, n)
  <2>1. n \notin 1..Len(events[s])
    BY <1>2
  <2>2. n \notin forwarded[s]
    BY <1>0, <1>7, <2>1 DEF ForwardedIsRecorded
  <2>3. ~ Audited(s, n)
    BY <1>7, <2>1 DEF AuditAgreesWithEvents, Audited
  <2>4. ~ Escalated(s, n)
    BY <1>7, <2>1 DEF EscalationsOwnEvents, EventIs, Escalated, escBySeq
  <2> QED BY <2>2, <2>3, <2>4
<1>9. HandlersSound'
  <2>1. ASSUME NEW g \in Handler \ {h} PROVE HandlerSound(loc[g])'
    <3>1. HandlerSound(loc[g]) /\ loc[g].session \in Session
      BY <1>0, <1>7 DEF HandlersSound
    <3> QED BY <1>1, <1>4, <1>5, <1>6, <3>1 DEF HandlerSound, Recorded
  <2>2. EventIs(loc[h].session, loc[h].seq, loc[h].tool, loc[h].args, loc[h].action)'
    BY <1>1, <1>2 DEF EventIs
  <2>3. HandlerSound(loc[h])'
    BY <1>1, <1>5, <1>8, <2>2 DEF HandlerSound, Recorded
  <2> QED BY <2>1, <2>3 DEF HandlersSound
<1>10. EventsOwned'
  <2>1. ASSUME NEW g \in Handler \ {h}, Recorded(loc[g]), loc[g].session = s
        PROVE  loc[g].seq # n
    <3>1. loc[g].seq \in 1..Len(events[s])
      BY <1>7, <2>1 DEF HandlersSound, HandlerSound, EventIs
    <3> QED BY <1>2, <3>1
  <2> QED BY <1>1, <1>7, <2>1 DEF EventsOwned
<1>11. EscalationsOwnEvents'
  BY <1>a, <1>4, <1>7 DEF EscalationsOwnEvents, escBySeq
<1>12. ForwardedIsRecorded' /\ AuditAgreesWithEvents'
  <2>1. ForwardedIsRecorded'
    BY <1>3, <1>7 DEF ForwardedIsRecorded
  <2>2. AuditAgreesWithEvents'
    BY <1>a, <1>3, <1>7 DEF AuditAgreesWithEvents
  <2> QED BY <2>1, <2>2
<1>13. ApprovalPrecedesAllow'
  <2> SUFFICES ASSUME NEW x \in Session, NEW m \in 1..Len(events'[x]),
                      events'[x][m].action = "allow",
                      Fires(events'[x][m].tool, events'[x][m].args)
               PROVE  \E i \in 1..Len(escalations) :
                         /\ escalations[i].session = x
                         /\ escalations[i].seq < m
                         /\ escalations[i].tool = events'[x][m].tool
                         /\ escalations[i].args = events'[x][m].args
                         /\ escalations[i].status = "approved"
    BY DEF ApprovalPrecedesAllow, Fires
  <2>1. CASE m \in 1..Len(events[x])
    <3>1. events'[x][m] = events[x][m]
      BY <1>3, <2>1
    <3> QED BY <1>7, <2>1, <3>1 DEF ApprovalPrecedesAllow, Fires
  <2>2. CASE m \notin 1..Len(events[x])
    <3>1. x = s /\ m = n
      BY <1>0, <1>2, <2>2
    <3>2. HasApprovedEscalation(s, loc[h].tool, loc[h].args)
      BY <1>2, <1>7, <3>1 DEF HandlersSound, HandlerSound
    <3>3. PICK i \in 1..Len(escalations) :
              /\ escalations[i].session = s /\ escalations[i].tool = loc[h].tool
              /\ escalations[i].args = loc[h].args /\ escalations[i].status = "approved"
      BY <3>2 DEF HasApprovedEscalation
    <3>4. escalations[i].seq \in 1..Len(events[s])
      BY <1>7, <3>3 DEF EscalationsOwnEvents, EventIs
    <3>5. escalations[i].seq < m
      BY <1>2, <3>1, <3>4
    <3>6. events'[x][m] = e
      BY <1>2, <3>1
    <3> QED BY <3>1, <3>3, <3>5, <3>6
  <2> QED BY <2>1, <2>2
<1> QED BY <1>9, <1>10, <1>11, <1>12, <1>13 DEF LedgerInv

\* writeAuditRecord.  Only the handler that holds the event writes its record.
LEMMA AuditKeepsLedger ==
    ASSUME TypeOK, LedgerInv, NEW h \in Handler, WriteAudit(h)
    PROVE  LedgerInv'
<1> DEFINE s == loc[h].session
           n == loc[h].seq
           next == IF loc[h].tainted # loc[h].sess.tainted THEN "taint" ELSE "respond"
           r == [session |-> s, seq |-> n, tool |-> loc[h].tool, action |-> loc[h].action]
<1>0. loc \in [Handler -> Local] /\ loc[h] \in Local /\ s \in Session
  BY DEF TypeOK, Local
<1>1. HandlersSound /\ EventsOwned /\ EscalationsOwnEvents /\ ForwardedIsRecorded
      /\ AuditAgreesWithEvents /\ ApprovalPrecedesAllow
  BY DEF LedgerInv
<1>3. next \in {"taint", "respond"} /\ r.session = s /\ r.seq = n
  OBVIOUS
<1>a. \/ /\ loc' = [loc EXCEPT ![h] = [loc[h] EXCEPT !.pc = next]]
         /\ audit' = IF HasKey THEN audit \cup {r} ELSE audit
      \/ /\ loc' = [loc EXCEPT ![h] = [loc[h] EXCEPT !.pc = next, !.auditFailed = TRUE]]
         /\ audit' = audit
  BY DEF WriteAudit, Goto, Become
<1>b. loc[h].pc = "audit" /\ UNCHANGED <<events, escalations, forwarded>>
  BY DEF WriteAudit
<1> HIDE DEF next
<1>2. /\ loc[h].pc = "audit" /\ UNCHANGED <<events, escalations, forwarded>>
      /\ \A g \in Handler \ {h} : loc'[g] = loc[g]
      /\ loc'[h].pc = next /\ loc'[h].session = s /\ loc'[h].seq = n
      /\ loc'[h].tool = loc[h].tool /\ loc'[h].args = loc[h].args
      /\ loc'[h].action = loc[h].action
  <2>1. CASE loc' = [loc EXCEPT ![h] = [loc[h] EXCEPT !.pc = next]]
    BY <1>0, <1>b, <2>1 DEF Local
  <2>2. CASE loc' = [loc EXCEPT ![h] = [loc[h] EXCEPT !.pc = next, !.auditFailed = TRUE]]
    BY <1>0, <1>b, <2>2 DEF Local
  <2> QED BY <1>a, <2>1, <2>2
<1>4. /\ HandlerSound(loc[h]) /\ Recorded(loc[h])
      /\ EventIs(s, n, loc[h].tool, loc[h].args, loc[h].action)
      /\ n \notin forwarded[s] /\ ~ Escalated(s, n) /\ ~ Audited(s, n)
  BY <1>1, <1>2 DEF HandlersSound, HandlerSound, Recorded
<1>5. CASE audit' = audit /\ (~ HasKey \/ loc'[h].auditFailed)
  <2>1. HandlerSound(loc'[h])
    BY <1>2, <1>3, <1>4, <1>5 DEF HandlerSound, Recorded
  <2> QED BY <1>2, <1>4, <1>5, <2>1, QuietKeepsLedger
<1>6. CASE audit' = audit \cup {r}
  <2>1. \A x, i : /\ Audited(x, i)' <=> Audited(x, i) \/ (x = s /\ i = n)
                  /\ Escalated(x, i)' <=> Escalated(x, i)
    <3> HIDE DEF r, s, n
    <3> QED BY <1>2, <1>3, <1>6 DEF Audited, Escalated, escBySeq
  <2>2. /\ \A x, i, t, a, act : EventIs(x, i, t, a, act)' <=> EventIs(x, i, t, a, act)
        /\ \A x, t, a : HasApprovedEscalation(x, t, a)' <=> HasApprovedEscalation(x, t, a)
    BY <1>2 DEF EventIs, HasApprovedEscalation
  <2>3. HandlersSound'
    <3>1. ASSUME NEW g \in Handler \ {h} PROVE HandlerSound(loc[g])'
      <4>1. HandlerSound(loc[g]) /\ loc'[g] = loc[g]
        BY <1>1, <1>2 DEF HandlersSound
      <4>2. Recorded(loc[g]) => ~ (loc[g].session = s /\ loc[g].seq = n)
        BY <1>1, <1>4 DEF EventsOwned
      <4> HIDE DEF s, n
      <4> QED BY <1>2, <2>1, <2>2, <4>1, <4>2 DEF HandlerSound, Recorded
    <3>2. HandlerSound(loc[h])'
      BY <1>2, <1>3, <1>4, <2>1, <2>2 DEF HandlerSound, Recorded
    <3> QED BY <3>1, <3>2 DEF HandlersSound
  <2>4. EventsOwned'
    BY <1>1, <1>2, <1>4 DEF EventsOwned
  <2>5. EscalationsOwnEvents' /\ ApprovalPrecedesAllow'
    BY <1>1, <1>2 DEF EscalationsOwnEvents, EventIs, escBySeq, ApprovalPrecedesAllow
  <2>6. ForwardedIsRecorded'
    BY <1>1, <1>2, <1>6 DEF ForwardedIsRecorded
  <2>7. AuditAgreesWithEvents'
    BY <1>1, <1>2, <1>4, <1>6 DEF AuditAgreesWithEvents, EventIs
  <2> QED BY <2>3, <2>4, <2>5, <2>6, <2>7 DEF LedgerInv
<1>7. \/ audit' = audit /\ (~ HasKey \/ loc'[h].auditFailed)
      \/ audit' = audit \cup {r}
  BY <1>0, <1>a DEF Local
<1> QED BY <1>5, <1>6, <1>7

\* The upstream call.  Only the handler that holds the event forwards it.
LEMMA ForwardKeepsLedger ==
    ASSUME TypeOK, LedgerInv, NEW h \in Handler, Forward(h)
    PROVE  LedgerInv'
<1> DEFINE s == loc[h].session
           n == loc[h].seq
<1>0. /\ loc \in [Handler -> Local] /\ s \in Session /\ forwarded \in [Session -> SUBSET Nat]
      /\ \A g \in Handler : loc[g].session \in Session
  BY DEF TypeOK, Local
<1>1. HandlersSound /\ EventsOwned /\ EscalationsOwnEvents /\ ForwardedIsRecorded
      /\ AuditAgreesWithEvents /\ ApprovalPrecedesAllow
  BY DEF LedgerInv
<1>2. /\ loc[h].pc = "forward" /\ UNCHANGED <<events, audit, escalations>>
      /\ \A g \in Handler \ {h} : loc'[g] = loc[g]
      /\ loc'[h].pc = "idle"
  BY <1>0 DEF Forward, Return, Become, AnIdle, Idle
<1>3. \A x \in Session : forwarded'[x] = IF x = s THEN forwarded[s] \cup {n} ELSE forwarded[x]
  BY <1>0 DEF Forward
<1>4. /\ HandlerSound(loc[h]) /\ Recorded(loc[h])
      /\ EventIs(s, n, loc[h].tool, loc[h].args, loc[h].action)
      /\ loc[h].action \in {"allow", "shadow_deny"}
      /\ HasKey /\ AuditStrict => Audited(s, n)
  BY <1>1, <1>2 DEF HandlersSound, HandlerSound, Recorded
<1>5. HandlersSound'
  <2>1. \A x, i : /\ Audited(x, i)' <=> Audited(x, i)
                  /\ Escalated(x, i)' <=> Escalated(x, i)
    BY <1>2 DEF Audited, Escalated, escBySeq
  <2>2. /\ \A x, i, t, a, act : EventIs(x, i, t, a, act)' <=> EventIs(x, i, t, a, act)
        /\ \A x, t, a : HasApprovedEscalation(x, t, a)' <=> HasApprovedEscalation(x, t, a)
    BY <1>2 DEF EventIs, HasApprovedEscalation
  <2>3. ASSUME NEW g \in Handler \ {h} PROVE HandlerSound(loc[g])'
    <3>1. HandlerSound(loc[g]) /\ loc'[g] = loc[g] /\ loc[g].session \in Session
      BY <1>0, <1>1, <1>2 DEF HandlersSound
    <3>2. Recorded(loc[g]) => ~ (loc[g].session = s /\ loc[g].seq = n)
      BY <1>1, <1>4 DEF EventsOwned
    <3> HIDE DEF s, n
    <3>3. Recorded(loc[g]) => loc[g].seq \notin forwarded'[loc[g].session]
      BY <1>3, <3>1, <3>2 DEF HandlerSound
    <3> QED BY <1>2, <2>1, <2>2, <3>1, <3>3 DEF HandlerSound, Recorded
  <2>4. HandlerSound(loc[h])'
    BY <1>2 DEF HandlerSound, Recorded
  <2> QED BY <2>3, <2>4 DEF HandlersSound
<1>6. EventsOwned'
  BY <1>1, <1>2 DEF EventsOwned, Recorded
<1>7. EscalationsOwnEvents' /\ ApprovalPrecedesAllow' /\ AuditAgreesWithEvents'
  BY <1>1, <1>2 DEF EscalationsOwnEvents, EventIs, escBySeq, ApprovalPrecedesAllow,
                    AuditAgreesWithEvents
<1>8. ForwardedIsRecorded'
  BY <1>1, <1>2, <1>3, <1>4 DEF ForwardedIsRecorded, EventIs, Counts, Audited
<1> QED BY <1>5, <1>6, <1>7, <1>8 DEF LedgerInv

\* Store.CreateEscalation.  Only the handler that holds the event escalates it.
LEMMA EscalationKeepsLedger ==
    ASSUME TypeOK, LedgerInv, NEW h \in Handler, CreateEscalation(h)
    PROVE  LedgerInv'
<1> DEFINE s == loc[h].session
           n == loc[h].seq
           x == [session |-> s, seq |-> n, tool |-> loc[h].tool, args |-> loc[h].args,
                 status |-> "pending"]
           k == Len(escalations) + 1
<1>0. /\ loc \in [Handler -> Local] /\ s \in Session /\ escalations \in Seq(EscRec)
      /\ Len(escalations) \in Nat
  BY DEF TypeOK, Local
<1>1. HandlersSound /\ EventsOwned /\ EscalationsOwnEvents /\ ForwardedIsRecorded
      /\ AuditAgreesWithEvents /\ ApprovalPrecedesAllow
  BY DEF LedgerInv
<1>2. /\ loc[h].pc = "respond" /\ loc[h].action = "escalate"
      /\ UNCHANGED <<events, audit, forwarded>> /\ Return(h)
      /\ \A g \in Handler \ {h} : loc'[g] = loc[g]
      /\ loc'[h].pc = "idle"
  BY <1>0 DEF CreateEscalation, Return, Become, AnIdle, Idle
<1>3. /\ Recorded(loc[h]) /\ EventIs(s, n, loc[h].tool, loc[h].args, "escalate")
      /\ ~ Escalated(s, n)
  BY <1>1, <1>2 DEF HandlersSound, HandlerSound, Recorded
<1>4. CASE escalations' = escalations
  BY <1>2, <1>4, ReturnKeepsLedger
<1>5. CASE escalations' = Append(escalations, x)
  <2>0. x.session = s /\ x.seq = n /\ x.tool = loc[h].tool /\ x.args = loc[h].args
        /\ x.status = "pending"
    OBVIOUS
  <2> HIDE DEF x
  <2>1. /\ Len(escalations') = k /\ escalations'[k] = x
        /\ \A i \in 1..Len(escalations) :
              i \in 1..Len(escalations') /\ escalations'[i] = escalations[i]
        /\ \A i \in 1..Len(escalations') : i = k \/ i \in 1..Len(escalations)
        /\ k \notin 1..Len(escalations) /\ k \in 1..Len(escalations')
    BY <1>0, <1>5
  <2> HIDE DEF k, s, n
  <2>2. \A y, m : escBySeq(y, m)' = escBySeq(y, m) \cup (IF y = s /\ m = n THEN {k} ELSE {})
    BY <2>0, <2>1 DEF escBySeq
  <2>3. \A y, m : /\ Audited(y, m)' <=> Audited(y, m)
                  /\ Escalated(y, m)' <=> Escalated(y, m) \/ (y = s /\ m = n)
    BY <1>2, <2>2 DEF Audited, Escalated
  <2>4. /\ \A y, i, t, a, act : EventIs(y, i, t, a, act)' <=> EventIs(y, i, t, a, act)
        /\ \A y, t, a : HasApprovedEscalation(y, t, a) => HasApprovedEscalation(y, t, a)'
    BY <1>2, <2>1 DEF EventIs, HasApprovedEscalation
  <2>5. HandlersSound'
    <3>1. ASSUME NEW g \in Handler \ {h} PROVE HandlerSound(loc[g])'
      <4>1. HandlerSound(loc[g]) /\ loc'[g] = loc[g]
        BY <1>1, <1>2 DEF HandlersSound
      <4>2. Recorded(loc[g]) => ~ (loc[g].session = s /\ loc[g].seq = n)
        BY <1>1, <1>3 DEF EventsOwned, s, n
      <4> QED BY <1>2, <2>3, <2>4, <4>1, <4>2 DEF HandlerSound, Recorded
    <3>2. HandlerSound(loc[h])'
      BY <1>2 DEF HandlerSound, Recorded
    <3> QED BY <3>1, <3>2 DEF HandlersSound
  <2>6. EventsOwned'
    BY <1>1, <1>2 DEF EventsOwned, Recorded
  <2>7. EscalationsOwnEvents'
    <3> SUFFICES ASSUME NEW i \in 1..Len(escalations')
                 PROVE  /\ EventIs(escalations'[i].session, escalations'[i].seq,
                                   escalations'[i].tool, escalations'[i].args, "escalate")
                        /\ \A j \in escBySeq(escalations[i].session, escalations[i].seq)' :
                              j = i
      BY <2>4 DEF EscalationsOwnEvents
    <3>1. escBySeq(s, n) = {}
      BY <1>3 DEF Escalated
    <3>2. CASE i = k
      BY <1>3, <2>0, <2>1, <2>2, <3>1, <3>2
    <3>3. CASE i \in 1..Len(escalations)
      <4>1. /\ EventIs(escalations[i].session, escalations[i].seq,
                       escalations[i].tool, escalations[i].args, "escalate")
            /\ \A j \in escBySeq(escalations[i].session, escalations[i].seq) : j = i
            /\ i \in escBySeq(escalations[i].session, escalations[i].seq)
        BY <1>1, <3>3 DEF EscalationsOwnEvents, escBySeq
      <4> QED BY <2>1, <2>2, <3>1, <3>3, <4>1
    <3> QED BY <2>1, <3>2, <3>3
  <2>8. ForwardedIsRecorded' /\ AuditAgreesWithEvents'
    BY <1>1, <1>2 DEF ForwardedIsRecorded, AuditAgreesWithEvents
  <2>9. ApprovalPrecedesAllow'
    BY <1>1, <1>2, <2>1 DEF ApprovalPrecedesAllow
  <2> QED BY <2>5, <2>6, <2>7, <2>8, <2>9 DEF LedgerInv
<1> QED BY <1>4, <1>5 DEF CreateEscalation

\* Approve or reject.  The row keeps what it is about, and no approval is lost.
LEMMA ResolveKeepsLedger ==
    ASSUME TypeOK, LedgerInv, NEW k \in 1..Len(escalations), NEW st,
           resolveEscalation(k, st)
    PROVE  LedgerInv'
<1>0. escalations \in Seq(EscRec) /\ escalations[k] \in EscRec
  BY RowsNameSessions DEF TypeOK
<1>1. HandlersSound /\ EventsOwned /\ EscalationsOwnEvents /\ ForwardedIsRecorded
      /\ AuditAgreesWithEvents /\ ApprovalPrecedesAllow
  BY DEF LedgerInv
<1>2. UNCHANGED <<events, audit, loc, forwarded>> /\ escalations[k].status = "pending"
  BY DEF resolveEscalation
<1>3. /\ Len(escalations') = Len(escalations)
      /\ escalations'[k] = [escalations[k] EXCEPT !.status = st]
      /\ \A i \in 1..Len(escalations) : i # k => escalations'[i] = escalations[i]
  BY <1>0 DEF resolveEscalation
<1>4. \A i \in 1..Len(escalations) :
         /\ escalations'[i].session = escalations[i].session
         /\ escalations'[i].seq = escalations[i].seq
         /\ escalations'[i].tool = escalations[i].tool
         /\ escalations'[i].args = escalations[i].args
         /\ escalations[i].status = "approved" => escalations'[i].status = "approved"
  BY <1>0, <1>2, <1>3 DEF EscRec
<1>5. \A y, m : escBySeq(y, m)' = escBySeq(y, m)
  BY <1>3, <1>4 DEF escBySeq
<1>6. HandlersSound'
  <2>1. \A y, m : (Audited(y, m)' <=> Audited(y, m)) /\ (Escalated(y, m)' <=> Escalated(y, m))
    BY <1>2, <1>5 DEF Audited, Escalated
  <2>2. /\ \A y, i, t, a, act : EventIs(y, i, t, a, act)' <=> EventIs(y, i, t, a, act)
        /\ \A y, t, a : HasApprovedEscalation(y, t, a) => HasApprovedEscalation(y, t, a)'
    BY <1>2, <1>3, <1>4 DEF EventIs, HasApprovedEscalation
  <2> QED BY <1>1, <1>2, <2>1, <2>2 DEF HandlersSound, HandlerSound, Recorded
<1>7. EventsOwned'
  BY <1>1, <1>2 DEF EventsOwned
<1>8. EscalationsOwnEvents'
  BY <1>1, <1>2, <1>3, <1>4 DEF EscalationsOwnEvents, EventIs, escBySeq
<1>9. ForwardedIsRecorded' /\ AuditAgreesWithEvents'
  BY <1>1, <1>2 DEF ForwardedIsRecorded, AuditAgreesWithEvents
<1>10. ApprovalPrecedesAllow'
  <2> SUFFICES ASSUME NEW y \in Session, NEW m \in 1..Len(events[y]),
                      events[y][m].action = "allow",
                      Fires(events[y][m].tool, events[y][m].args)
               PROVE  \E i \in 1..Len(escalations') :
                         /\ escalations'[i].session = y
                         /\ escalations'[i].seq < m
                         /\ escalations'[i].tool = events[y][m].tool
                         /\ escalations'[i].args = events[y][m].args
                         /\ escalations'[i].status = "approved"
    BY <1>2 DEF ApprovalPrecedesAllow, Fires
  <2>1. PICK i \in 1..Len(escalations) :
            /\ escalations[i].session = y
            /\ escalations[i].seq < m
            /\ escalations[i].tool = events[y][m].tool
            /\ escalations[i].args = events[y][m].args
            /\ escalations[i].status = "approved"
    BY <1>1 DEF ApprovalPrecedesAllow, Fires
  <2> QED BY <1>3, <1>4, <2>1
<1> QED BY <1>6, <1>7, <1>8, <1>9, <1>10 DEF LedgerInv

-----------------------------------------------------------------------------
(* LedgerInv is an invariant.                                               *)

\* Empty tables and idle handlers.
LEMMA LedgerInit == Init => LedgerInv
<1> SUFFICES ASSUME Init PROVE LedgerInv
  OBVIOUS
<1>1. \A h \in Handler : loc[h].pc = "idle"
  BY DEF Init, AnIdle, Idle
<1>2. HandlersSound /\ EventsOwned
  BY <1>1 DEF HandlersSound, HandlerSound, EventsOwned, Recorded
<1>3. /\ \A s \in Session : forwarded[s] = {} /\ Len(events[s]) = 0
      /\ audit = {} /\ Len(escalations) = 0
  BY DEF Init
<1>4. EscalationsOwnEvents
  BY <1>3 DEF EscalationsOwnEvents
<1>5. ForwardedIsRecorded /\ AuditAgreesWithEvents /\ ApprovalPrecedesAllow
  BY <1>3 DEF ForwardedIsRecorded, AuditAgreesWithEvents, ApprovalPrecedesAllow
<1> QED BY <1>2, <1>4, <1>5 DEF LedgerInv

\* The escalation stage allows a call that escalate_when catches only with an
\* approval in the table.
LEMMA EscalationNeedsApproval ==
    ASSUME NEW s, NEW t \in Tool, NEW a \in Args,
           EscalationEvaluator(t, a, Pol, HasApprovedEscalation(s, t, a)) = "allow",
           Fires(t, a)
    PROVE  HasApprovedEscalation(s, t, a)
<1>1. "fires" \in {p[a] : p \in Pol.tools[t].escalateWhen}
  BY DEF Fires
<1> QED BY <1>1 DEF EscalationEvaluator

\* Every step keeps LedgerInv.
LEMMA LedgerStep == TypeOK /\ TypeOK' /\ LedgerInv /\ [Next]_vars => LedgerInv'
<1> SUFFICES ASSUME TypeOK, TypeOK', LedgerInv, [Next]_vars PROVE LedgerInv'
  OBVIOUS
<1>0. loc \in [Handler -> Local]
  BY DEF TypeOK
<1>h. ASSUME NEW h \in Handler
      PROVE  /\ loc[h] \in Local /\ loc[h].session \in Session
             /\ loc[h].tool \in Tool /\ loc[h].args \in Args
             /\ loc[h].action \in Action /\ HandlerSound(loc[h])
  BY <1>0 DEF Local, LedgerInv, HandlersSound
<1>1. ASSUME NEW h \in Handler, NEW s \in Session, NEW t \in Tool, NEW a \in Args,
             Receive(h, s, t, a)
      PROVE  LedgerInv'
  <2>1. loc'[h].pc = "load" /\ \A g \in Handler \ {h} : loc'[g] = loc[g]
    BY <1>0, <1>1 DEF Receive, Become, Idle
  <2> QED BY <1>1, <2>1, UnrecordedIsSound, QuietKeepsLedger DEF Receive, PC
<1>2. ASSUME NEW h \in Handler, GetSession(h) PROVE LedgerInv'
  <2>1. CASE Return(h)
    BY <1>2, <2>1, ReturnKeepsLedger DEF GetSession
  <2>2. CASE ~ Return(h)
    <3>1. loc'[h].pc \in {"create", "evaluate"} /\ \A g \in Handler \ {h} : loc'[g] = loc[g]
      <4> DEFINE r == row[loc[h].session]
                 k == [loc[h] EXCEPT !.pc = "create"]
                 l == [loc[h] EXCEPT !.pc = "evaluate", !.sess = r, !.tainted = r.tainted]
      <4>1. loc' = [loc EXCEPT ![h] = k] \/ loc' = [loc EXCEPT ![h] = l]
        BY <1>2, <2>2 DEF GetSession, Goto, Become
      <4>2. k.pc = "create" /\ l.pc = "evaluate"
        <5> HIDE DEF r
        <5> QED BY <1>h DEF Local
      <4> HIDE DEF k, l
      <4> QED BY <1>0, <4>1, <4>2
    <3> QED BY <1>2, <3>1, UnrecordedIsSound, QuietKeepsLedger DEF GetSession, PC
  <2> QED BY <2>1, <2>2
<1>3. ASSUME NEW h \in Handler, CreateSession(h) PROVE LedgerInv'
  <2>1. CASE Return(h)
    BY <1>3, <2>1, ReturnKeepsLedger DEF CreateSession
  <2>2. CASE ~ Return(h)
    <3>1. loc'[h].pc = "evaluate" /\ \A g \in Handler \ {h} : loc'[g] = loc[g]
      <4> DEFINE l == [loc[h] EXCEPT !.pc = "evaluate", !.sess = NewRow, !.tainted = FALSE]
      <4>1. loc' = [loc EXCEPT ![h] = l]
        BY <1>3, <2>2 DEF CreateSession, Become
      <4>2. l.pc = "evaluate"
        BY <1>h DEF Local
      <4> HIDE DEF l
      <4> QED BY <1>0, <4>1, <4>2
    <3> QED BY <1>3, <3>1, UnrecordedIsSound, QuietKeepsLedger DEF CreateSession, PC
  <2> QED BY <2>1, <2>2
<1>4. ASSUME NEW h \in Handler, EvaluateSequence(h) PROVE LedgerInv'
  <2>1. SnapshotVerdict(h) \in Verdict
    BY <1>h, StagesReturnVerdicts DEF SnapshotVerdict, Chain
  <2>2. SequenceEvaluator(loc[h].tool, Pol, events[loc[h].session]) \in Verdict
    BY <1>h, StagesReturnVerdicts
  <2>3. PICK v \in Verdict : Judge(h, v, "ratelimit")
    BY <1>4, <2>1, <2>2 DEF EvaluateSequence, Verdicts, Verdict
  <2> QED BY <1>4, <2>3, JudgeKeepsLedger DEF EvaluateSequence
<1>5. ASSUME NEW h \in Handler, EvaluateRateLimit(h) PROVE LedgerInv'
  <2>1. /\ ContentEvaluator(loc[h].tool, loc[h].args, Pol) \in Verdict
        /\ RateLimitEvaluator(loc[h].tool, loc[h].requestedAt, Pol,
                              events[loc[h].session]) \in Verdict
    BY <1>h, StagesReturnVerdicts
  <2>2. PICK v \in Verdict : Judge(h, v, "escalation")
    BY <1>5, <2>1 DEF EvaluateRateLimit, Verdicts, Verdict
  <2> QED BY <1>5, <2>2, JudgeKeepsLedger DEF EvaluateRateLimit
<1>6. ASSUME NEW h \in Handler, EvaluateEscalation(h) PROVE LedgerInv'
  <2> DEFINE w == EscalationEvaluator(loc[h].tool, loc[h].args, Pol,
                     HasApprovedEscalation(loc[h].session, loc[h].tool, loc[h].args))
  <2>1. w \in Verdict
    BY <1>h, StagesReturnVerdicts
  <2>2. PICK v \in {w, "error"} : Judge(h, v, "append")
    BY <1>6 DEF EvaluateEscalation, Verdicts
  <2>3. v \in Verdict /\ (v = "allow" => w = "allow")
    BY <2>1, <2>2 DEF Verdict
  <2>4. v = "allow" /\ Fires(loc[h].tool, loc[h].args) =>
           HasApprovedEscalation(loc[h].session, loc[h].tool, loc[h].args)
    BY <1>h, <2>3, EscalationNeedsApproval
  <2> HIDE DEF w
  <2> QED BY <1>6, <2>2, <2>3, <2>4, JudgeKeepsLedger DEF EvaluateEscalation
<1>7. ASSUME NEW h \in Handler, AppendEvent(h) PROVE LedgerInv'
  <2>1. CASE Return(h) /\ UNCHANGED events
    BY <1>7, <2>1, ReturnKeepsLedger DEF AppendEvent
  <2>2. CASE ~ (Return(h) /\ UNCHANGED events)
    <3>1. PICK at \in loc[h].decidedAt .. clock :
              events' = [events EXCEPT ![loc[h].session] = Append(@,
                  [tool |-> loc[h].tool, args |-> loc[h].args,
                   action |-> loc[h].action, at |-> at])]
      BY <1>7, <2>2 DEF AppendEvent
    <3> DEFINE e == [tool |-> loc[h].tool, args |-> loc[h].args,
                     action |-> loc[h].action, at |-> at]
    <3>2. at \in Nat
      BY <1>h, <3>1 DEF TypeOK, Local
    <3>3. /\ e \in Event /\ e.tool = loc[h].tool /\ e.args = loc[h].args
          /\ e.action = loc[h].action
          /\ events' = [events EXCEPT ![loc[h].session] = Append(@, e)]
      BY <1>h, <3>1, <3>2 DEF Event
    <3> HIDE DEF e
    <3> QED BY <1>7, <2>2, <3>3, AppendKeepsLedger DEF AppendEvent
  <2> QED BY <2>1, <2>2
<1>8. ASSUME NEW h \in Handler, WriteAudit(h) PROVE LedgerInv'
  BY <1>8, AuditKeepsLedger
<1>9. ASSUME NEW h \in Handler, UpdateSessionTaint(h) PROVE LedgerInv'
  <2>1. CASE Return(h)
    BY <1>9, <2>1, ReturnKeepsLedger DEF UpdateSessionTaint
  <2>2. CASE Goto(h, "respond")
    <3>1. /\ \A g \in Handler \ {h} : loc'[g] = loc[g]
          /\ loc'[h] = [loc[h] EXCEPT !.pc = "respond"] /\ loc[h].pc = "taint"
      BY <1>0, <1>9, <2>2 DEF UpdateSessionTaint, Goto, Become
    <3>2. /\ loc'[h].pc = "respond" /\ loc'[h].session = loc[h].session
          /\ loc'[h].seq = loc[h].seq /\ loc'[h].tool = loc[h].tool
          /\ loc'[h].args = loc[h].args /\ loc'[h].action = loc[h].action
          /\ loc'[h].auditFailed = loc[h].auditFailed
      BY <1>h, <3>1 DEF Local
    <3>3. HandlerSound(loc'[h]) /\ Recorded(loc[h])
      BY <1>h, <3>1, <3>2 DEF HandlerSound, Recorded
    <3> QED BY <1>9, <3>1, <3>2, <3>3, QuietKeepsLedger DEF UpdateSessionTaint
  <2> QED BY <1>9, <2>1, <2>2 DEF UpdateSessionTaint
<1>10. ASSUME NEW h \in Handler, Refuse(h) PROVE LedgerInv'
  BY <1>10, ReturnKeepsLedger DEF Refuse
<1>11. ASSUME NEW h \in Handler, IncrementSessionCounters(h) PROVE LedgerInv'
  <2>1. /\ \A g \in Handler \ {h} : loc'[g] = loc[g]
        /\ loc'[h] = [loc[h] EXCEPT !.pc = "forward"] /\ loc[h].pc = "respond"
        /\ loc[h].action \in {"allow", "shadow_deny"}
        /\ ~ (loc[h].auditFailed /\ AuditStrict)
    BY <1>0, <1>11 DEF IncrementSessionCounters, StrictRefusal, Goto, Become
  <2>2. /\ loc'[h].pc = "forward" /\ loc'[h].session = loc[h].session
        /\ loc'[h].seq = loc[h].seq /\ loc'[h].tool = loc[h].tool
        /\ loc'[h].args = loc[h].args /\ loc'[h].action = loc[h].action
        /\ loc'[h].auditFailed = loc[h].auditFailed
    BY <1>h, <2>1 DEF Local
  <2>3. HandlerSound(loc'[h]) /\ Recorded(loc[h])
    BY <1>h, <2>1, <2>2 DEF HandlerSound, Recorded
  <2> QED BY <1>11, <2>1, <2>2, <2>3, QuietKeepsLedger DEF IncrementSessionCounters
<1>12. ASSUME NEW h \in Handler, Forward(h) PROVE LedgerInv'
  BY <1>12, ForwardKeepsLedger
<1>13. ASSUME NEW h \in Handler, CreateEscalation(h) PROVE LedgerInv'
  BY <1>13, EscalationKeepsLedger
<1>14. ASSUME NEW i \in 1..Len(escalations), NEW st \in {"approved", "rejected"},
              resolveEscalation(i, st)
       PROVE  LedgerInv'
  BY <1>14, ResolveKeepsLedger
<1>15. ASSUME Crash PROVE LedgerInv'
  <2>1. \A h \in Handler : loc'[h].pc = "idle"
    BY <1>15 DEF Crash, AnIdle, Idle
  <2>2. HandlersSound' /\ EventsOwned'
    BY <2>1 DEF HandlersSound, HandlerSound, EventsOwned, Recorded
  <2>3. UNCHANGED <<events, audit, escalations, forwarded>>
    BY <1>15 DEF Crash
  <2>4. EscalationsOwnEvents'
    BY <2>3 DEF LedgerInv, EscalationsOwnEvents, EventIs, escBySeq
  <2>5. ForwardedIsRecorded' /\ AuditAgreesWithEvents' /\ ApprovalPrecedesAllow'
    BY <2>3 DEF LedgerInv, ForwardedIsRecorded, AuditAgreesWithEvents, ApprovalPrecedesAllow
  <2> QED BY <2>2, <2>4, <2>5 DEF LedgerInv
<1>16. ASSUME UNCHANGED <<events, audit, escalations, forwarded, loc>> PROVE LedgerInv'
  <2>1. PICK h \in Handler : TRUE
    BY ProxyAssumption
  <2>2. HandlerSound(loc'[h])
    BY <1>h, <1>16
  <2> QED BY <1>16, <2>2, QuietKeepsLedger
<1>17. ASSUME NEW s \in Session, TerminateSession(s) PROVE LedgerInv'
  BY <1>16, <1>17 DEF TerminateSession
<1>18. ASSUME Tick PROVE LedgerInv'
  BY <1>16, <1>18 DEF Tick
<1>19. ASSUME UNCHANGED vars PROVE LedgerInv'
  BY <1>16, <1>19 DEF vars
<1> QED
  BY <1>1, <1>2, <1>3, <1>4, <1>5, <1>6, <1>7, <1>8, <1>9, <1>10, <1>11, <1>12,
     <1>13, <1>14, <1>15, <1>17, <1>18, <1>19 DEF Next, HandlerStep

\* The tables and the handlers always agree.
LEMMA LedgerCorrect == Spec => []LedgerInv
BY TypeInit, TypeStep, LedgerInit, LedgerStep, PTL DEF Spec

\* Whatever reached the upstream was recorded first, as allowed, and under
\* --audit-strict with a key its signed record was written, for any number of
\* handlers, any policy and any combination of failed store calls and crashes.
THEOREM ForwardsAreRecorded == Spec => []ForwardedIsRecorded
<1>1. LedgerInv => ForwardedIsRecorded
  BY DEF LedgerInv
<1> QED BY <1>1, LedgerCorrect, PTL

\* Every audit record repeats the event with its session and seq.
THEOREM AuditTellsTheTruth == Spec => []AuditAgreesWithEvents
<1>1. LedgerInv => AuditAgreesWithEvents
  BY DEF LedgerInv
<1> QED BY <1>1, LedgerCorrect, PTL

\* A call that escalate_when catches is allowed only after an operator approved
\* an earlier call of that session with that tool and those arguments.
THEOREM ApprovalsComeFirst == Spec => []ApprovalPrecedesAllow
<1>1. LedgerInv => ApprovalPrecedesAllow
  BY DEF LedgerInv
<1> QED BY <1>1, LedgerCorrect, PTL

\* A line of `audit report` or `session inspect` shows the fate of its own call.
THEOREM ReportsShowOwnFate == Spec => []ShownResolutionIsOwn
<1>1. LedgerInv => ShownResolutionIsOwn
  <2> SUFFICES ASSUME LedgerInv, NEW s \in Session, NEW n \in 1..MaxEvents
               PROVE  /\ Cardinality(escBySeq(s, n)) <= 1
                      /\ EscalationStatus(s, n) # "pending" =>
                            /\ n <= Len(events[s]) /\ events[s][n].action = "escalate"
                            /\ \E x \in {escalations[i] : i \in 1..Len(escalations)} :
                                  /\ x.session = s /\ x.status = EscalationStatus(s, n)
                                  /\ x.tool = events[s][n].tool
                                  /\ x.args = events[s][n].args
    BY DEF ShownResolutionIsOwn
  <2>1. CASE escBySeq(s, n) = {}
    <3>1. EscalationStatus(s, n) = "pending"
      BY <2>1 DEF EscalationStatus
    <3> QED BY <2>1, <3>1, FS_EmptySet
  <2>2. CASE escBySeq(s, n) # {}
    <3>1. PICK i \in 1..Len(escalations) :
              escalations[i].session = s /\ escalations[i].seq = n
      BY <2>2 DEF escBySeq
    <3>2. /\ escBySeq(s, n) = {i}
          /\ EventIs(s, n, escalations[i].tool, escalations[i].args, "escalate")
      <4>1. i \in escBySeq(s, n)
        BY <3>1 DEF escBySeq
      <4> QED BY <3>1, <4>1 DEF LedgerInv, EscalationsOwnEvents
    <3>3. EscalationStatus(s, n) = escalations[i].status
      <4> DEFINE c == CHOOSE k \in escBySeq(s, n) : \A j \in escBySeq(s, n) : j <= k
      <4>1. \E k \in escBySeq(s, n) : \A j \in escBySeq(s, n) : j <= k
        BY <3>2
      <4>2. c = i
        BY <3>2, <4>1
      <4> QED BY <2>2, <4>2 DEF EscalationStatus
    <3>4. Cardinality(escBySeq(s, n)) <= 1
      <4>1. Cardinality({i}) = 1
        BY FS_Singleton
      <4> QED BY <3>2, <4>1
    <3> QED BY <3>1, <3>2, <3>3, <3>4 DEF EventIs
  <2> QED BY <2>1, <2>2
<1> QED BY <1>1, LedgerCorrect, PTL

-----------------------------------------------------------------------------
(* What a step may never do.                                                *)

\* How a step may change the escalations table: not at all, by a new row, or by
\* resolving a pending one.
LEMMA EscalationsChange ==
    ASSUME TypeOK, [Next]_vars
    PROVE  \/ escalations' = escalations
           \/ \E x \in EscRec : escalations' = Append(escalations, x)
           \/ \E i \in 1..Len(escalations), st \in {"approved", "rejected"} :
                 resolveEscalation(i, st)
<1>1. ASSUME NEW h \in Handler, CreateEscalation(h)
      PROVE  \/ escalations' = escalations
             \/ \E x \in EscRec : escalations' = Append(escalations, x)
  <2>1. [session |-> loc[h].session, seq |-> loc[h].seq, tool |-> loc[h].tool,
         args |-> loc[h].args, status |-> "pending"] \in EscRec
    BY DEF TypeOK, Local, EscRec
  <2> QED BY <1>1, <2>1 DEF CreateEscalation
<1>2. ASSUME NEW h \in Handler, HandlerStep(h), ~ CreateEscalation(h)
      PROVE  escalations' = escalations
  BY <1>2 DEF HandlerStep, GetSession, CreateSession, EvaluateSequence,
              EvaluateRateLimit, EvaluateEscalation, AppendEvent, WriteAudit,
              UpdateSessionTaint, Refuse, IncrementSessionCounters, Forward
<1>3. ASSUME NEW h \in Handler, NEW s, NEW t, NEW a, Receive(h, s, t, a)
      PROVE  escalations' = escalations
  BY <1>3 DEF Receive
<1> QED BY <1>1, <1>2, <1>3 DEF Next, vars, TerminateSession, Crash, Tick

\* An operator's resolution is never overwritten, and an escalation never
\* changes hands.
THEOREM ResolutionsAreFinal == Spec => ResolutionIsFinal
<1>1. ASSUME TypeOK, [Next]_vars
      PROVE  \A i \in 1..Len(escalations) :
                /\ i <= Len(escalations')
                /\ escalations'[i] = escalations[i]
                   \/ /\ escalations[i].status = "pending"
                      /\ [escalations'[i] EXCEPT !.status = "pending"] = escalations[i]
  <2> SUFFICES ASSUME NEW i \in 1..Len(escalations)
               PROVE  /\ i <= Len(escalations')
                      /\ escalations'[i] = escalations[i]
                         \/ /\ escalations[i].status = "pending"
                            /\ [escalations'[i] EXCEPT !.status = "pending"]
                                  = escalations[i]
    OBVIOUS
  <2>0. escalations \in Seq(EscRec) /\ escalations[i] \in EscRec
    BY <1>1, RowsNameSessions DEF TypeOK
  <2>1. CASE escalations' = escalations
    BY <2>0, <2>1
  <2>2. CASE \E x \in EscRec : escalations' = Append(escalations, x)
    BY <2>0, <2>2
  <2>3. ASSUME NEW k \in 1..Len(escalations), NEW st \in {"approved", "rejected"},
               resolveEscalation(k, st)
        PROVE  /\ i <= Len(escalations')
               /\ escalations'[i] = escalations[i]
                  \/ /\ escalations[i].status = "pending"
                     /\ [escalations'[i] EXCEPT !.status = "pending"] = escalations[i]
    <3>1. /\ Len(escalations') = Len(escalations)
          /\ escalations'[k] = [escalations[k] EXCEPT !.status = st]
          /\ i # k => escalations'[i] = escalations[i]
      BY <2>0, <2>3 DEF resolveEscalation
    <3>2. CASE i # k
      BY <2>0, <3>1, <3>2
    <3>3. CASE i = k
      <4>1. escalations[i].status = "pending"
        BY <2>3, <3>3 DEF resolveEscalation
      <4>2. [[escalations[i] EXCEPT !.status = st] EXCEPT !.status = "pending"]
               = escalations[i]
        BY <2>0, <4>1 DEF EscRec
      <4>3. i <= Len(escalations')
        BY <2>0, <3>1
      <4> QED BY <3>1, <3>3, <4>1, <4>2, <4>3
    <3> QED BY <3>2, <3>3
  <2> QED BY <1>1, <2>1, <2>2, <2>3, EscalationsChange
<1>2. TypeOK /\ [Next]_vars =>
        [\A i \in 1..Len(escalations) :
            /\ i <= Len(escalations')
            /\ escalations'[i] = escalations[i]
               \/ /\ escalations[i].status = "pending"
                  /\ [escalations'[i] EXCEPT !.status = "pending"] = escalations[i]]_vars
  BY <1>1
<1> QED BY <1>2, TypeCorrect, PTL DEF Spec, ResolutionIsFinal

-----------------------------------------------------------------------------
(* Termination.                                                             *)

\* A session that was never created is neither tainted nor terminated.
MissingRowsBlank ==
    \A s \in Session : row[s].exists \/ ~ (row[s].tainted \/ row[s].terminated)

\* How a step may change the sessions table: one row is created, has its taint
\* flag, its counters or its terminated flag written, or nothing changes.
LEMMA RowsChange ==
    ASSUME TypeOK, [Next]_vars
    PROVE  \/ row' = row
           \/ \E h \in Handler :
                 \/ CreateSession(h) /\ ~ row[loc[h].session].exists
                    /\ row' = [row EXCEPT ![loc[h].session] = NewRow]
                 \/ UpdateSessionTaint(h)
                    /\ row' = [row EXCEPT ![loc[h].session].tainted = loc[h].tainted]
                 \/ /\ IncrementSessionCounters(h)
                    /\ row' = [row EXCEPT ![loc[h].session] =
                                  [row[loc[h].session] EXCEPT
                                      !.calls = row[loc[h].session].calls + 1,
                                      !.cost = row[loc[h].session].cost + 1]]
           \/ \E s \in Session : TerminateSession(s)
<1>1. ASSUME NEW h \in Handler, HandlerStep(h), ~ CreateSession(h),
             ~ UpdateSessionTaint(h), ~ IncrementSessionCounters(h)
      PROVE  row' = row
  BY <1>1 DEF HandlerStep, GetSession, EvaluateSequence, EvaluateRateLimit,
              EvaluateEscalation, AppendEvent, WriteAudit, Refuse, Forward,
              CreateEscalation
<1>2. ASSUME NEW h \in Handler, CreateSession(h)
      PROVE  \/ row' = row
             \/ /\ ~ row[loc[h].session].exists
                /\ row' = [row EXCEPT ![loc[h].session] = NewRow]
  BY <1>2 DEF CreateSession
<1>3. ASSUME NEW h \in Handler, UpdateSessionTaint(h)
      PROVE  \/ row' = row
             \/ row' = [row EXCEPT ![loc[h].session].tainted = loc[h].tainted]
  BY <1>3 DEF UpdateSessionTaint
<1>4. ASSUME NEW h \in Handler, IncrementSessionCounters(h)
      PROVE  \/ row' = row
             \/ row' = [row EXCEPT ![loc[h].session] =
                           [row[loc[h].session] EXCEPT
                               !.calls = row[loc[h].session].calls + 1,
                               !.cost = row[loc[h].session].cost + 1]]
  BY <1>4 DEF IncrementSessionCounters
<1>5. ASSUME NEW h \in Handler, NEW s, NEW t, NEW a, Receive(h, s, t, a)
      PROVE  row' = row
  BY <1>5 DEF Receive
<1>6. ASSUME NEW i, NEW st, resolveEscalation(i, st) PROVE row' = row
  BY <1>6 DEF resolveEscalation
<1>7. (Crash \/ Tick \/ UNCHANGED vars) => row' = row
  BY DEF Crash, Tick, vars
<1> QED BY <1>1, <1>2, <1>3, <1>4, <1>5, <1>6, <1>7 DEF Next

\* A row is written only once it exists, and it is created blank.
LEMMA BlankStep ==
    ASSUME TypeOK, BudgetInv, MissingRowsBlank, [Next]_vars
    PROVE  MissingRowsBlank'
<1>0. /\ row \in [Session -> Row]
      /\ \A h \in Handler : loc[h] \in Local /\ loc[h].session \in Session
  BY DEF TypeOK, Local
<1>1. CASE row' = row
  BY <1>1 DEF MissingRowsBlank
<1>2. ASSUME NEW h \in Handler, row' = [row EXCEPT ![loc[h].session] = NewRow]
      PROVE  MissingRowsBlank'
  BY <1>0, <1>2 DEF MissingRowsBlank, NewRow
<1>3. ASSUME NEW h \in Handler, UpdateSessionTaint(h),
             row' = [row EXCEPT ![loc[h].session].tainted = loc[h].tainted]
      PROVE  MissingRowsBlank'
  <2>1. row[loc[h].session].exists
    BY <1>3 DEF UpdateSessionTaint, BudgetInv, LocalsConsistent
  <2>2. row'[loc[h].session].exists
    BY <1>0, <1>3, <2>1 DEF Row
  <2> QED BY <1>0, <1>3, <2>2 DEF MissingRowsBlank
<1>4. ASSUME NEW h \in Handler,
             row' = [row EXCEPT ![loc[h].session] =
                        [row[loc[h].session] EXCEPT
                            !.calls = row[loc[h].session].calls + 1,
                            !.cost = row[loc[h].session].cost + 1]]
      PROVE  MissingRowsBlank'
  <2> DEFINE x == loc[h].session
             r == [row[x] EXCEPT !.calls = row[x].calls + 1, !.cost = row[x].cost + 1]
  <2>1. /\ r.exists = row[x].exists /\ r.tainted = row[x].tainted
        /\ r.terminated = row[x].terminated
    BY <1>0 DEF Row
  <2>2. row' = [row EXCEPT ![x] = r]
    BY <1>4
  <2> HIDE DEF r
  <2> QED BY <1>0, <2>1, <2>2 DEF MissingRowsBlank
<1>5. ASSUME NEW s \in Session, TerminateSession(s) PROVE MissingRowsBlank'
  <2>1. row'[s].exists
    BY <1>0, <1>5 DEF TerminateSession, Row
  <2> QED BY <1>0, <1>5, <2>1 DEF MissingRowsBlank, TerminateSession
<1> QED BY <1>1, <1>2, <1>3, <1>4, <1>5, RowsChange

\* So missing rows are always blank.
LEMMA BlankCorrect == Spec => [](TypeOK /\ BudgetInv /\ MissingRowsBlank)
<1>1. Init => MissingRowsBlank
  BY DEF Init, MissingRowsBlank, NoRow, NewRow
<1> QED BY <1>1, TypeInit, TypeStep, BudgetInit, BudgetStep, BlankStep, PTL DEF Spec

\* The handler is past the check of the terminated flag.
PastCheck(l) == l.pc \notin {"idle", "load", "create"}

\* A handler gets past that check only by GetSession, on a row that is not
\* terminated, or by CreateSession, on a row that did not exist; after that it
\* stays with its session.
LEMMA AdmissionStep ==
    ASSUME TypeOK, [Next]_vars, NEW g \in Handler, PastCheck(loc'[g])
    PROVE  \/ PastCheck(loc[g]) /\ loc'[g].session = loc[g].session
           \/ /\ loc'[g].session = loc[g].session
              /\ \/ ~ row[loc[g].session].exists
                 \/ ~ row[loc[g].session].terminated
<1>1. ASSUME NEW h \in Handler, HandlerStep(h)
      PROVE  \/ PastCheck(loc[g]) /\ loc'[g].session = loc[g].session
             \/ /\ loc'[g].session = loc[g].session
                /\ \/ ~ row[loc[g].session].exists
                   \/ ~ row[loc[g].session].terminated
  <2>1. CASE g = h
    <3>1. loc'[g] # AnIdle
      BY DEF PastCheck, AnIdle, Idle
    <3>2. Moves(loc[g], loc'[g])
      BY <1>1, <2>1, <3>1, HandlerMoves
    <3> QED BY <3>2 DEF Moves, PastCheck
  <2>2. CASE g # h
    BY <1>1, <2>2, HandlerMoves
  <2> QED BY <2>1, <2>2
<1>2. ASSUME NEW h \in Handler, NEW s, NEW t, NEW a, Receive(h, s, t, a)
      PROVE  PastCheck(loc[g]) /\ loc'[g].session = loc[g].session
  <2>1. loc'[h].pc = "load" /\ \A k \in Handler \ {h} : loc'[k] = loc[k]
    BY <1>2 DEF Receive, Become, Idle, TypeOK
  <2> QED BY <2>1 DEF PastCheck
<1>3. ~ Crash
  BY DEF Crash, PastCheck, AnIdle, Idle
<1>4. \/ \E h \in Handler : HandlerStep(h)
      \/ \E h \in Handler, s \in Session, t \in Tool, a \in Args : Receive(h, s, t, a)
      \/ Crash \/ UNCHANGED loc
  BY DEF Next, vars, TerminateSession, resolveEscalation, Tick
<1> QED BY <1>1, <1>2, <1>3, <1>4

\* After `session terminate` nobody is admitted to the session any more, and it
\* stays terminated.
THEOREM TerminationHolds == Spec => TerminationIsFinal
<1> DEFINE Final == \A s \in Session : row[s].terminated =>
                       row'[s].terminated /\ Admitted(s)' \subseteq Admitted(s)
<1>1. ASSUME TypeOK, MissingRowsBlank, [Next]_vars, NEW s \in Session, row[s].terminated
      PROVE  row'[s].terminated
  <2>0. /\ row \in [Session -> Row] /\ row[s].exists /\ \A x \in Session : row[x] \in Row
        /\ \A h \in Handler : loc[h].session \in Session
    BY <1>1 DEF TypeOK, MissingRowsBlank, Local
  <2>1. ASSUME NEW h \in Handler, ~ row[loc[h].session].exists,
               row' = [row EXCEPT ![loc[h].session] = NewRow]
        PROVE  row'[s].terminated
    BY <1>1, <2>0, <2>1
  <2>2. ASSUME NEW h \in Handler,
               row' = [row EXCEPT ![loc[h].session].tainted = loc[h].tainted]
        PROVE  row'[s].terminated
    BY <1>1, <2>0, <2>2 DEF Row
  <2>3. ASSUME NEW h \in Handler,
               row' = [row EXCEPT ![loc[h].session] =
                          [row[loc[h].session] EXCEPT
                              !.calls = row[loc[h].session].calls + 1,
                              !.cost = row[loc[h].session].cost + 1]]
        PROVE  row'[s].terminated
    <3> DEFINE x == loc[h].session
               r == [row[x] EXCEPT !.calls = row[x].calls + 1, !.cost = row[x].cost + 1]
    <3>1. r.terminated = row[x].terminated /\ row' = [row EXCEPT ![x] = r]
      BY <2>0, <2>3 DEF Row
    <3> HIDE DEF r
    <3> QED BY <1>1, <2>0, <3>1
  <2>4. ASSUME NEW x \in Session, TerminateSession(x) PROVE row'[s].terminated
    BY <1>1, <2>0, <2>4 DEF TerminateSession, Row
  <2> QED BY <1>1, <2>1, <2>2, <2>3, <2>4, RowsChange
<1>2. ASSUME TypeOK, MissingRowsBlank, [Next]_vars, NEW s \in Session, row[s].terminated,
             NEW g \in Admitted(s)'
      PROVE  g \in Admitted(s)
  <2>1. g \in Handler /\ PastCheck(loc'[g]) /\ loc'[g].session = s
    BY <1>2 DEF Admitted, Busy, PastCheck
  <2>2. row[s].exists
    BY <1>2 DEF MissingRowsBlank
  <2>3. PastCheck(loc[g]) /\ loc[g].session = s
    BY <1>2, <2>1, <2>2, AdmissionStep
  <2> QED BY <2>1, <2>3 DEF Admitted, Busy, PastCheck
<1>3. TypeOK /\ BudgetInv /\ MissingRowsBlank /\ [Next]_vars => [Final]_vars
  BY <1>1, <1>2
<1> QED BY <1>3, BlankCorrect, PTL DEF Spec, TerminationIsFinal

-----------------------------------------------------------------------------
(* The proxy implements the ledger an auditor relies on.                    *)

\* The abstract log, certificates and calls sent are the tables; a session is
\* closed when its row is terminated.
Closed == [s \in Session |-> row[s].terminated]

\* Writing a row without ending in another terminated flag closes nothing.
LEMMA ClosedKept ==
    ASSUME TypeOK, MissingRowsBlank, [Next]_vars, \A s \in Session : ~ TerminateSession(s)
    PROVE  Closed' = Closed
<1>0. /\ row \in [Session -> Row] /\ \A x \in Session : row[x] \in Row
      /\ \A h \in Handler : loc[h].session \in Session
  BY DEF TypeOK, Local
<1>1. ASSUME NEW h \in Handler, ~ row[loc[h].session].exists,
             row' = [row EXCEPT ![loc[h].session] = NewRow], NEW s \in Session
      PROVE  row'[s].terminated = row[s].terminated
  BY <1>0, <1>1 DEF MissingRowsBlank, NewRow, Row
<1>2. ASSUME NEW h \in Handler,
             row' = [row EXCEPT ![loc[h].session].tainted = loc[h].tainted],
             NEW s \in Session
      PROVE  row'[s].terminated = row[s].terminated
  BY <1>0, <1>2 DEF Row
<1>3. ASSUME NEW h \in Handler,
             row' = [row EXCEPT ![loc[h].session] =
                        [row[loc[h].session] EXCEPT
                            !.calls = row[loc[h].session].calls + 1,
                            !.cost = row[loc[h].session].cost + 1]],
             NEW s \in Session
      PROVE  row'[s].terminated = row[s].terminated
  <2> DEFINE x == loc[h].session
             r == [row[x] EXCEPT !.calls = row[x].calls + 1, !.cost = row[x].cost + 1]
  <2>1. r.terminated = row[x].terminated /\ row' = [row EXCEPT ![x] = r]
    BY <1>0, <1>3 DEF Row
  <2> HIDE DEF r
  <2> QED BY <1>0, <2>1
<1>4. \A s \in Session : row'[s].terminated = row[s].terminated
  BY <1>1, <1>2, <1>3, RowsChange
<1> QED BY <1>4 DEF Closed

\* Each step of the proxy is a step of the ledger or leaves it alone.
LEMMA LedgerSimulation ==
    ASSUME TypeOK, LedgerInv, MissingRowsBlank, [Next]_vars
    PROVE  [L!Next]_(L!vars)
<1>0. /\ \A h \in Handler : loc[h] \in Local /\ loc[h].session \in Session
      /\ events \in [Session -> Seq(Event)] /\ row \in [Session -> Row]
  BY DEF TypeOK, Local
<1>s. ASSUME events' = events, audit' = audit, forwarded' = forwarded, Closed' = Closed
      PROVE  UNCHANGED L!vars
  BY <1>s DEF L!vars, Closed
<1>1. ASSUME NEW h \in Handler, AppendEvent(h), Closed' = Closed
      PROVE  [L!Next]_(L!vars)
  <2> DEFINE s == loc[h].session
  <2>1. CASE events' = events
    BY <1>1, <1>s, <2>1 DEF AppendEvent
  <2>2. CASE events' # events
    <3>1. PICK at \in loc[h].decidedAt .. clock :
              events' = [events EXCEPT ![s] = Append(@,
                  [tool |-> loc[h].tool, args |-> loc[h].args,
                   action |-> loc[h].action, at |-> at])]
      BY <1>1, <2>2 DEF AppendEvent
    <3> DEFINE e == [tool |-> loc[h].tool, args |-> loc[h].args,
                     action |-> loc[h].action, at |-> at]
    <3>2. at \in Nat
      BY <1>0, <3>1 DEF TypeOK, Local
    <3>3. e \in Event /\ events' = [events EXCEPT ![s] = Append(@, e)]
      BY <1>0, <3>1, <3>2 DEF Event, Local
    <3> HIDE DEF e
    <3>4. events'[s] # << >> /\ events'[s][Len(events'[s])] = e
      <4>1. /\ events'[s] = Append(events[s], e) /\ events[s] \in Seq(Event)
            /\ Len(events[s]) \in Nat
        BY <1>0, <3>3
      <4>2. Len(events'[s]) = Len(events[s]) + 1 /\ events'[s][Len(events[s]) + 1] = e
        BY <3>3, <4>1
      <4>3. Len(events'[s]) # 0
        BY <4>1, <4>2
      <4> QED BY <4>2, <4>3
    <3>5. audit' = audit /\ forwarded' = forwarded
      BY <1>1 DEF AppendEvent
    <3>6. L!Record(s)
      BY <1>1, <3>3, <3>4, <3>5 DEF L!Record, Closed
    <3> QED BY <1>0, <3>6 DEF L!Next
  <2> QED BY <2>1, <2>2
<1>2. ASSUME NEW h \in Handler, WriteAudit(h), Closed' = Closed
      PROVE  [L!Next]_(L!vars)
  <2> DEFINE s == loc[h].session
             n == loc[h].seq
  <2>1. events' = events /\ forwarded' = forwarded /\ loc[h].pc = "audit"
    BY <1>2 DEF WriteAudit
  <2>2. CASE audit' = audit
    BY <1>2, <1>s, <2>1, <2>2
  <2>3. CASE audit' # audit
    <3>1. audit' = audit \cup {[session |-> s, seq |-> n, tool |-> loc[h].tool,
                                action |-> loc[h].action]}
      BY <1>2, <2>3 DEF WriteAudit
    <3>2. EventIs(s, n, loc[h].tool, loc[h].args, loc[h].action) /\ ~ Audited(s, n)
      BY <2>1 DEF LedgerInv, HandlersSound, HandlerSound, Recorded
    <3>3. L!Certify(s, n)
      BY <1>2, <2>1, <3>1, <3>2 DEF L!Certify, L!Certified, EventIs, Audited, Closed
    <3>4. n \in 1..Len(events[s])
      BY <3>2 DEF EventIs
    <3> QED BY <1>0, <3>3, <3>4 DEF L!Next
  <2> QED BY <2>2, <2>3
<1>3. ASSUME NEW h \in Handler, Forward(h), Closed' = Closed
      PROVE  [L!Next]_(L!vars)
  <2> DEFINE s == loc[h].session
             n == loc[h].seq
  <2>1. /\ events' = events /\ audit' = audit /\ loc[h].pc = "forward"
        /\ forwarded' = [forwarded EXCEPT ![s] = @ \cup {n}]
    BY <1>3 DEF Forward
  <2>2. /\ EventIs(s, n, loc[h].tool, loc[h].args, loc[h].action)
        /\ loc[h].action \in {"allow", "shadow_deny"} /\ n \notin forwarded[s]
        /\ HasKey /\ AuditStrict => Audited(s, n)
    BY <2>1 DEF LedgerInv, HandlersSound, HandlerSound, Recorded
  <2>3. n \in 1..Len(events[s]) /\ events[s][n] \in Permits
    BY <1>0, <2>2, ElementOfSeq DEF EventIs, Permits, Counts
  <2>4. L!Send(s, n)
    BY <1>3, <2>1, <2>2, <2>3 DEF L!Send, L!Certified, Audited, Closed
  <2> QED BY <1>0, <2>3, <2>4 DEF L!Next
<1>4. ASSUME NEW s \in Session, TerminateSession(s) PROVE [L!Next]_(L!vars)
  <2>1. events' = events /\ audit' = audit /\ forwarded' = forwarded
    BY <1>4 DEF TerminateSession
  <2>2. Closed' = [Closed EXCEPT ![s] = TRUE]
    <3>1. \A x \in Session : row'[x].terminated = IF x = s THEN TRUE ELSE row[x].terminated
      BY <1>0, <1>4 DEF TerminateSession, Row
    <3> QED BY <3>1 DEF Closed
  <2>3. L!Close(s)
    BY <2>1, <2>2 DEF L!Close, Closed
  <2> QED BY <2>3 DEF L!Next
<1>5. ASSUME NEW h \in Handler, HandlerStep(h), ~ AppendEvent(h), ~ WriteAudit(h), ~ Forward(h)
      PROVE  events' = events /\ audit' = audit /\ forwarded' = forwarded
  BY <1>5 DEF HandlerStep, GetSession, CreateSession, EvaluateSequence, EvaluateRateLimit,
              EvaluateEscalation, UpdateSessionTaint, Refuse, IncrementSessionCounters,
              CreateEscalation
<1>6. ASSUME NEW h \in Handler, NEW s, NEW t, NEW a, Receive(h, s, t, a)
      PROVE  events' = events /\ audit' = audit /\ forwarded' = forwarded
  BY <1>6 DEF Receive
<1>7. ASSUME NEW i, NEW st, resolveEscalation(i, st)
      PROVE  events' = events /\ audit' = audit /\ forwarded' = forwarded
  BY <1>7 DEF resolveEscalation
<1>8. (Crash \/ Tick \/ UNCHANGED vars) =>
         events' = events /\ audit' = audit /\ forwarded' = forwarded
  BY DEF Crash, Tick, vars
<1>9. CASE \A s \in Session : ~ TerminateSession(s)
  <2>1. Closed' = Closed
    BY <1>9, ClosedKept
  <2>2. \/ \E h \in Handler : AppendEvent(h) \/ WriteAudit(h) \/ Forward(h)
        \/ events' = events /\ audit' = audit /\ forwarded' = forwarded
    BY <1>5, <1>6, <1>7, <1>8, <1>9 DEF Next
  <2> QED BY <1>1, <1>2, <1>3, <1>s, <2>1, <2>2
<1> QED BY <1>4, <1>9

\* The proxy keeps the auditor's ledger: each event is appended once and never
\* rewritten, certified at most once and truthfully, and sent at most once and
\* only as the log permits.
THEOREM ImplementsLedger == Spec => KeepsLedger
<1>1. Init => L!Init
  BY DEF Init, L!Init, NoRow, NewRow
<1>2. TypeOK /\ LedgerInv /\ MissingRowsBlank /\ [Next]_vars => [L!Next]_(L!vars)
  BY LedgerSimulation
<1> QED BY <1>1, <1>2, LedgerCorrect, BlankCorrect, PTL DEF Spec, KeepsLedger, L!Spec
==============================================================================
