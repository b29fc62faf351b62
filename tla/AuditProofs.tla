---------------------------- MODULE AuditProofs ----------------------------
(* Proofs about audit records, for any sets of agents, registrations and     *)
(* records: what `audit verify` and `audit report` say of a row or of an     *)
(* edited export is what the key and the signed record make it.              *)
EXTENDS AuditTrail, AgentsProofs

Record == [Field -> Text]

-----------------------------------------------------------------------------
(* Conversions.                                                             *)

\* What is stored with NULLs is read as it was.
LEMMA StoredIsRead ==
    ASSUME NEW r \in Record, NEW sig
    PROVE  QueryAuditLog([columns |-> nullableString(r), signature |-> sig]) = r
<1> DEFINE row == [columns |-> nullableString(r), signature |-> sig]
<1>1. \A f \in Field : r[f] \in Text /\ r[f] # "NULL"
  BY DEF Record, Text
<1>2. row.columns = nullableString(r)
  OBVIOUS
<1>3. \A f \in Field : QueryAuditLog(row)[f] = r[f]
  BY <1>1, <1>2 DEF QueryAuditLog, nullableString
<1>4. QueryAuditLog(row) = [f \in Field |-> QueryAuditLog(row)[f]] /\ r = [f \in Field |-> r[f]]
  BY DEF QueryAuditLog, Record
<1> QED BY <1>3, <1>4

\* json.Marshal loses only bytes that are not UTF-8, and tells all texts apart.
LEMMA MarshalFaithful ==
    /\ \A v \in Text : v # "bytes" => Unmarshal(Marshal(v)) = v
    /\ \A v, w \in Text : Marshal(v) = Marshal(w) => v = w
    /\ \A v \in Text : Unmarshal(Marshal(v)) \in Text
BY DEF Marshal, Unmarshal, Text

\* Two records with the same canonical JSON are the same record.
LEMMA CanonicalIsInjective ==
    ASSUME NEW r \in Record, NEW q \in Record, canonicalJSON(r) = canonicalJSON(q)
    PROVE  r = q
<1>1. \A f \in Field : r[f] \in Text /\ q[f] \in Text
  BY DEF Record
<1>2. \A f \in Field : f \in DOMAIN Object(r) <=> f \in Required \/ r[f] # ""
  BY DEF Object
<1>3. \A f \in Field : f \in DOMAIN Object(q) <=> f \in Required \/ q[f] # ""
  BY DEF Object
<1>4. \A f \in DOMAIN Object(r) : Object(r)[f] = Marshal(r[f])
  BY DEF Object
<1>5. \A f \in DOMAIN Object(q) : Object(q)[f] = Marshal(q[f])
  BY DEF Object
<1>6. Object(r) = Object(q)
  BY DEF canonicalJSON
<1>7. ASSUME NEW f \in Field PROVE r[f] = q[f]
  <2>1. CASE f \in DOMAIN Object(r)
    <3>1. Marshal(r[f]) = Marshal(q[f])
      BY <1>4, <1>5, <1>6, <2>1
    <3> QED BY <1>1, <3>1, MarshalFaithful
  <2>2. CASE f \notin DOMAIN Object(r)
    BY <1>2, <1>3, <1>6, <2>2
  <2> QED BY <2>1, <2>2
<1> QED BY <1>7 DEF Record

\* A well-formed record survives the export and the parsing of its line.
LEMMA ExportIsParsed ==
    ASSUME NEW r \in Record, WellFormed(r), NEW sig
    PROVE  ParseLine([object |-> Object(r), signature |-> sig]) = r
<1> DEFINE line == [object |-> Object(r), signature |-> sig]
<1>0. line.object = Object(r)
  OBVIOUS
<1>1. \A f \in Field : r[f] \in Text /\ r[f] # "bytes"
  BY DEF Record, WellFormed
<1>2. \A f \in Field : f \in DOMAIN Object(r) <=> f \in Required \/ r[f] # ""
  BY DEF Object
<1>3. \A f \in DOMAIN Object(r) : Object(r)[f] = Marshal(r[f])
  BY DEF Object
<1> HIDE DEF line
<1>4. ASSUME NEW f \in Field PROVE ParseLine(line)[f] = r[f]
  <2>1. CASE f \in DOMAIN Object(r)
    <3>1. ParseLine(line)[f] = Unmarshal(Marshal(r[f]))
      BY <1>0, <1>3, <2>1 DEF ParseLine
    <3> QED BY <1>1, <3>1, MarshalFaithful
  <2>2. CASE f \notin DOMAIN Object(r)
    <3>1. ParseLine(line)[f] = ""
      BY <1>0, <2>2 DEF ParseLine
    <3> QED BY <1>2, <2>2, <3>1
  <2> QED BY <2>1, <2>2
<1>5. ParseLine(line) = [f \in Field |-> ParseLine(line)[f]] /\ r = [f \in Field |-> r[f]]
  BY DEF ParseLine, Record
<1> QED BY <1>4, <1>5 DEF line

-----------------------------------------------------------------------------
(* The inductive invariant.                                                 *)

Entry == [record : Record, key : Nat, era : Nat]
StoredAs(w) == [columns |-> nullableString(w.record), signature |-> Sign(w.record, w.key)]

\* The table holds what was signed, in the order of writing.
LogSound ==
    /\ server \in [up : BOOLEAN, key : Nat, era : Nat]
    /\ written \in Seq(Entry) /\ auditLog \in Seq({StoredAs(w) : w \in Entry})
    /\ Len(auditLog) = Len(written)
    /\ \A i \in 1..Len(written) : auditLog[i] = StoredAs(written[i])

\* As long as no key was generated since it started, a proxy signs with the
\* private key on disk.
KeyCurrent ==
    /\ server.era <= keys /\ (server.up /\ server.era = keys => server.key = disk[ProxyName].priv)
    /\ \A i \in 1..Len(written) :
          written[i].era <= keys /\ (written[i].era = keys => written[i].key = disk[ProxyName].priv)

\* While registrations of the proxy's name did not overlap, its files follow the
\* registrations.
FilesKept == ~ overlapped => Alone(ProxyName) /\ FilesFollow(ProxyName)

AuditInv == AgentsTypeOK /\ LogSound /\ KeyCurrent /\ FilesKept

-----------------------------------------------------------------------------
(* It holds.                                                                *)

\* To the tables and files of Agents, a proxy that starts, stops and writes
\* records does nothing: the composition behaves as Agents does.
THEOREM AuditRefinesAgents == AuditSpec => Spec
<1>1. AuditInit => Init
  BY DEF AuditInit
<1>2. [AuditNext]_<<vars, auditVars>> => [Next]_vars
  BY DEF AuditNext, AgentStep, Serve, Stop, writeAuditRecord
<1> QED BY <1>1, <1>2, PTL DEF AuditSpec, Spec

\* The composed system starts with no records, no proxy and consistent files.
LEMMA AuditInitially == AuditInit => AuditInv
<1> SUFFICES ASSUME AuditInit PROVE AuditInv
  OBVIOUS
<1>0. Init
  BY DEF AuditInit
<1>1. LogSound
  BY DEF AuditInit, LogSound
<1>2. KeyCurrent
  BY <1>0 DEF AuditInit, Init, KeyCurrent
<1>3. IdleReg.name \notin Agent /\ ~ NoAgentRow.exists
  BY AgentsAssumption DEF IdleReg, NoAgentRow
<1>4. FilesKept
  BY <1>0, <1>3, AuditAssumption DEF Init, FilesKept, Alone, FilesFollow
<1> QED BY <1>0, <1>1, <1>2, <1>4, AgentsTypeInit DEF AuditInv

\* The private key on disk changes only when a key is generated.
LEMMA PrivateKeyChanges ==
    ASSUME AgentsTypeOK, [Next]_vars
    PROVE  /\ keys' \in Nat /\ keys <= keys'
           /\ keys' = keys => disk'[ProxyName].priv = disk[ProxyName].priv
<1>0. keys \in Nat /\ ProxyName \in Agent
  BY AuditAssumption DEF AgentsTypeOK
<1>1. ASSUME NEW r \in Registrar, RegMoves(r)
      PROVE  /\ keys' \in Nat /\ keys <= keys'
             /\ keys' = keys => disk'[ProxyName].priv = disk[ProxyName].priv
  <2>1. keys' = keys \/ keys' = keys + 1
    BY <1>1 DEF RegMoves
  <2>2. ASSUME keys' = keys PROVE disk'[ProxyName].priv = disk[ProxyName].priv
    BY <1>0, <1>1, <2>2 DEF RegMoves, OnlyFilesOf
  <2> QED BY <1>0, <2>1, <2>2
<1>2. ASSUME \/ \E a \in Agent : RevokeAgent(a)
             \/ UNCHANGED <<agents, disk, reg, keys, issued, buried, torn>>
      PROVE  keys' = keys /\ disk' = disk
  BY <1>2 DEF RevokeAgent
<1> QED BY <1>0, <1>1, <1>2, RegistrationMoves

\* A record is stored as it was signed.
LEMMA WriteStep ==
    ASSUME AuditInv, NEW r \in Sample, writeAuditRecord(r)
    PROVE  AuditInv'
<1> DEFINE w == [record |-> r, key |-> server.key, era |-> server.era]
           n == Len(written) + 1
<1>0. /\ server \in [up : BOOLEAN, key : Nat, era : Nat]
      /\ written \in Seq(Entry) /\ auditLog \in Seq({StoredAs(x) : x \in Entry})
      /\ Len(auditLog) = Len(written)
      /\ \A i \in 1..Len(written) : auditLog[i] = StoredAs(written[i])
      /\ r \in Record /\ keys \in Nat
  BY AuditAssumption DEF AuditInv, LogSound, AgentsTypeOK, Record
<1>1. w \in Entry /\ w.record = r /\ w.key = server.key /\ w.era = server.era
  BY <1>0 DEF Entry
<1>2. /\ written' = Append(written, w) /\ auditLog' = Append(auditLog, StoredAs(w))
      /\ UNCHANGED <<vars, server, overlapped>>
      /\ server.up
  BY <1>1 DEF writeAuditRecord, StoredAs
<1> HIDE DEF w
<1>3. Len(written) \in Nat /\ Len(written') = n
      /\ (\A i \in 1..Len(written) : written'[i] = written[i]) /\ written'[n] = w
      /\ written' \in Seq(Entry)
  BY <1>0, <1>1, <1>2
<1>4. /\ StoredAs(w) \in {StoredAs(x) : x \in Entry}
      /\ Len(auditLog') = n
      /\ (\A i \in 1..Len(written) : auditLog'[i] = auditLog[i]) /\ auditLog'[n] = StoredAs(w)
      /\ auditLog' \in Seq({StoredAs(x) : x \in Entry})
  <2>1. StoredAs(w) \in {StoredAs(x) : x \in Entry}
    BY <1>1
  <2> DEFINE T == {StoredAs(x) : x \in Entry}
             v == StoredAs(w)
  <2> HIDE DEF T, v
  <2>2. auditLog \in Seq(T) /\ v \in T /\ auditLog' = Append(auditLog, v)
    BY <1>0, <1>2, <2>1 DEF T, v
  <2>3. /\ Len(auditLog') = n /\ auditLog' \in Seq(T) /\ auditLog'[n] = v
        /\ \A i \in 1..Len(written) : auditLog'[i] = auditLog[i]
    BY <1>0, <2>2
  <2> QED BY <2>1, <2>3 DEF T, v
<1>5. \A i \in 1..n : i = n \/ i \in 1..Len(written)
  BY <1>3
<1>6. LogSound'
  <2>1. \A i \in 1..Len(written') : auditLog'[i] = StoredAs(written'[i])
    BY <1>0, <1>3, <1>4, <1>5
  <2>2. server' \in [up : BOOLEAN, key : Nat, era : Nat]
    BY <1>0, <1>2
  <2> QED BY <1>3, <1>4, <2>1, <2>2 DEF LogSound
<1>7. KeyCurrent'
  <2>1. UNCHANGED <<keys, disk, server>>
    BY <1>2 DEF vars
  <2>2. w.era <= keys /\ (w.era = keys => w.key = disk[ProxyName].priv)
    BY <1>1, <1>2 DEF AuditInv, KeyCurrent
  <2>3. \A i \in 1..n : /\ written'[i].era <= keys
                        /\ written'[i].era = keys => written'[i].key = disk[ProxyName].priv
    BY <1>3, <1>5, <2>2 DEF AuditInv, KeyCurrent
  <2> QED BY <1>3, <2>1, <2>3 DEF AuditInv, KeyCurrent
<1>8. AgentsTypeOK' /\ FilesKept'
  BY <1>2 DEF AuditInv, AgentsTypeOK, FilesKept, Alone, FilesFollow, Writing, TokenOnDisk,
         vars
<1> QED BY <1>6, <1>7, <1>8 DEF AuditInv

\* Every step of the composed system keeps it.
LEMMA AuditStep == AuditInv /\ [AuditNext]_<<vars, auditVars>> => AuditInv'
<1> SUFFICES ASSUME AuditInv, [AuditNext]_<<vars, auditVars>> PROVE AuditInv'
  OBVIOUS
<1>0. /\ server \in [up : BOOLEAN, key : Nat, era : Nat] /\ keys \in Nat
      /\ disk[ProxyName].priv \in Nat
      /\ \A i \in 1..Len(written) : written[i].era \in Nat
  <2>1. server \in [up : BOOLEAN, key : Nat, era : Nat] /\ keys \in Nat
    BY DEF AuditInv, LogSound, AgentsTypeOK
  <2>2. disk[ProxyName] \in Files
    BY AuditAssumption DEF AuditInv, AgentsTypeOK
  <2>3. disk[ProxyName].priv \in Nat
    BY <2>2 DEF Files
  <2>4. written \in Seq(Entry)
    BY DEF AuditInv, LogSound
  <2>5. \A i \in 1..Len(written) : written[i] \in Entry
    BY <2>4
  <2>6. \A i \in 1..Len(written) : written[i].era \in Nat
    BY <2>5 DEF Entry
  <2> QED BY <2>1, <2>3, <2>6
<1>f. ASSUME UNCHANGED vars, overlapped' = overlapped PROVE AgentsTypeOK' /\ FilesKept'
  BY <1>f DEF AuditInv, AgentsTypeOK, FilesKept, Alone, FilesFollow, Writing, TokenOnDisk,
         vars
<1>1. CASE AgentStep
  <2>1. /\ Next /\ UNCHANGED <<server, auditLog, written>>
        /\ overlapped' = (overlapped \/ \E q, r \in Registrar :
              q # r /\ reg'[q].name = ProxyName /\ reg'[r].name = ProxyName)
    BY <1>1 DEF AgentStep
  <2>2. AgentsTypeOK'
    BY <2>1, AgentsTypeStep DEF AuditInv
  <2>3. LogSound'
    BY <2>1 DEF AuditInv, LogSound
  <2>4. /\ keys' \in Nat /\ keys <= keys'
        /\ keys' = keys => disk'[ProxyName].priv = disk[ProxyName].priv
    BY <2>1, PrivateKeyChanges DEF AuditInv
  <2>5. KeyCurrent'
    <3>1. server'.era <= keys'
          /\ (server'.up /\ server'.era = keys' => server'.key = disk'[ProxyName].priv)
      BY <1>0, <2>1, <2>4 DEF AuditInv, KeyCurrent
    <3>2. ASSUME NEW i \in 1..Len(written)
          PROVE  /\ written[i].era <= keys'
                 /\ written[i].era = keys' => written[i].key = disk'[ProxyName].priv
      BY <1>0, <2>4 DEF AuditInv, KeyCurrent
    <3> QED BY <2>1, <3>1, <3>2 DEF KeyCurrent
  <2>6. ASSUME ~ overlapped' PROVE Alone(ProxyName)' /\ FilesFollow(ProxyName)'
    <3>1. ~ overlapped /\ Alone(ProxyName)'
      BY <2>1, <2>6 DEF Alone
    <3> QED BY <2>1, <3>1, AuditAssumption, FilesStep DEF AuditInv, FilesKept
  <2> QED BY <2>2, <2>3, <2>5, <2>6 DEF AuditInv, FilesKept
<1>2. CASE Serve \/ Stop
  <2>1. /\ UNCHANGED vars /\ UNCHANGED <<auditLog, written, overlapped>>
        /\ server' \in [up : BOOLEAN, key : Nat, era : Nat]
        /\ server'.era <= keys
        /\ server'.up /\ server'.era = keys => server'.key = disk[ProxyName].priv
    <3>1. CASE Serve
      BY <1>0, <3>1 DEF Serve
    <3>2. CASE Stop
      BY <1>0, <3>2 DEF Stop
    <3> QED BY <1>2, <3>1, <3>2
  <2>2. keys' = keys /\ disk' = disk
    BY <2>1 DEF vars
  <2> QED BY <1>f, <2>1, <2>2 DEF AuditInv, LogSound, KeyCurrent
<1>3. CASE UNCHANGED <<vars, auditVars>>
  <2>1. UNCHANGED vars /\ UNCHANGED auditVars /\ keys' = keys /\ disk' = disk
    BY <1>3 DEF vars
  <2> QED BY <1>f, <2>1 DEF AuditInv, LogSound, KeyCurrent, auditVars
<1> QED BY <1>1, <1>2, <1>3, WriteStep DEF AuditNext

\* The invariant holds.
LEMMA AuditCorrect == AuditSpec => []AuditInv
BY AuditInitially, AuditStep, PTL DEF AuditSpec

-----------------------------------------------------------------------------
(* What the commands report.                                                *)

\* A row of the table is read as the record that was signed.
LEMMA RowsAreRecords ==
    ASSUME LogSound, NEW i \in 1..Len(auditLog)
    PROVE  /\ i \in 1..Len(written) /\ written[i].record \in Record
           /\ QueryAuditLog(auditLog[i]) = written[i].record
           /\ auditLog[i].columns = nullableString(written[i].record)
           /\ auditLog[i].signature = Sign(written[i].record, written[i].key)
<1>1. i \in 1..Len(written) /\ written \in Seq(Entry) /\ auditLog[i] = StoredAs(written[i])
  BY DEF LogSound
<1>2. written[i] \in Entry
  BY <1>1
<1>3. written[i].record \in Record
  BY <1>2 DEF Entry
<1> QED BY <1>1, <1>3, StoredIsRead DEF StoredAs

\* A signature checks a record against the one it was made from.
LEMMA SignatureChecks ==
    ASSUME NEW r \in Record, NEW q \in Record, NEW k, NEW key
    PROVE  Verify(q, Sign(r, k), key) <=> k = key /\ r = q
<1>1. Verify(q, Sign(r, k), key) <=> k = key /\ canonicalJSON(r) = canonicalJSON(q)
  BY DEF Verify, Sign
<1> QED BY <1>1, CanonicalIsInjective

\* `audit verify` on the untouched export of a well-formed record.
LEMMA UntouchedIsChecked ==
    ASSUME LogSound, NEW i \in 1..Len(auditLog), WellFormed(written[i].record), NEW key
    PROVE  runVerify(writeQueryJSON(auditLog[i]), key) <=> written[i].key = key
<1> DEFINE r == written[i].record
           line == writeQueryJSON(auditLog[i])
<1>1. /\ r \in Record /\ QueryAuditLog(auditLog[i]) = r
      /\ auditLog[i].signature = Sign(r, written[i].key)
  BY RowsAreRecords
<1>2. line = [object |-> Object(r), signature |-> Sign(r, written[i].key)]
  BY <1>1 DEF writeQueryJSON
<1>3. ParseLine(line) = r
  BY <1>1, <1>2, ExportIsParsed
<1>4. line.signature = Sign(r, written[i].key)
  BY <1>2
<1> HIDE DEF line, r
<1>5. runVerify(line, key) <=> Verify(r, Sign(r, written[i].key), key)
  BY <1>3, <1>4 DEF runVerify
<1> QED BY <1>1, <1>5, SignatureChecks DEF line, r

\* A well-formed record is OK under the key that signed it, and under no other.
THEOREM UntouchedRecordsVerify == AuditSpec => []UntouchedVerifies
<1>1. AuditInv => UntouchedVerifies
  <2> SUFFICES ASSUME LogSound, NEW i \in 1..Len(auditLog), NEW key \in 1..keys,
                      WellFormed(written[i].record)
               PROVE  runVerify(writeQueryJSON(auditLog[i]), key) <=> written[i].key = key
    BY DEF AuditInv, UntouchedVerifies
  <2> QED BY UntouchedIsChecked
<1> QED BY <1>1, AuditCorrect, PTL

\* What a proxy wrote verifies under the default key when that proxy was started
\* after the last key was generated, by a registration that finished and that
\* overlapped with no other of that name.
THEOREM DefaultKeyVerifies == AuditSpec => []FreshRecordsVerify
<1>1. AuditInv => FreshRecordsVerify
  <2> SUFFICES ASSUME AuditInv, ~ overlapped, ~ torn[ProxyName], ~ Registering(ProxyName),
                      NEW i \in 1..Len(written), written[i].era = keys,
                      WellFormed(written[i].record)
               PROVE  runVerify(writeQueryJSON(auditLog[i]), defaultProxyPubKey)
    BY DEF FreshRecordsVerify
  <2>1. i \in 1..Len(auditLog) /\ LogSound
    BY DEF AuditInv, LogSound
  <2>2. written[i].key = disk[ProxyName].priv
    BY DEF AuditInv, KeyCurrent
  <2>3. disk[ProxyName].priv = disk[ProxyName].pub
    BY DEF AuditInv, FilesKept, FilesFollow, Registering
  <2> QED BY <2>1, <2>2, <2>3, UntouchedIsChecked DEF defaultProxyPubKey
<1> QED BY <1>1, AuditCorrect, PTL

\* `audit report` and `audit verify` judge every well-formed row alike, whichever
\* column was edited.
THEOREM ReportsAgree == AuditSpec => []ReportAgreesWithVerify
<1>1. AuditInv => ReportAgreesWithVerify
  <2> SUFFICES ASSUME LogSound, NEW i \in 1..Len(auditLog), NEW f \in Field, NEW v \in Text,
                      WellFormed(QueryAuditLog([auditLog[i] EXCEPT !.columns[f] = v]))
               PROVE  writeAttestationSection([auditLog[i] EXCEPT !.columns[f] = v],
                                              defaultProxyPubKey)
                        <=> runVerify(writeQueryJSON([auditLog[i] EXCEPT !.columns[f] = v]),
                                      defaultProxyPubKey)
    BY DEF AuditInv, ReportAgreesWithVerify
  <2> DEFINE row == [auditLog[i] EXCEPT !.columns[f] = v]
             r == QueryAuditLog(row)
             line == writeQueryJSON(row)
  <2>1. /\ written[i].record \in Record
        /\ auditLog[i].columns = nullableString(written[i].record)
        /\ auditLog[i] = StoredAs(written[i])
    BY RowsAreRecords DEF LogSound
  <2>2. row.columns = [auditLog[i].columns EXCEPT ![f] = v]
    BY <2>1 DEF StoredAs
  <2>3. auditLog[i].columns \in [Field -> Text \cup {"NULL"}]
    BY <2>1 DEF nullableString, Record
  <2>4. row.columns \in [Field -> Text \cup {"NULL"}]
    BY <2>2, <2>3
  <2> HIDE DEF row
  <2>5. r \in Record
    BY <2>4 DEF QueryAuditLog, Record, Text
  <2>6. line = [object |-> Object(r), signature |-> row.signature]
    BY DEF writeQueryJSON
  <2>7. WellFormed(r)
    BY DEF row
  <2> HIDE DEF r
  <2>8. ParseLine(line) = r
    BY <2>5, <2>6, <2>7, ExportIsParsed
  <2>9. line.signature = row.signature
    BY <2>6
  <2> HIDE DEF line
  <2>10. writeAttestationSection(row, defaultProxyPubKey)
           <=> runVerify(line, defaultProxyPubKey)
    BY <2>8, <2>9 DEF writeAttestationSection, runVerify, r
  <2> QED BY <2>10 DEF line, row
<1> QED BY <1>1, AuditCorrect, PTL

\* A parsed line that comes from an export, edited or not, is a record.
LEMMA LinesParseToRecords ==
    ASSUME NEW obj, NEW sig, \A f \in DOMAIN obj : obj[f] \in JSONText
    PROVE  ParseLine([object |-> obj, signature |-> sig]) \in Record
<1> DEFINE line == [object |-> obj, signature |-> sig]
<1>1. line.object = obj
  OBVIOUS
<1> HIDE DEF line
<1>2. ASSUME NEW f \in Field
      PROVE  (IF f \in DOMAIN line.object THEN Unmarshal(line.object[f]) ELSE "") \in Text
  <2>1. CASE f \in DOMAIN obj
    <3>1. PICK x \in Text : obj[f] = Marshal(x)
      BY <2>1 DEF JSONText
    <3> QED BY <1>1, <2>1, <3>1, MarshalFaithful
  <2>2. CASE f \notin DOMAIN obj
    BY <1>1, <2>2 DEF Text
  <2> QED BY <2>1, <2>2
<1> QED BY <1>2 DEF ParseLine, Record, line

\* README.md, "A tampered record is detectable": a line reported OK, as exported
\* or with a field, a presence or a signature changed, is a record that a proxy
\* wrote and signed with that key.
THEOREM TamperingDetected == AuditSpec => []OKMeansAsWritten
<1>1. AuditInv => OKMeansAsWritten
  <2> SUFFICES ASSUME LogSound, NEW l \in Lines, NEW line \in Alterations(l),
                      runVerify(line, defaultProxyPubKey)
               PROVE  \E j \in 1..Len(written) :
                         /\ written[j].key = defaultProxyPubKey
                         /\ written[j].record = ParseLine(line)
    BY DEF AuditInv, OKMeansAsWritten
  <2>1. ASSUME NEW m \in Lines
        PROVE  \E j \in 1..Len(written) :
                  /\ written[j].record \in Record
                  /\ m = [object |-> Object(written[j].record),
                          signature |-> Sign(written[j].record, written[j].key)]
    <3>1. PICK j \in 1..Len(auditLog) : m = writeQueryJSON(auditLog[j])
      BY <2>1 DEF Lines
    <3> QED BY <3>1, RowsAreRecords DEF writeQueryJSON
  <2>2. \E obj, sig : /\ line = [object |-> obj, signature |-> sig]
                      /\ \A f \in DOMAIN obj : obj[f] \in JSONText
                      /\ sig = {} \/ \E m \in Lines : sig = m.signature
    <3>1. PICK i \in 1..Len(written) :
             /\ written[i].record \in Record
             /\ l = [object |-> Object(written[i].record),
                     signature |-> Sign(written[i].record, written[i].key)]
      BY <2>1
    <3> DEFINE o == Object(written[i].record)
               s == Sign(written[i].record, written[i].key)
    <3>2. \A g \in DOMAIN o : o[g] \in JSONText
      BY <3>1 DEF Object, Record, JSONText
    <3> HIDE DEF o, s
    <3>3. l = [object |-> o, signature |-> s] /\ l.object = o /\ l.signature = s
      BY <3>1 DEF o, s
    <3>4. ASSUME NEW f \in Field, NEW v \in JSONText, line = SetField(l, f, v)
          PROVE  \E obj, sig : /\ line = [object |-> obj, signature |-> sig]
                               /\ \A g \in DOMAIN obj : obj[g] \in JSONText
                               /\ sig = {} \/ \E m \in Lines : sig = m.signature
      <4> DEFINE obj == [g \in DOMAIN o \cup {f} |-> IF g = f THEN v ELSE o[g]]
      <4>1. \A g \in DOMAIN obj : obj[g] \in JSONText
        BY <3>2, <3>4
      <4> HIDE DEF obj
      <4>2. line = [object |-> obj, signature |-> s]
        BY <3>3, <3>4 DEF obj, SetField
      <4> QED BY <3>3, <4>1, <4>2
    <3>5. ASSUME NEW sig \in Signatures, line = SetSignature(l, sig)
          PROVE  \E obj, t : /\ line = [object |-> obj, signature |-> t]
                             /\ \A g \in DOMAIN obj : obj[g] \in JSONText
                             /\ t = {} \/ \E m \in Lines : t = m.signature
      <4>1. line = [object |-> o, signature |-> sig]
        BY <3>3, <3>5 DEF SetSignature
      <4> QED BY <3>2, <4>1 DEF Signatures
    <3>6. \/ \E f \in Field, v \in JSONText : line = SetField(l, f, v)
          \/ \E sig \in Signatures : line = SetSignature(l, sig)
      BY DEF Alterations
    <3> QED BY <3>4, <3>5, <3>6
  <2>3. PICK obj, sig : /\ line = [object |-> obj, signature |-> sig]
                        /\ \A f \in DOMAIN obj : obj[f] \in JSONText
                        /\ sig = {} \/ \E m \in Lines : sig = m.signature
    BY <2>2
  <2>4. ParseLine(line) \in Record /\ line.signature = sig
    BY <2>3, LinesParseToRecords
  <2>5. Verify(ParseLine(line), sig, defaultProxyPubKey)
    BY <2>4 DEF runVerify
  <2>6. sig # {}
    BY <2>5 DEF Verify
  <2>7. PICK m \in Lines : sig = m.signature
    BY <2>3, <2>6
  <2>8. PICK j \in 1..Len(written) :
           /\ written[j].record \in Record
           /\ m = [object |-> Object(written[j].record),
                   signature |-> Sign(written[j].record, written[j].key)]
    BY <2>1
  <2>9. sig = Sign(written[j].record, written[j].key)
    BY <2>7, <2>8
  <2> QED BY <2>4, <2>5, <2>8, <2>9, SignatureChecks
<1> QED BY <1>1, AuditCorrect, PTL
==============================================================================
