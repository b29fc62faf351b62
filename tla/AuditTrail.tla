----------------------------- MODULE AuditTrail -----------------------------
(***************************************************************************)
(* The life of an audit record: signed by the proxy, stored in audit_log,  *)
(* exported as JSON lines and checked by `audit verify`, or read from the  *)
(* table and checked by `audit report`.  The proxy's key pair is made by   *)
(* `agent register proxy`, a registration like any other (Agents): it can  *)
(* be repeated, overlap with another and die half way, while the proxy     *)
(* goes on with the key it loaded when it started.                         *)
(*                                                                         *)
(* Data.  A record has two fields that are always present (`decision`      *)
(* stands for all that the proxy itself fills in, `session` is a request   *)
(* header) and two that may be empty (`reason`, from the proxy, as is the  *)
(* delegation chain it stands for too, and `trace`, a header).  Header bytes need not be UTF-8, so conversions to  *)
(* JSON and back are kept: a text is "", "text", "other", "bytes" (not     *)
(* UTF-8) or "mark" (the replacement character U+FFFD).  Signatures cannot *)
(* be forged: one is the key and the payload it was made from.             *)
(***************************************************************************)
EXTENDS Agents, Sequences

CONSTANTS
    ProxyName,      \* the agent name `proxy`
    Sample,         \* records a proxy may write
    MaxRecords      \* bound: records written

Required == {"decision", "session"}
Optional == {"reason", "trace"}
Field    == Required \cup Optional
Text     == {"", "text", "other", "bytes", "mark"}

ASSUME AuditAssumption ==
    /\ ProxyName \in Agent
    /\ Sample \subseteq [Field -> Text]
    /\ MaxRecords \in Nat

VARIABLES
    server,         \* the running proxy: its signing key (0: none)
    auditLog,       \* audit_log table
    written,        \* history: the records as they were signed
    overlapped      \* history: two registrations of ProxyName ran at once

auditVars == <<server, auditLog, written, overlapped>>

-----------------------------------------------------------------------------
(* Conversions.                                                            *)

\* encoding/json: a byte that is not UTF-8 is written as the escape \ufffd,
\* the character U+FFFD as itself; both are read as U+FFFD.
Marshal(v)   == IF v = "bytes"  THEN "escape" ELSE v
Unmarshal(v) == IF v = "escape" THEN "mark"   ELSE v

\* A JSON object, without the optional fields that are empty.
Object(r) == [f \in {g \in Field : g \in Required \/ r[g] # ""} |-> Marshal(r[f])]

\* Mutant: the trace ID is not signed.
canonicalJSONWithoutTrace(r) == Object([r EXCEPT !.trace = ""])

canonicalJSON(r) == Object(r)

Sign(r, key) == {[key |-> key, payload |-> canonicalJSON(r)]}

Verify(r, signature, key) ==
    \E s \in signature : s.key = key /\ s.payload = canonicalJSON(r)

\* AppendAuditRecord: empty optional fields are stored as NULL.
nullableString(r) ==
    [f \in Field |-> IF f \in Optional /\ r[f] = "" THEN "NULL" ELSE r[f]]

\* Mutant: NULL is read as a text.
QueryAuditLogRaw(row) == row.columns

\* QueryAuditLog: NULL is read as empty.
QueryAuditLog(row) ==
    [f \in Field |-> IF row.columns[f] = "NULL" THEN "" ELSE row.columns[f]]

\* One line of `audit query --format json` and of `audit export`.
writeQueryJSON(row) ==
    [object |-> Object(QueryAuditLog(row)), signature |-> row.signature]

\* json.Unmarshal into an AuditRecord: a missing field is empty.
ParseLine(line) ==
    [f \in Field |-> IF f \in DOMAIN line.object THEN Unmarshal(line.object[f]) ELSE ""]

\* `audit verify --key` reports OK, otherwise TAMPERED.
runVerify(line, key) == Verify(ParseLine(line), line.signature, key)

\* Mutant: a signature made with the key is enough.
AttestByKey(row, key) == \E s \in row.signature : s.key = key

\* The attestation of `audit report` counts the record as verified.
writeAttestationSection(row, key) == Verify(QueryAuditLog(row), row.signature, key)

-----------------------------------------------------------------------------

AuditInit ==
    /\ Init
    /\ server     = [up |-> FALSE, key |-> 0, era |-> 0]
    /\ auditLog   = << >>
    /\ written    = << >>
    /\ overlapped = FALSE

\* serve: the signing key is read once; without one nothing is signed. `era`
\* is history: how many keys had been made by then.
Serve ==
    /\ ~ server.up
    /\ server' = [up |-> TRUE, key |-> disk[ProxyName].priv, era |-> keys]
    /\ UNCHANGED vars /\ UNCHANGED <<auditLog, written, overlapped>>

Stop ==
    /\ server.up
    /\ server' = [up |-> FALSE, key |-> 0, era |-> 0]
    /\ UNCHANGED vars /\ UNCHANGED <<auditLog, written, overlapped>>

\* writeAuditRecord: sign, then insert. (A failed insert changes nothing here.)
writeAuditRecord(r) ==
    /\ server.up /\ server.key # 0 /\ Len(auditLog) < MaxRecords
    /\ auditLog' = Append(auditLog, [columns   |-> nullableString(r),
                                     signature |-> Sign(r, server.key)])
    /\ written'  = Append(written, [record |-> r, key |-> server.key, era |-> server.era])
    /\ UNCHANGED vars /\ UNCHANGED <<server, overlapped>>

\* A step of `agent register`, or of anything else in Agents.
AgentStep ==
    /\ Next
    /\ overlapped' = (overlapped \/ \E q, r \in Registrar :
                         q # r /\ reg'[q].name = ProxyName /\ reg'[r].name = ProxyName)
    /\ UNCHANGED <<server, auditLog, written>>

AuditNext ==
    \/ AgentStep \/ Serve \/ Stop
    \/ \E r \in Sample : writeAuditRecord(r)

AuditSpec == AuditInit /\ [][AuditNext]_<<vars, auditVars>>

-----------------------------------------------------------------------------
(* Properties.                                                             *)

\* The key `audit verify` and `audit report` use by default.
defaultProxyPubKey == disk[ProxyName].pub

\* The text of every field is UTF-8.
WellFormed(r) == \A f \in Field : r[f] # "bytes"

Lines == {writeQueryJSON(auditLog[i]) : i \in 1..Len(auditLog)}

\* The ways an exported line may have been edited: a field set, added or
\* emptied, the signature removed or taken from another line.
SetField(line, f, v) ==
    [line EXCEPT !.object = [g \in DOMAIN line.object \cup {f} |->
                                IF g = f THEN v ELSE line.object[g]]]
SetSignature(line, s) == [line EXCEPT !.signature = s]
JSONText   == {Marshal(x) : x \in Text}
Signatures == {{}} \cup {l.signature : l \in Lines}

Alterations(line) == {SetField(line, f, v) : f \in Field, v \in JSONText}
                     \cup {SetSignature(line, s) : s \in Signatures}

\* README.md:476, "A tampered record is detectable": a line reported OK, as
\* exported or edited since, is field by field a record that a proxy wrote and signed with
\* the key of the check. (A line that was removed is not missed: records are
\* signed one by one.)
OKMeansAsWritten ==
    \A l \in Lines : \A line \in Alterations(l) :
        runVerify(line, defaultProxyPubKey) =>
            \E j \in 1..Len(written) :
                /\ written[j].key = defaultProxyPubKey
                /\ written[j].record = ParseLine(line)

\* The converse, through signing, NULL columns, export and parsing: a
\* well-formed record is OK under the key that signed it, kept or current, and
\* under no other.
UntouchedVerifies ==
    \A i \in 1..Len(auditLog) : \A key \in 1..keys :
        WellFormed(written[i].record) =>
            (runVerify(writeQueryJSON(auditLog[i]), key) <=> written[i].key = key)

\* The two commands agree: `audit report`, which reads the table, and `audit
\* verify`, which reads the export, judge every well-formed row alike, also
\* one with an edited column.
ReportAgreesWithVerify ==
    \A i \in 1..Len(auditLog) : \A f \in Field, v \in Text :
        LET row == [auditLog[i] EXCEPT !.columns[f] = v]
        IN  WellFormed(QueryAuditLog(row)) =>
                (writeAttestationSection(row, defaultProxyPubKey)
                    <=> runVerify(writeQueryJSON(row), defaultProxyPubKey))

\* The default key is the right one: when registrations of the proxy's name did
\* not overlap, the last one ran to its end and the proxy was started after it,
\* what that proxy wrote verifies. (A proxy started earlier signs with the key
\* that was replaced; one started after a registration that died between its
\* two key files signs with a key whose public half is nowhere.)
FreshRecordsVerify ==
    ~ overlapped /\ ~ torn[ProxyName] /\ ~ Registering(ProxyName) =>
        \A i \in 1..Len(written) :
            written[i].era = keys /\ WellFormed(written[i].record)
                => runVerify(writeQueryJSON(auditLog[i]), defaultProxyPubKey)
=============================================================================
