------------------------------- MODULE MCAudit -------------------------------
(* Small sets for model checking AuditTrail.                                *)
EXTENDS AuditTrail

Rec(reason, trace) ==
    [decision |-> "text", session |-> "text", reason |-> reason, trace |-> trace]

\* A denied call without a trace ID, and allowed ones with a header that is not
\* UTF-8 and one that holds U+FFFD.
MCSample == {Rec("text", ""), Rec("", "bytes"), Rec("", "mark")}

MCScopes == {{}}
=============================================================================
