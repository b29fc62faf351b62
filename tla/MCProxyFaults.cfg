SPECIFICATION FairSpec
CONSTANTS
  read = read
  send = send
  wipe = wipe
  lo = lo
  hi = hi
  odd = odd
  Tool = {read, send}
  Args = {lo, hi}
  Handler = {h1, h2}
  Session = {s1}
  Pol <- ShadowPolicy
  AgentEnv = "prod"
  HasKey = TRUE
  AuditStrict = TRUE
  Faults = {"get", "create", "read", "append", "audit", "taint", "count", "escalate", "crash"}
  MaxEvents = 3
  MaxClock = 0
INVARIANTS
  TypeOK
  ForwardedIsRecorded
  AuditAgreesWithEvents
  ApprovalPrecedesAllow
  ShownResolutionIsOwn
PROPERTIES
  TerminationIsFinal
  KeepsLedger
  ResolutionIsFinal
  TerminatedSessionFallsSilent
