SPECIFICATION AuditSpec
CONSTANTS
  Agent = {proxy}
  ProxyName = proxy
  None = none
  Tool = {}
  MayUse = {}
  Scopes <- MCScopes
  Lifetime = {1}
  Registrar = {r1, r2}
  Handler = {}
  MaxKeys = 2
  MaxClock = 0
  Sample <- MCSample
  MaxRecords = 2
INVARIANTS
  AgentsTypeOK
  AtMostOneLiveToken
  ReportAgreesWithVerify
  FreshRecordsVerify
  OKMeansAsWritten
  UntouchedVerifies
