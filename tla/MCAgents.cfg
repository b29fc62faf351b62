SPECIFICATION Spec
CONSTANTS
  read = read
  send = send
  Agent = {boss, bot}
  None = none
  Tool = {read, send}
  MayUse = {read, send}
  Scopes <- MCScopes
  Lifetime = {1}
  Registrar = {r1}
  Handler = {h1}
  MaxKeys = 3
  MaxClock = 1
INVARIANTS
  RevokedTokenStaysDead
  CredentialsOnDiskWork
PROPERTIES
  RevocationStopsAdmission
  NarrowingTakesEffect
