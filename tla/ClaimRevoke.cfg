SPECIFICATION Spec
CONSTANTS
  read = read
  send = send
  Agent = {bot}
  None = none
  Tool = {read, send}
  MayUse = {read, send}
  Scopes <- MCScopes
  Lifetime = {1}
  Registrar = {r1, r2}
  Handler = {h1}
  MaxKeys = 2
  MaxClock = 0
INVARIANTS
  RevokedTokenStaysDead
