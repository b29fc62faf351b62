SPECIFICATION Spec
CONSTANTS
  read = read
  send = send
  wipe = wipe
  lo = lo
  hi = hi
  odd = odd
  Tool = {read, wipe}
  Args = {lo}
  Handler = {h1, h2}
  Session = {s1}
  Pol <- TaintPolicy
  AgentEnv = "prod"
  HasKey = TRUE
  AuditStrict = TRUE
  Faults = {}
  MaxEvents = 4
  MaxClock = 0
SYMMETRY Symmetry
INVARIANTS
  TaintFlagFollowsHistory
