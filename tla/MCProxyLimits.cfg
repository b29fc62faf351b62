SPECIFICATION Spec
CONSTANTS
  read = read
  send = send
  wipe = wipe
  lo = lo
  hi = hi
  odd = odd
  Tool = {send}
  Args = {lo}
  Handler = {h1, h2}
  Session = {s1}
  Pol <- LimitsPolicy
  AgentEnv = "prod"
  HasKey = TRUE
  AuditStrict = TRUE
  Faults = {"count"}
  MaxEvents = 4
  MaxClock = 3
SYMMETRY Symmetry
INVARIANTS
  BudgetOvershootBounded
  RateOvershootBounded
