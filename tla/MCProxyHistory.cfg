SPECIFICATION Spec
CONSTANTS
  read = read
  send = send
  wipe = wipe
  lo = lo
  hi = hi
  odd = odd
  Tool = {read, send, wipe}
  Args = {lo}
  Handler = {h1, h2}
  Session = {s1}
  Pol <- GuardPolicy
  AgentEnv = "prod"
  HasKey = TRUE
  AuditStrict = TRUE
  Faults = {"taint", "crash"}
  MaxEvents = 5
  MaxClock = 0
SYMMETRY Symmetry
INVARIANTS
  NeverAfterOvershootBounded
  PrerequisitesPrecede
  ForwardedTaintPersists
