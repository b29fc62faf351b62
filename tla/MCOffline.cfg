SPECIFICATION Spec
SYMMETRY Sessions
CONSTANTS
  read = read
  send = send
  lo = lo
  hi = hi
  Tool = {read, send}
  Args = {lo, hi}
  s1 = s1
  s2 = s2
  Session = {s1, s2}
  AgentEnv = "prod"
  Pairs <- MCPairs
  TicksPerSecond = 2
  MaxTime = 1
  MaxCalls = 3
  MaxLosses = 1
INVARIANTS
  SimulatePredicts
  ReplayPredicts
CHECK_DEADLOCK FALSE
