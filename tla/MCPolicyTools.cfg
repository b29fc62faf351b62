SPECIFICATION ToolsSpec
CONSTANTS
  read = read
  send = send
  wipe = wipe
  hi = hi
  s1 = s1
  Tool = {read, send, wipe}
  Args = {hi}
  Session = {s1}
  AgentEnv = "prod"
  FilePairs <- MCFilePairs
  Pairs <- MCPairs
  TicksPerSecond = 1
  MaxTime = 0
  MaxCalls = 5
  MaxLosses = 0
INVARIANTS
  SilentDiffChangesNothing
  TaintDenialsExplained
CHECK_DEADLOCK FALSE
