SPECIFICATION FairSpec
CONSTANTS
  x = x
  y = y
  z = z
  status = status
  arg = arg
  Tool = {x, y, z, status}
  VirtualTool = {status}
  Args = {arg}
  File <- MCFiles
  BadPredicate <- MCBad
  MaxCalls = 3
  Answers <- MCAnswers
  DefaultCalls = 50
  DefaultCost = 5000
  HistoryLimit = 1000
INVARIANTS
  L013Correct
  CyclePathIsCycle
  NeverWedged
  BlamedToolsAreDead
  RefusedOnlyForCycles
  GuardsHoldInShadow
PROPERTIES
  LintTerminates
CHECK_DEADLOCK FALSE
