SPECIFICATION Spec
CONSTANTS
  Policies = {p1, p2, p3}
  Clean = {p1, p2}
  Broken = broken
  Cap = 2
  Session = {s1}
  Handler = {h1, h2}
  NoSession = none
  MaxEdits = 2
INVARIANTS
  ReloadTypeOK
  CacheHoldsMostRecentlyUsed
  DriftOnlyAfterEviction
  LintErrorsOnlyFromStart
PROPERTY ReloadConverges
