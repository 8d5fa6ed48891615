SPECIFICATION Spec
CONSTANTS
  None = None
  Everywhere = Everywhere
  s1 = s1
  s2 = s2
  g1 = g1
  g2 = g2
  h1 = h1
  p1 = p1
  p2 = p2
  sel = sel
  Bans = {s1, g1, g2}
  MaxSubmitted = 2
  Hosts = {h1}
  TargetOf <- OneHost
  ScopeOf <- OneSelector
  Selectors = {sel}
  Prefixes = {p1, p2}
  PerRuleMax = 2
  HighWater <- Mark21
  Capacity <- Entries1
  Workers = {w1, w2}
  TopLevel = 1
  BatchLimit = 1
  Faults = FALSE
  Restarts = TRUE
  Reloads = TRUE
  Edits = FALSE
ACTION_CONSTRAINT NoCollision
SYMMETRY SymmetryGlobal
INVARIANTS
  QuotaIsExact
  WithinHighWater
  ProtectedNeverDispatched
PROPERTIES
  AckedIsComplete
