SPECIFICATION Spec
CONSTANTS
  None = None
  Everywhere = Everywhere
  s1 = s1
  s2 = s2
  g1 = g1
  g2 = g2
  h1 = h1
  p1 = p1
  p2 = p2
  sel = sel
  Bans = {s1, g1}
  MaxSubmitted = 1
  Hosts = {h1}
  TargetOf <- BothKinds
  ScopeOf <- OneSelector
  Selectors = {sel}
  Prefixes = {p1}
  PerRuleMax = 2
  HighWater <- Mark2
  Capacity <- Entries3
  Workers = {w1, w2, w3}
  TopLevel = 1
  BatchLimit = 2
  Faults = TRUE
  Restarts = TRUE
  Reloads = TRUE
  Edits = TRUE
SYMMETRY Symmetry
INVARIANTS
  ScopedTypeOK
PROPERTIES
  ImplementsApprovalGate
