SPECIFICATION Spec
CONSTANTS
  None = None
  Everywhere = Everywhere
  s1 = s1
  s2 = s2
  g1 = g1
  g2 = g2
  h1 = h1
  p1 = p1
  p2 = p2
  sel = sel
  Bans = {s1, s2}
  MaxSubmitted = 2
  Hosts = {h1}
  TargetOf <- TwoScoped
  ScopeOf <- OneSelector
  Selectors = {sel}
  Prefixes = {p1, p2}
  PerRuleMax = 2
  HighWater <- Mark2
  Capacity <- Entries3
  Workers = {w1, w2}
  TopLevel = 1
  BatchLimit = 1
  Faults = FALSE
  Restarts = FALSE
  Reloads = TRUE
  Edits = FALSE
INVARIANTS
  WithinHighWater
