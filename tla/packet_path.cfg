SPECIFICATION PathSpec
CHECK_DEADLOCK FALSE
CONSTANTS
  None = None
  Unset = Unset
  Everywhere = Everywhere
  Bystander = Bystander
  XX = XX
  YY = YY
  as1 = as1
  Width = 3
  Size <- Halving
  Countries = {XX, YY}
  ASNs = {as1}
  Libraries <- TwoRanges
  RuleSets <- OneRule
  Hosts = {h1}
  Targets <- Requested
  TTLs = {0, 1}
  BootTime = 1
  MaxBans = 2
  MaxTime = 2
INVARIANTS
  PathTypeOK
  ResolveIsExact
  CoverIsMinimal
  RulesWin
  DropsOnlyBanned
  DropsUnlessShadowed
PROPERTIES
  TimeOnlyReleases
  SplitShrinks
