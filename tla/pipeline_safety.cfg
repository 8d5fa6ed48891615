SPECIFICATION Spec
CONSTANTS
  None = None
  Requests = {r1, r2}
  Targets = {v4}
  Unparsable = {}
  Workers = {w1, w2}
  TopLevel = 1
  BatchLimit = 1
  Faults = TRUE
  Restarts = TRUE
SYMMETRY Symmetry
INVARIANTS
  TypeOK
  EnforcedOnlyIfApproved
  VetoedNeverDispatched
  SeverityIsEarned
PROPERTIES
  NoResurrection
  NoPutAfterAck
  ImplementsApprovalGate
