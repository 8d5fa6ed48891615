SPECIFICATION FairReconcileSpec
CONSTANTS
  None = None
  Requests = {r1, r2}
  Targets = {v4}
  Unparsable = {}
  Workers = {w1}
  TopLevel = 1
  BatchLimit = 1
  Faults = FALSE
  Restarts = TRUE
INVARIANTS
  ReconcileTypeOK
PROPERTIES
  DriftHasCause
  LossIsReported
