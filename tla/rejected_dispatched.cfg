SPECIFICATION Spec
CONSTANTS
  None = None
  Requests = {r1}
  Targets = {v4}
  Unparsable = {}
  Workers = {w1, w2}
  TopLevel = 1
  BatchLimit = 1
  Faults = FALSE
  Restarts = FALSE
INVARIANTS
  RejectedNeverDispatched
