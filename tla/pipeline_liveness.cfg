SPECIFICATION FairSpec
CONSTANTS
  None = None
  Requests = {r1, r2}
  Targets = {v4, v6}
  Unparsable = {v6}
  Workers = {w1}
  TopLevel = 1
  BatchLimit = 2
  Faults = FALSE
  Restarts = FALSE
PROPERTIES
  ApprovedEventuallyExecuted
