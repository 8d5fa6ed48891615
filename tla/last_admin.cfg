SPECIFICATION Spec
CONSTANTS
  None = None
  Gone = Gone
  Users = {a1, a2}
  FirstUser = a1
  Roles = {"admin", "viewer"}
  Tokens = {t1, t2}
  Workers = {w1, w2}
  Faults = FALSE
  Restarts = FALSE
SYMMETRY Symmetry
INVARIANTS
  AdminRemains
CHECK_DEADLOCK FALSE
