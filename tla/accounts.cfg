SPECIFICATION Spec
CONSTANTS
  None = None
  Gone = Gone
  Users = {a1, a2}
  FirstUser = a1
  Roles = {"admin", "viewer"}
  Tokens = {t1, t2, t3}
  Workers = {w1, w2}
  Faults = TRUE
  Restarts = TRUE
SYMMETRY Symmetry
INVARIANTS
  AccountsTypeOK
  AdminRemainsSerially
  SessionsAreCurrent
PROPERTIES
  StaleRowsAreNotWrittenBack
