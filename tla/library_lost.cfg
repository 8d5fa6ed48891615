SPECIFICATION FairSpec
CONSTANTS
  None = None
  Libraries = {l1, l2}
  Unloadable = v6only
  Garbage = garbage
  Truncated = truncated
  Rules = {r1}
  Blank = blank
  Broken = broken
  EnvLibrary = None
  Workers = {w1}
  Faults = FALSE
  Restarts = TRUE
PROPERTIES
  ParseFailureKeepsLibrary
