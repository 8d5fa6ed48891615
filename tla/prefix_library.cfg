SPECIFICATION FairSpec
CONSTANTS
  None = None
  Libraries = {l1, l2}
  Unloadable = v6only
  Garbage = garbage
  Truncated = truncated
  Rules = {r1}
  Blank = blank
  Broken = broken
  EnvLibrary = l1
  Workers = {w1, w2}
  Faults = TRUE
  Restarts = TRUE
INVARIANTS
  LibraryTypeOK
  PublishedIsCurrent
  StatusIsTrue
PROPERTIES
  ServesUntilRestart
  SyncEnds
