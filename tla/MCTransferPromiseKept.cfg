SPECIFICATION Spec
CONSTANTS
  Session = {s1, s2}
  File = {f}
  MaxBlocks = 2
  MaxUploads = 2
  MaxInode = 2
  MaxTime = 4
  Second = 2
  FineClock = TRUE
  DiskMayFill = FALSE
CHECK_DEADLOCK FALSE
PROPERTIES
  PromiseKept
