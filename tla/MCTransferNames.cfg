\* Two names of which any may be there at the start, one upload; no symmetry, because of TransfersEnd.
SPECIFICATION FilesSpec
CONSTANTS
  Session = {s1, s2}
  File = {f, g}
  MaxBlocks = 1
  MaxUploads = 1
  MaxInode = 2
  MaxTime = 4
  Second = 2
  FineClock = TRUE
  DiskMayFill = FALSE
CHECK_DEADLOCK FALSE
INVARIANTS
  NoLostUpdate
PROPERTIES
  UploadIntact
  TransfersEnd
