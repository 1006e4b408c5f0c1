SPECIFICATION EmptySpec
CONSTANTS
  Session = {s1, s2}
  File = {f}
  MaxBlocks = 2
  MaxUploads = 2
  MaxInode = 2
  MaxTime = 5
  Second = 2
  FineClock = TRUE
  DiskMayFill = TRUE
CHECK_DEADLOCK FALSE
SYMMETRY Symmetry
INVARIANTS
  TypeOK
  ExclusiveCreate
  NoLostUpdate
  EtagNamesBody
PROPERTIES
  UploadIntact
  EtagTellsChange
  PartIsPrefix
