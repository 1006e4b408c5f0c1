\* Two clients, a descriptor for one, a root with up to two entries.
SPECIFICATION MCSpec
CONSTANTS
  Name = {"a", "b"}
  MaxDepth = 2
  Content = {c1}
  Dir = Dir
  NoEntry = NoEntry
  NoPath = NoPath
  RootDir <- MCRootDir
  Target <- MCTarget
  Client = {k1, k2}
  MaxOpen = 1
CHECK_DEADLOCK FALSE
INVARIANTS
  ServerTypeOK
  StopsOnlyIfNamed
PROPERTIES
  EveryoneIsAccepted
