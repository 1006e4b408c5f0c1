\* Three levels of names below the host's top, two file contents.
SPECIFICATION MCSpec
CONSTANTS
  Name = {"a", "b"}
  MaxDepth = 3
  Content = {c1, c2}
  Dir = Dir
  NoEntry = NoEntry
  NoPath = NoPath
  RootDir <- MCRootDir
  Target <- MCTarget
INVARIANTS
  FailureKeepsSource
