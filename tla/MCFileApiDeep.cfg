\* Four levels of names, one file content, one copy per behaviour.
SPECIFICATION DeepSpec
CONSTANTS
  Name = {"a", "b"}
  MaxDepth = 4
  Content = {c1}
  Dir = Dir
  NoEntry = NoEntry
  NoPath = NoPath
  RootDir <- MCRootDir
  Target <- DeepTarget
INVARIANTS
  CopyIsComplete
  CopyMerges
PROPERTIES
  CopyTerminates
