\* A directory of up to two entries, read in any order.
SPECIFICATION Spec
CONSTANTS
  Name <- MCName
  NotUtf8 <- MCNotUtf8
  DirPath <- MCDirPath
  MaxEntries = 2
  Property = {"owner"}
  Document <- MCDocument
  Text <- MCText
CHECK_DEADLOCK FALSE
INVARIANTS
  HrefNamesEntry
  ListingExact
  SameAlone
  UrlRoundTrip
