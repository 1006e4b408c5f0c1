\* Two requests on a connection, received in pieces of any size.
SPECIFICATION FairSpec
CONSTANTS
  Request <- MCRequest
  Datum <- MCDatum
  MaxRequests = 2
  IoChunk = 2
  SizeMod = 4
CHECK_DEADLOCK FALSE
INVARIANTS
  TypeOK
  CountExact
PROPERTIES
  ImplementsFifo
  SentIsAnswered
