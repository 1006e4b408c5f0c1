\* size_t of 3 bits, unsigned long long of 4, numbers up to one beyond.
SPECIFICATION Spec
CONSTANTS
  SizeMod = 8
  WideMod = 16
  MaxNumber = 17
CHECK_DEADLOCK FALSE
INVARIANTS
  RangeInFile
  RangeExact
