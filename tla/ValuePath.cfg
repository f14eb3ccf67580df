SPECIFICATION Spec
CONSTANTS
  NanoDigits = 4
  MicroDigits = 2
  UInt = 32768
  MaxInt64 = 1048575
  Years = 64
  SsDigits = 3
  LongBytes = 4
  SsLongBytes = 8
  M = 4096
  SmallWord = 32
  IntWord = 256
  SmallDigits = 1
  IntDigits = 2
  BigDigits = 3
  HugeDigits = 6
  Guid1 = 64
  Guid2 = 8
  GuidByte = 8
  GuidBytes = 4
  TinyWord = 8
  YearSeconds = 2
  Offset = 3
  Settings <- MCSettings
  Values <- MCValues
INVARIANTS
  TypeOK
  ParamArrives
  NumbersStringified
  ColumnArrives
  ElementMatches
  RefusalsExplained
CHECK_DEADLOCK FALSE
