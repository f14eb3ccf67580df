SPECIFICATION FairSpec
CONSTANTS
  VectorSize = 6
  MaxRows = 13
  BatchSizes = {1, 3, 6}
  Limits = {0, 6, 12}
  Patterns <- MCPatterns
CHECK_DEADLOCK FALSE
INVARIANTS
  TypeOK
  BoundToRows
PROPERTIES
  ImplementsTransfer
  Completes
