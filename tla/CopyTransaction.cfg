SPECIFICATION FairSpec
CONSTANTS
  MaxRows = 6
  BatchSize = 2
  MaxRecords = {0, 1, 2, 3}
INVARIANTS
  TypeOK
  AllOrNothing
  RowsAccounted
PROPERTIES
  EndsClean
  TransactionBounded
  CopyEnds
