\* Results of up to seven rows in chunks of three: full and partial last
\* chunks, no rows at all; three runs, so that a third sees what the second
\* did with the cursor of the first.
CONSTANTS
  VectorSize = 3
  MaxRows = 7
  MaxRuns = 3

SPECIFICATION Spec

INVARIANTS
  TypeOK
  ExecutedOnce
  FetchesOwnCursor

PROPERTIES
  ImplementsTransfer
  RefusedOnlyAfterGivenUp

\* The runs are used up.
CHECK_DEADLOCK FALSE
