SPECIFICATION Spec
CONSTANTS
  HeadSize = 3
  MaxLen = 13
INVARIANTS
  TypeOK
  ExactOrThrown
  PartsMeet
  ThrowsForAReason
PROPERTY Ends
