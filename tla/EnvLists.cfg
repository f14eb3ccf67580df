SPECIFICATION ListSpec
CONSTANTS
  Texts = {"a", "ab"}
  Length <- MCLength
  MaxEntries = 2
  MaxChanges = 4
  VectorSize = 2
INVARIANT ListedWhole
CHECK_DEADLOCK FALSE
