SPECIFICATION FairSpec
CONSTANTS
  Addrs = {c1, c2}
  Actors = {k1, s1, s2}
  Calls = {k1}
  Stmts = {s1, s2}
  None = None
  MaxGen = 2
INVARIANTS
  TypeOK
  HoldersHold
  ExclusiveOwnership
  OneOffClosedAfterRun
PROPERTIES
  ClosedOnlyOnRequest
  ImplementsOwnership
  ConnComesBack
CHECK_DEADLOCK FALSE
