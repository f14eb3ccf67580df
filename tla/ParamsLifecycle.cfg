SPECIFICATION FairSpec
CONSTANTS
  Addrs = {v1, v2}
  Actors = {k1, s1, s2}
  Calls = {k1}
  Stmts = {s1, s2}
  Conns = {c1, c2}
  None = None
  MaxGen = 2
  NumParams = 1
  Given = {"other"}
  Reported = {"plain"}
  AsDecimal = {FALSE}
INVARIANTS
  TypeOK
  HoldersHold
  ExclusiveOwnership
PROPERTIES
  ImplementsOwnership
  VectorComesBack
CHECK_DEADLOCK FALSE
