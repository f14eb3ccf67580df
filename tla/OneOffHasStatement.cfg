SPECIFICATION Spec
CONSTANTS
  Addrs = {c1, c2}
  Actors = {k1, s1}
  Calls = {k1}
  Stmts = {s1}
  None = None
  MaxGen = 2
INVARIANT OneOffHasStatement
SYMMETRY Symmetry
CHECK_DEADLOCK FALSE
