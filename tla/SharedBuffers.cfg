SPECIFICATION Spec
CONSTANTS
  Addrs = {v1}
  Actors = {k1, s1, s2}
  Calls = {k1}
  Stmts = {s1, s2}
  Conns = {c1, c2}
  None = None
  MaxGen = 1
  NumParams = 2
  Given = {"integral", "digits"}
  Reported = {"unknown", "plain", "narrow", "wide"}
  AsDecimal = {FALSE, TRUE}
INVARIANT NoSharedBuffers
SYMMETRY Symmetry
CHECK_DEADLOCK FALSE
