SPECIFICATION Spec
CONSTANTS
  a1 = a1
  a2 = a2
  code = code
  Attempts = {a1, a2}
  Paths = {code}
  MaxIterations = 2
SYMMETRY Symmetry
INVARIANTS
  TypeOK
  GreenVouches
PROPERTY NothingLost
CHECK_DEADLOCK FALSE
