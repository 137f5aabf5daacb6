SPECIFICATION Spec
CONSTANTS
  c1 = c1
  c2 = c2
  Clients = {c1, c2}
  Procs = {"api", "worker"}
  MaxInstalls = 2
  MaxOthers = 2
SYMMETRY Symmetry
PROPERTY DefaultNeverRewritten
CHECK_DEADLOCK FALSE
