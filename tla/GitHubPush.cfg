SPECIFICATION Spec
CONSTANTS
  c1 = c1
  c2 = c2
  Clients = {c1, c2}
  Procs = {"api", "worker"}
  MaxInstalls = 2
  MaxOthers = 2
SYMMETRY Symmetry
INVARIANTS
  TypeOK
  DeniedOnlyIfRevoked
  PushLanded
PROPERTY DefaultUntouched
CHECK_DEADLOCK FALSE
