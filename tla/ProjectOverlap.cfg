SPECIFICATION Spec
CONSTANTS
  MaxAttempts = 2
  MaxFaults = 2
  Overlap = TRUE
  CoderMode = "oneshot"
INVARIANTS
  TypeOK
  Inv
  GateHolds
  ContextComplete
PROPERTY
  Implements
