SPECIFICATION Spec
CONSTANTS
  MaxAttempts = 3
  MaxFaults = 1
  Overlap = FALSE
  CoderMode = "agentic"
INVARIANT
  SignedOffIsBuilt
