SPECIFICATION Spec
CONSTANTS
  MaxAttempts = 3
  MaxFaults = 2
  Overlap = TRUE
  CoderMode = "agentic"
INVARIANT
  AncestorsCompleted
