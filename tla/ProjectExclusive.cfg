SPECIFICATION FairSpec
CONSTANTS
  MaxAttempts = 3
  MaxFaults = 3
  Overlap = FALSE
  CoderMode = "agentic"
INVARIANTS
  AncestorsCompleted
  CompletedRowsDone
  WaitIsShown
PROPERTY
  Terminates
