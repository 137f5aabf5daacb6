SPECIFICATION FairSpec
CONSTANTS
  Files = {code}
  BestOfN = 3
  MaxContinuations = 2
  Criteria = 2
  MaxGhosts = 1
INVARIANTS
  TypeOK
  ContinuationsEarned
  GapsDisclosed
  GateSawShipped
PROPERTIES
  Implements
  Terminates
