SPECIFICATION Spec
CONSTANTS
  Files = {code, test}
  BestOfN = 2
  MaxContinuations = 1
  Criteria = 1
  MaxGhosts = 0
INVARIANT
  LosersDiscarded
