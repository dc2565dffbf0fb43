SPECIFICATION Spec
CONSTANTS
  None = None
  BlockNo <- MCBlockNo
  Cutoff = 6
  CutoffEpoch = 6
  Limits <- MCLimits
  NumBuckets = 3
  Tables = {"tx"}
  Methods = {"bisect"}
  Databases <- MCTiedAtRest
INVARIANTS
  EveryMismatchLocated
