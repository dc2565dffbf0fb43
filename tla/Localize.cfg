SPECIFICATION Spec
CONSTANTS
  None = None
  BlockNo <- MCBlockNo
  Cutoff = 6
  CutoffEpoch = 6
  Limits <- MCLimits
  NumBuckets = 3
  Tables = {"block", "tx", "owner", "committee", "epoch"}
  Methods = {"bisect", "buckets"}
  Databases <- MCDatabases
INVARIANTS
  TypeOK
  RestAgrees
  DroppedAgree
  LowestFirst
  BucketsAlign
  BucketsSeeAll
  NeitherHidesTheOther
PROPERTIES
  Termination
  KeepsPromise
