SPECIFICATION Spec
CONSTANTS
  Empty <- E
  HasPrefix <- MCHasPrefix
  Requests <- BucketRequests
  Policies <- BucketPolicies
  Shards = {"s1"}
  ShardOf <- MCShardOf
  TicksPerSecond = 2
  DefaultDuration = 4
  Precision = 5
  MaxTTL = 5
  TtlRate = 2
  MaxBucketsPerShard = 2
  ClockStep = 0
  MaxTime = 16
INVARIANTS
  AdmissionBound
  BoundedWait
  ExpiryLosesNothing
