SPECIFICATION Spec
CONSTANTS
  Empty <- E
  HasPrefix <- MCHasPrefix
  Requests <- ShardRequests
  Policies <- ShardPolicies
  Shards = {"s1"}
  ShardOf <- MCShardOf
  TicksPerSecond = 1
  DefaultDuration = 1
  Precision = 5
  MaxTTL = 1
  TtlRate = 2
  MaxBucketsPerShard = 2
  ClockStep = 0
  MaxTime = 3
INVARIANTS
  TrackedBucketsExist
  BucketFollowsPolicy
PROPERTY OnlyExpiredOrOldestLeave
