SPECIFICATION FairSpec
CONSTANTS
  Threads = {t1, t2}
  Keys <- MCKeys
  ShardCount = 2
  shardKeyFunc <- MCShardKeyFunc
  None = None
  CbMayPanic = TRUE
  MaxCalls = 3
INVARIANTS ListingHolds ShardIsStable
PROPERTIES Returns
CHECK_DEADLOCK FALSE
