\* Three stores, the queue of one unreadable; maintenance in every other interval or less often.
SPECIFICATION FairProcess
CONSTANTS
  s1 = s1  s2 = s2  s3 = s3
  Stores <- ThreeStores
  Damaged <- OneDamaged
  CLEANUP_INTERVAL = 1
CHECK_DEADLOCK FALSE
INVARIANTS TeardownIsSafe
PROPERTIES TeardownEnds EveryStoreIsServed
