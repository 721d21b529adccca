\* Two processes that migrate to 10 or 12, files of nine versions and some that are refused, three rows, two retries.
SPECIFICATION FairSpec
CONSTANTS
  p1 = p1  p2 = p2  m1 = m1  m2 = m2  m3 = m3
  NULL = NULL
  Procs <- TwoProcs
  Rows <- ThreeRows
  Targets <- TwoTargets
  FirstStores <- EveryFile
  Retries = 2
INVARIANTS StoreIsConsistent ServedStoreSound
PROPERTIES NothingLost FileSpec StuckOnlyOnContradiction EveryOpenEnds
