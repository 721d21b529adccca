\* Two processes, a version 9 store with a contradicting row among the files.
SPECIFICATION Spec
CONSTANTS
  p1 = p1  p2 = p2  m1 = m1  m2 = m2  m3 = m3
  NULL = NULL
  Procs <- TwoProcs
  Rows <- ThreeRows
  Targets <- TwoTargets
  FirstStores <- FewFiles
  Retries = 1
INVARIANTS OldSchemaKeepsWorking
