\* Two processes, a rebuild and another job; lease 2, timeout 1, clock readings up to 3 stale.
SPECIFICATION Spec
CONSTANTS
  p1 = p1  p2 = p2  j1 = j1  j2 = j2
  t1 = t1  t2 = t2  t3 = t3  t4 = t4
  NULL = NULL
  Procs <- TwoProcs
  Jobs <- TwoJobs
  Rebuilds <- RebuildJobs
  Tokens <- FourTokens
  MaxClaims = 2
  LeaseDuration = 2
  JobTimeout = 1
  RetryBackoff = 1
  DoneRetention = 1
  FailedRetention = 2
  MaxLag = 3
SYMMETRY Symmetry
INVARIANTS BudgetRespected OnlyLateWorkersAreOvertaken
PROPERTIES LateWorkerWritesNothing LeaseRespected LedgerSpec
