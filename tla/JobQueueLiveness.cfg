\* Two processes fight over one job under the runner's fairness; no symmetry.
SPECIFICATION FairSpec
CONSTANTS
  p1 = p1  p2 = p2  j1 = j1  j2 = j2
  t1 = t1  t2 = t2  t3 = t3  t4 = t4
  NULL = NULL
  Procs <- TwoProcs
  Jobs <- OneJob
  Rebuilds = {}
  Tokens <- ThreeTokens
  MaxClaims = 2
  LeaseDuration = 1
  JobTimeout = 1
  RetryBackoff = 1
  DoneRetention = 0
  FailedRetention = 0
  MaxLag = 2
PROPERTIES EveryJobSettles
