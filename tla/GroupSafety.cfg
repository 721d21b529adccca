\* Sessions in checkouts of two repositories, two calls at a time, a memory, two changes by others.
SPECIFICATION Spec
CONSTANTS
  s1 = s1  s2 = s2  s3 = s3  c1 = c1  c2 = c2  here = here  clone = clone  there = there
  web = web  api = api  ops = ops  i1 = i1
  NULL = NULL  Global = Global
  Sessions <- TwoSessions
  Calls <- TwoCalls
  Checkouts <- TwoCheckouts
  Repos <- ThreeRepos
  CheckoutOf <- CheckoutOfTwo
  RepoOf <- RepoOfTwo
  Ids = {i1}
  FirstStores <- TwoStores
  FirstRows <- Rows
  Contents <- Files
  GROUP_MAX_MEMBERS = 3
  MaxChanges = 2
INVARIANTS ReadWasAllowed WritesStayHome ShownIsNeverDenied
PROPERTIES ScopeSpec
SYMMETRY CallSymmetry
