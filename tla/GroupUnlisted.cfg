\* Sessions in two clones of one repository, one declaration.
SPECIFICATION Spec
CONSTANTS
  s1 = s1  s2 = s2  s3 = s3  c1 = c1  c2 = c2  here = here  clone = clone  there = there
  web = web  api = api  ops = ops  i1 = i1
  NULL = NULL  Global = Global
  Sessions <- Clones
  Calls <- TwoCalls
  Checkouts <- CloneCheckouts
  Repos <- ThreeRepos
  CheckoutOf <- CheckoutOfClones
  RepoOf <- RepoOfClones
  Ids = {i1}
  FirstStores <- TwoStores
  FirstRows <- Rows
  Contents <- OneFile
  GROUP_MAX_MEMBERS = 3
  MaxChanges = 2
INVARIANTS ReadWasListed
