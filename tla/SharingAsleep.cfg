\* One process: decay runs while share awaits the person.
SPECIFICATION Spec
CONSTANTS
  p1 = p1  p2 = p2  c1 = c1  c2 = c2  m1 = m1  m2 = m2
  NULL = NULL
  Procs <- OneProc
  Mems <- TwoMems
  Secrets <- NoSecrets
  Checkouts <- OneCheckout
  ServedBy <- Both
  MaxAsked = 1
INVARIANTS SharedMeansPublished
