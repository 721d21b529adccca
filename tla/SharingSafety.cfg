\* Two processes with sessions in the same two checkouts.
SPECIFICATION Spec
CONSTANTS
  p1 = p1  p2 = p2  c1 = c1  c2 = c2  m1 = m1  m2 = m2
  NULL = NULL
  Procs <- TwoProcs
  Mems <- TwoMems
  Secrets <- NoSecrets
  Checkouts <- TwoCheckouts
  ServedBy <- Both
  MaxAsked = 1
SYMMETRY Symmetry
INVARIANTS PublishedWasApproved ForgottenStaysOut
PROPERTIES PublicationSpec
