\* One process that may abandon any step, two memories, one write to the source set.
SPECIFICATION FairSpec
CONSTANTS
  p1 = p1  p2 = p2  m1 = m1  m2 = m2  a = a  b = b
  NULL = NULL
  Procs <- OneProc
  Mems <- TwoMems
  Texts <- OneText
  Overflows <- MoreThanOne
  MaxRevision = 1
PROPERTIES LayerComesBack
