\* Two processes, two memories of one text each, two writes to the source set.
SPECIFICATION Spec
CONSTANTS
  p1 = p1  p2 = p2  m1 = m1  m2 = m2  a = a  b = b
  NULL = NULL
  Procs <- TwoProcs
  Mems <- TwoMems
  Texts <- OneText
  Overflows <- MoreThanOne
  MaxRevision = 2
SYMMETRY Symmetry
INVARIANTS LayerIsCurrent DoneMeansBuilt
PROPERTIES OnlySourceWritesRetire CacheSpec
