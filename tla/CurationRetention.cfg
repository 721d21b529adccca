\* An unread turn past its retention, on the instance of CurationSafety.
SPECIFICATION Spec
CONSTANTS
  p1 = p1  p2 = p2  s1 = s1  u1 = u1  m1 = m1  m2 = m2  m3 = m3
  NULL = NULL
  Procs <- TwoProcs
  Sessions <- OneSession
  Turns <- OneTurn
  SessionOf <- InOneSession
  Mems <- ThreeMems
  Procedures <- OneProcedure
  MaxCandidates = 2
SYMMETRY Symmetry
INVARIANTS QueuedTurnReadable
