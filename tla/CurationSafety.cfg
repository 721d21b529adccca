\* Two processes, one turn of one session, three memories of which one is a procedure.
SPECIFICATION Spec
CONSTANTS
  p1 = p1  p2 = p2  s1 = s1  u1 = u1  m1 = m1  m2 = m2  m3 = m3
  NULL = NULL
  Procs <- TwoProcs
  Sessions <- OneSession
  Turns <- OneTurn
  SessionOf <- InOneSession
  Mems <- ThreeMems
  Procedures <- OneProcedure
  MaxCandidates = 2
SYMMETRY Symmetry
INVARIANTS ReplacementsEnd NoCandidateStranded
PROPERTIES LifeSpec ForgottenIsFinal NothingLearnedFromForgotten
