----------------------------- MODULE MCJobQueue -----------------------------
(***************************************************************************)
(* Instances of JobQueue for TLC.                                          *)
(***************************************************************************)
EXTENDS JobQueue, TLC

CONSTANTS p1, p2, j1, j2, t1, t2, t3, t4

TwoProcs == {p1, p2}
OneJob == {j1}
TwoJobs == {j1, j2}
RebuildJobs == {j2}
ThreeTokens == {t1, t2, t3}
FourTokens == {t1, t2, t3, t4}

Symmetry == Permutations(TwoProcs) \cup Permutations(FourTokens)
=============================================================================
