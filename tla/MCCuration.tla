----------------------------- MODULE MCCuration -----------------------------
(***************************************************************************)
(* Instances of Curation for TLC: every turn belongs to one session.       *)
(***************************************************************************)
EXTENDS Curation, TLC

CONSTANTS p1, p2, s1, u1, m1, m2, m3

TwoProcs == {p1, p2}
OneSession == {s1}
OneTurn == {u1}
InOneSession == [t \in Turns |-> s1]
ThreeMems == {m1, m2, m3}
OneProcedure == {m1}

Symmetry == Permutations(TwoProcs) \cup Permutations({m2, m3})
=============================================================================
