--------------------------- MODULE MCMemoryLayers ---------------------------
(***************************************************************************)
(* Instances of MemoryLayers for TLC: two memories overflow the budget.    *)
(***************************************************************************)
EXTENDS MemoryLayers, FiniteSets, TLC

CONSTANTS p1, p2, m1, m2, a, b

TwoProcs == {p1, p2}
OneProc == {p1}
OneMem == {m1}
TwoMems == {m1, m2}
OneText == {a}
TwoTexts == {a, b}

AtLeastOne(S) == S # {}
MoreThanOne(S) == Cardinality(S) > 1

Symmetry == Permutations(TwoProcs) \cup Permutations(TwoMems) \cup Permutations(TwoTexts)
=============================================================================
