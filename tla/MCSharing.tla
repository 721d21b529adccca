----------------------------- MODULE MCSharing -----------------------------
(***************************************************************************)
(* Instances of Sharing for TLC.                                           *)
(***************************************************************************)
EXTENDS Sharing, TLC

CONSTANTS p1, p2, c1, c2, m1, m2

OneProc == {p1}
TwoProcs == {p1, p2}
OneCheckout == {c1}
TwoCheckouts == {c1, c2}
TwoMems == {m1, m2}
NoSecrets == {}

(* Every process has sessions in every checkout.                           *)
Both == [p \in Procs |-> Checkouts]

Symmetry == Permutations(TwoProcs) \cup Permutations(TwoMems) \cup Permutations(TwoCheckouts)
=============================================================================
