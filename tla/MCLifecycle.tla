---------------------------- MODULE MCLifecycle ----------------------------
(* An instance of Lifecycle for TLC. *)
EXTENDS Lifecycle

CONSTANTS s1, s2, s3
ThreeStores == {s1, s2, s3}
OneDamaged == {s1}
=============================================================================
