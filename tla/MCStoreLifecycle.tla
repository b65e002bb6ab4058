-------------------------- MODULE MCStoreLifecycle --------------------------
(* Three interchangeable sessions on one index directory.                  *)
EXTENDS StoreLifecycle, TLC

CONSTANTS s1, s2, s3

MCSession == {s1, s2, s3}
SessionSymmetry == Permutations(MCSession)

=============================================================================
