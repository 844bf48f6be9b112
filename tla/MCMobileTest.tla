---------------------------- MODULE MCMobileTest ----------------------------
(* Instances of MobileTest for TLC. *)
EXTENDS MobileTest, TLC

Symmetry == Permutations(Batches)

=============================================================================
