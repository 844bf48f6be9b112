--------------------------- MODULE MCDesktopTest ---------------------------
(* Instances of DesktopTest for TLC. *)
EXTENDS DesktopTest, TLC

Symmetry == Permutations(Batches)

=============================================================================
