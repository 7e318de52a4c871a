------------------------- MODULE MCStreamLifecycle -------------------------
(* Small instances of StreamLifecycle for TLC. *)
EXTENDS StreamLifecycle, TLC

Symmetry == Permutations(Primaries) \cup Permutations(Inputs)
=============================================================================
