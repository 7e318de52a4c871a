---------------------------- MODULE MCHostRecord ----------------------------
(* The instances of HostRecord that TLC checks. *)
EXTENDS HostRecord, TLC

Symmetry == Permutations(Reqs)
=============================================================================
