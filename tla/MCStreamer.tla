----------------------------- MODULE MCStreamer -----------------------------
(* The instances of Streamer that TLC checks. *)
EXTENDS Streamer, TLC

Symmetry == Permutations(Clients)
=============================================================================
