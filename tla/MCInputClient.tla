--------------------------- MODULE MCInputClient ---------------------------
(* The instances of InputClient on which TLC finds FreshPeer and ReattachesOrTells violated. *)
EXTENDS InputClient, TLC
=============================================================================
