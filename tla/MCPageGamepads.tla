--------------------------- MODULE MCPageGamepads ---------------------------
(* The instance of PageGamepads on which TLC finds PadsAreHeard violated. *)
EXTENDS PageGamepads, TLC

OneVendor == [p \in Pads |-> "vendor"]
=============================================================================
