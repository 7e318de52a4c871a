--------------------------- MODULE MCGamepadSlots ---------------------------
(* The instances of GamepadSlots that TLC checks. *)
EXTENDS GamepadSlots, TLC

CONSTANTS primary, phone

Both == {primary, phone}
=============================================================================
