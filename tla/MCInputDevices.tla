--------------------------- MODULE MCInputDevices ---------------------------
(* Small instances of InputDevices: two seats of which one tags, and the host. *)
EXTENDS InputDevices
=============================================================================
