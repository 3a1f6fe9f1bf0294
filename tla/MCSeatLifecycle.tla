-------------------------- MODULE MCSeatLifecycle --------------------------
(* SeatLifecycle on small instances: see the .cfg files for who asks for   *)
(* what and how often.                                                     *)
EXTENDS SeatLifecycle
=============================================================================
