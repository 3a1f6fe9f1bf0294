---------------------------- MODULE MCLanBridge ----------------------------
(***************************************************************************)
(* LanBridge with two seats and one request at a time, which may list the  *)
(* seats while the run before it is still at work.                         *)
(***************************************************************************)
EXTENDS LanBridge

CONSTANTS s1, s2, q
MCSeats == {s1, s2}
MCRequests == {q}
=============================================================================
