--------------------------- MODULE HelperPromise ---------------------------
(***************************************************************************)
(* What supervise.Process promises the seat manager: a helper that is on,  *)
(* off, or on its way down, and a child that exists only while it is not   *)
(* off.  The manager stops a broker before the container it polls goes     *)
(* down and counts on nothing of it being left when Stop returns.          *)
(***************************************************************************)
VARIABLES
  phase,   \* "off", "on", or "ending" while a Stop waits
  child    \* whether the child process exists

vars == <<phase, child>>

Init == phase = "off" /\ child = FALSE

\* Start, when nothing of an earlier run is left.
Begin == phase = "off" /\ phase' = "on" /\ UNCHANGED child

\* Stop takes the handle.
End == phase = "on" /\ phase' = "ending" /\ UNCHANGED child

\* Stop is about to return.
Gone == phase = "ending" /\ ~child /\ phase' = "off" /\ UNCHANGED child

ChildComes == phase # "off" /\ ~child /\ child' = TRUE /\ UNCHANGED phase

ChildGoes == child /\ child' = FALSE /\ UNCHANGED phase

Next == Begin \/ End \/ Gone \/ ChildComes \/ ChildGoes

\* A stop that has begun comes to its end, and the child goes before it.
Ends == phase = "ending" ~> phase = "off"

\* The promise without its last part: what a helper may ever be seen to do.
Steps == Init /\ [][Next]_vars

Spec == Steps /\ Ends
=============================================================================
