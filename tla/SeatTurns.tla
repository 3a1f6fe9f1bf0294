----------------------------- MODULE SeatTurns -----------------------------
(***************************************************************************)
(* What the lanes and the claim of one runtime promise together            *)
(* (manager.go, beginSweep's comment): readings and operations take turns. *)
(* SeatLanes implements it for every runtime of the seat's name, and       *)
(* SeatLifecycle goes by it.                                               *)
(***************************************************************************)
VARIABLES
  has,    \* whether an operation has the seat
  works,  \* whether it has begun to work
  reads   \* the readings in progress

vars == <<has, works, reads>>

Init == has = FALSE /\ works = FALSE /\ reads = {}

Claim == ~has /\ has' = TRUE /\ UNCHANGED <<works, reads>>

\* A reading begins only while no operation has the seat, and ends any time.
Enter ==
  /\ ~has
  /\ reads \subseteq reads'
  /\ \A r, q \in reads' \ reads : r = q
  /\ UNCHANGED <<has, works>>

Leave ==
  /\ \E r \in reads : reads' = reads \ {r}
  /\ UNCHANGED <<has, works>>

\* The work begins when the last reading is over.
Work ==
  /\ has /\ ~works /\ reads = {}
  /\ works' = TRUE
  /\ UNCHANGED <<has, reads>>

Done == works /\ works' = FALSE /\ UNCHANGED <<has, reads>>

GiveUp == has /\ ~works /\ has' = FALSE /\ UNCHANGED <<works, reads>>

\* The daemon goes and everybody with it.
Restart == has' = FALSE /\ works' = FALSE /\ reads' = {}

Next == Claim \/ Enter \/ Leave \/ Work \/ Done \/ GiveUp \/ Restart

Spec == Init /\ [][Next]_vars
=============================================================================
