---------------------------- MODULE MCSeatLanes ----------------------------
(* SeatLanes on a small instance: a few goroutines and one or two lives of *)
(* the seat.                                                               *)
EXTENDS SeatLanes, TLC

\* Any two goroutines could change places.
GoroutineSymmetry == Permutations(Goroutines)
=============================================================================
