---------------------------- MODULE MCSupervise ----------------------------
(* Supervise on a small instance: two or three callers, three runs.        *)
EXTENDS Supervise, TLC

\* The callers are interchangeable; only used where no liveness is checked.
CallerSymmetry == Permutations(Callers)
=============================================================================
