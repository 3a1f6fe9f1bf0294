---------------------------- MODULE MCSeatRecords ----------------------------
(* Small instances of SeatRecords: one or two requests at once, two settings *)
(* to choose from and two operations in the lane.                            *)
EXTENDS SeatRecords, TLC
Alike == Permutations(Clients)

\* Nobody asks for anything while the seat is being built.
NobodyAsksDuringABuild == Building => \A c \in Clients : client[c].at = "idle"
=============================================================================
