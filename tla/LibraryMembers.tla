--------------------------- MODULE LibraryMembers ---------------------------
(***************************************************************************)
(* Who takes part in the shared library (src/internal/seat/library.go      *)
(* members): the host, if it shares, and the seats.  A pass goes through   *)
(* them in one order, be it for the titles (Pool), for the folders         *)
(* (SharedFolders) or for the launchers' entries (LauncherShares).         *)
(***************************************************************************)

CONSTANTS
  Order,      \* the members in the order a pass goes through them
  MaxFaults,  \* bound: how often a call, a copy or a save fails
  MaxCrashes  \* bound: how often the daemon goes and comes back

Members == {Order[i] : i \in DOMAIN Order}
=============================================================================
