CONSTANTS
  Order <- HostAndSeat
  Watched <- Nobody
  Pooled = "pool"
  MaxBuild = 2
  MaxMoves = 4
  MaxFaults = 0
  MaxCrashes = 0
  Racing = FALSE
SPECIFICATION Spec
INVARIANT DeclinedCopiesAreTheirs
