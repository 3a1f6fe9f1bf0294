CONSTANTS
  Order <- TwoSeats
  Pooled = "pool"
  Prefixes = {"x"}
  MaxVersion = 3
  MaxPlays = 1
  MaxMoves = 1
  MaxFaults = 0
  MaxCrashes = 1
SPECIFICATION Spec
INVARIANT SavesAreStillSaves
