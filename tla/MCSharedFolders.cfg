CONSTANTS
  Order <- TwoSeats
  Pooled = "pool"
  Prefixes = {x, y}
  MaxVersion = 3
  MaxPlays = 2
  MaxMoves = 1
  MaxFaults = 2
  MaxCrashes = 1
SPECIFICATION Spec
SYMMETRY AnyPrefix
CONSTRAINT TwoMishaps
INVARIANT SavesStayPut
PROPERTY NoFailureLosesSaves
