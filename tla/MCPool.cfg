CONSTANTS
  Order <- HostAndSeat
  Watched <- Second
  Pooled = "pool"
  MaxBuild = 2
  MaxMoves = 2
  MaxFaults = 1
  MaxCrashes = 1
  Racing = FALSE
SPECIFICATION Spec
INVARIANTS
  WithheldStaysOut
PROPERTIES
  RefusalsStick
  OnlyForward
  EverybodyGetsIt
