CONSTANTS
  Goroutines = {g1, g2}
  Nobody = Nobody
  MaxCreates = 2
  MaxRuntimes = 3
SPECIFICATION Spec
INVARIANTS
  NoOverlap
  NobodyReadsUntold
PROPERTIES
  TakesTurns
  SeatComesFree
