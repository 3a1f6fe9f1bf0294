CONSTANTS
  Callers = {c1, c2}
  MaxRuns = 3
  MaxBackoff = 2
  CanFail = TRUE
SPECIFICATION Spec
INVARIANTS
  AtMostOneChild
PROPERTIES
  StopWaitsForTheEnd
  CallsReturn
  KeepsThePromise
