SPECIFICATION Spec
CONSTANTS
  s1 = s1
  s2 = s2
  q = q
  Seats <- MCSeats
  Requests <- MCRequests
  MaxRuns = 2
  MaxFaults = 1
  MaxClicks = 1
  MaxCuts = 1
  MaxTogether = 2
INVARIANTS
  StaysOnTheNetwork
PROPERTIES
  OnlyTroubleFailsARun
  SeatsComeBack
CHECK_DEADLOCK FALSE
