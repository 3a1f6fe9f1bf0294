SPECIFICATION WatchSpec
CONSTANTS
  Waiters = {w1, w2}
  MaxVisits = 2
  MaxFaults = 1
  MaxOps = 1
PROPERTIES
  EndsAfterTheGrace
  NobodyIsCutOffOnOldNews
  SizeIsPutBack
