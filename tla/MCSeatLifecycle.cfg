CONSTANTS
  Requests = {"start", "stop", "build", "update", "pointer"}
  MaxRequests = 2
  MaxOutside = 1
  MaxEvents = 1
SPECIFICATION Spec
INVARIANTS
  NoBrokerIntoShutdown
PROPERTIES
  KeepsTheTurns
  DownIsNoticed
  UpIsAdopted
