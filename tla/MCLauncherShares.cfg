CONSTANTS
  Order <- HostAndSeat
  Host = "host"
  Launcher = "Heroic"
  MaxChanges = 2
  MaxDeletes = 1
  MaxFaults = 1
  MaxCrashes = 1
SPECIFICATION ShareSpec
PROPERTIES
  EntryArrives
  EntryGoes
  RemovedStaysRemoved
