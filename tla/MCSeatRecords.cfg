CONSTANTS
  Clients = {c1, c2}
  Settings = {"dhcp", "static"}
  MaxChanges = 4
  MaxLane = 4
  MaxFaults = 1
  MaxCrashes = 1
SPECIFICATION Spec
SYMMETRY Alike
INVARIANTS
  RecordIsWhatWasSaved
  CurrentIsBuilt
  PasswordIsKept
