CONSTANTS
  Clients = {c1}
  Settings = {"dhcp", "static"}
  MaxChanges = 2
  MaxLane = 1
  MaxFaults = 0
  MaxCrashes = 0
SYMMETRY Alike
SPECIFICATION Spec
INVARIANT AppliedRightAway
