CONSTANTS
  MaxTrouble = 1
  MaxUpgrades = 1
  MaxChanges = 1
  Moved = {"sunshine", "heroic"}
SPECIFICATION Spec
INVARIANTS
  CurrentIsWhole
PROPERTIES
  OnlyTroubleFailsABuild
  ClosedSteamIsPutBack
