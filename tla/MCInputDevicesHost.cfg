CONSTANTS
  Seats = {"s1", "s2"}
  Host = "host"
  Watched = {"s1"}
  Tagging = {"s1"}
  MaxDevices = 2
  MaxNodes = 2
  MaxTroubles = 0
SPECIFICATION DeviceSpec
INVARIANT HostDevicesAreLeftAlone
