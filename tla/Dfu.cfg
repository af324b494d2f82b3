SPECIFICATION Spec
CONSTANTS
  MaxDownloads = 3
  MaxTaps = 2
  MaxFaults = 2
INVARIANTS LuaIntact DetachFits
PROPERTY HostServed
CHECK_DEADLOCK FALSE
