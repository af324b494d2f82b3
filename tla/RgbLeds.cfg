SPECIFICATION Spec
CONSTANTS
  DriverCount = 2
  TopGcr = 3
  MaxGcr = 2
  CsLines = 2
  Rows = 3
  Word = 2
  Colors <- MCColors
  MaxSets = 1
INVARIANTS ColorsShown DarkWhenOff SsdFollowsGcr
PROPERTY SoftStart
