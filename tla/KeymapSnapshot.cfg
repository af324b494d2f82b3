SPECIFICATION Spec
CONSTANTS
  Maps <- MCMaps
  NoMap <- MCNoMap
  Class <- MCClass
  Child <- MCChild
  Made <- MCMade
  Flavor <- MCHoldOnPress
  Table <- MCTable
  MaxTaps = 2
INVARIANT NeverAsserts
CHECK_DEADLOCK FALSE
