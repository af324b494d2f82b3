SPECIFICATION Spec
CONSTANTS
  Maps <- MCMaps
  NoMap <- MCNoMap
  Class <- MCClass
  Child <- MCChild
  Made <- MCMade
  Flavor <- MCFlavor
  Table <- MCTable
  MaxTaps = 4
INVARIANTS NeverAsserts DeferrersWait RestIsClean
CHECK_DEADLOCK FALSE
