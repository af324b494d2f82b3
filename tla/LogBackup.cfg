SPECIFICATION LogSpec
CONSTANTS
  SIZE = 7
  MaxLine = 3
  Packet = 1
  Block = 2
  MaxLogged = 17
  MaxTorn = 1
INVARIANTS LogTypeOK ReadsEndOfLog UploadsInOrder
CHECK_DEADLOCK FALSE
