SPECIFICATION Spec
CONSTANTS
  First = First
  A = A
  B = B
  NoName = NoName
  Names = {First, A, B}
  SEEPROM_SIZE2 = 2
  Width <- MCWidth
  Data = {0, 1, 2, 3}
  BYTE = 2
  Need <- MCNeed
  Junk = {B}
  Requests <- MCRequests
INVARIANTS HeapSound NamesUnique
PROPERTIES ImplementsMap
CHECK_DEADLOCK FALSE
