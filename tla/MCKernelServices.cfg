SPECIFICATION Spec
CONSTANTS
  Entries = 2
  NameBytes = 3
  Slots = 2
  Bits = 2
  HeapCells = 3
  Base = 10
  Layouts <- MCLayouts
  FileNames <- MCNames
  FileAddresses = {12, 52}
  Ports = {1, 2, 3}
  Handlers = {91}
  NoHandler = 90
  Sizes = {2}
  Numbers = {3}
  MaxStmts = 6
  MaxCalls = 2
INVARIANT TablesHold
INVARIANT CallsAnswered
PROPERTY IsFileMap
PROPERTY StaysInBlock
CHECK_DEADLOCK FALSE
