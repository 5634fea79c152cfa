SPECIFICATION Spec
CONSTANTS
  Capacity = 4
  IndexMod = 8
  Values = {v1, v2}
  NoValue = NoValue
INVARIANTS
  NoSlotRace
  IInv
PROPERTIES
  ImplementsFifo
  OperationsComplete
CHECK_DEADLOCK TRUE
