SPECIFICATION Spec
CONSTANTS
  p = p
  q = q
  s = s
  None = None
  Object = {p, q}
  Signal = {s}
  Slot <- MCSlot
  MaxSlots = 3
  MaxDepth = 2
  MaxCalls = 2
PROPERTY AlwaysInOrder
CHECK_DEADLOCK FALSE
