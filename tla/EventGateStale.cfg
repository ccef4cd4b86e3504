SPECIFICATION Spec
CONSTANTS
  Workers = {w1, w2}
  NSlots = 1
  Kinds = {readable, writable}
  Owned = Owned
INVARIANTS
  EventsFindSlotInUse
CHECK_DEADLOCK FALSE
