SPECIFICATION FairSpec
CONSTANTS
  Workers = {w1, w2, w3}
  NSlots = 4
  Overlap = FALSE
INVARIANTS
  NoSlotLost
  IInv
PROPERTIES
  IsStack
  LockFree
CHECK_DEADLOCK FALSE
