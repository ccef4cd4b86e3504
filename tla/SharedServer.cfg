SPECIFICATION Spec
CONSTANTS
  Workers = {w1, w2, w3}
  NSlots = 2
  Kinds = {readable}
  Owned = Owned
SYMMETRY WorkerSymmetry
INVARIANTS
  IInv
  SingleOwner
  SlotsAccountedFor
PROPERTIES
  IsStack
  OnlyLateEventsKill
CHECK_DEADLOCK FALSE
