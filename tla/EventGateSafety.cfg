SPECIFICATION Spec
CONSTANTS
  Workers = {w1, w2, w3}
  NSlots = 1
  Kinds = {readable, writable}
  Owned = Owned
SYMMETRY GateSymmetry
INVARIANTS
  RemovedOnce
  IInv
PROPERTIES
  RemovalIsFinal
  AssertionsHold
  HandlesSerially
CHECK_DEADLOCK FALSE
