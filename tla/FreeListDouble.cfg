SPECIFICATION Spec
CONSTANTS
  Workers = {w1, w2, w3}
  NSlots = 3
  Overlap = TRUE
PROPERTIES
  OneConnectionPerSlot
CHECK_DEADLOCK FALSE
