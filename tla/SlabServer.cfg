SPECIFICATION FairSpec
CONSTANTS
  Talkers = {c1}
  Clients = {c1, c2, c3}
  Capacity = 2
  MaxSent = 2
  Nobody = Nobody
INVARIANTS
  IInv
  TokensMatch
  NoLostWakeup
PROPERTIES
  QueuedIsAccepted
  InputIsRead
CHECK_DEADLOCK FALSE
