SPECIFICATION FairSpec
CONSTANTS
  MaxRequests = 3
  BufCaps = {1, 3}
  SendCap = 1
INVARIANTS
  IInv
  NoLostWakeup
PROPERTIES
  ClosesWhenDone
  AnsweredIfBufferSuffices
  FinishedIsClosed
CHECK_DEADLOCK FALSE
