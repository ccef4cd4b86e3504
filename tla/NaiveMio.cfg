SPECIFICATION FairSpec
CONSTANTS
  Clients = {c1, c2, c3}
  Askers = {c1}
  Babblers = {c2}
  Capacity = 2
  MaxSent = 3
  SendCap = 1
  Nobody = Nobody
INVARIANTS
  IInv
  EveryConnectionIsWatched
PROPERTIES
  DroppedWhenAnswered
  RequestIsAnswered
  FinishedIsDropped
CHECK_DEADLOCK FALSE
