SPECIFICATION FairSpec
CONSTANTS
  Std = {s1}
  Raw = {r1}
  Server = Server
  Nobody = Nobody
  MaxSent = 4
  SockCap = 2
INVARIANTS
  Conservation
  NoLostWakeup
PROPERTIES
  DataIsRead
  GoneIsNoticed
  EndOfStream
CHECK_DEADLOCK FALSE
