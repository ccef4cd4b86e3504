SPECIFICATION BoundedSpec
CONSTANTS
  Workers = {w1, w2}
  NSlots = 3
  Kinds = {readable}
  Owned = Owned
  MaxNews = 4
PROPERTIES
  NewIsServed
  PostedIsHandled
  ClosedIsGivenBack
  PolledIsDispatched
CHECK_DEADLOCK FALSE
