SPECIFICATION FairSpec
CONSTANTS
  MaxRequests = 3
  BufCaps = {3}
  SendCap = 1
PROPERTIES
  PipelinedIsAnswered
CHECK_DEADLOCK FALSE
