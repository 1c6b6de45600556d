SPECIFICATION FairSpec
CONSTANTS
  Sender = {input, receiver}
  Messages <- AtLimits
  BufSize = 7
  MaxParams = 2
  MaxParamLen = 4
  Capacity = 4
  MaxSends = 3
CHECK_DEADLOCK FALSE
INVARIANTS
  Framed
  Understood
PROPERTIES
  SendReturns
