CONSTANTS
  CLKS_PER_BIT = 8
  LAST_BIT = 3
  COUNT_SIZE = 9
  SKEW = 3
  GAP <- EarlyStart
  None = None
SPECIFICATION Spec
INVARIANTS ReceivedIsSent StartIsSeen
PROPERTIES ImplementsByteLink EveryByteArrives
