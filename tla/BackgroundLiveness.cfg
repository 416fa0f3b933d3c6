SPECIFICATION FairSpec
CONSTANTS
  Servers = {alpha, bravo}
  MaxRequests = 2
  Others = {}
  MaxGeneration = 2
  None = None
CHECK_DEADLOCK FALSE
PROPERTIES
  EveryRequestEnds
