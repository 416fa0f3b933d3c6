SPECIFICATION CallsSpec
CONSTANTS
  Servers = {alpha, bravo}
  MaxRequests = 5
  None = None
CHECK_DEADLOCK FALSE
INVARIANTS
  EveryRequestIsAccountedFor
PROPERTIES
  FinishedStaysFinished
