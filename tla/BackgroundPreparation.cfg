SPECIFICATION Spec
CONSTANTS
  Servers = {alpha, bravo}
  MaxRequests = 2
  Others = {"foreground_join", "mod_repair"}
  MaxGeneration = 3
  None = None
CHECK_DEADLOCK FALSE
INVARIANTS
  WorkerServesActive
  BlockedQueueIsWatched
