SPECIFICATION Spec
CONSTANTS
  Mods = {p}
  MaxOps = 1
  MaxSteam = 2
INVARIANTS VerifiedInventoryIsCurrent StaleIsBeingRead
PROPERTIES CleanupsAreEntitled
CHECK_DEADLOCK FALSE
