SPECIFICATION Spec
CONSTANTS
  Servers = {a, b}
  None = none
  MaxLearned = 1
  MaxFaults = 1
  MaxImports = 1
  MaxLoad = 2
SYMMETRY Symmetry
INVARIANTS DeliveredAtMostOnce LearnedIsDurable
  NothingSavedIsLost CrashesAreHarmless
CHECK_DEADLOCK FALSE
