SPECIFICATION FairSpec
CONSTANTS
  MaxId = 3
  Scenarios = {{}, {"deadline"}, {"failure", "death", "cleanup"}}
CHECK_DEADLOCK FALSE
INVARIANTS
  ReleasedMeansGone
  ErrorMeansReaped
  QuietBetweenCommands
  ShutdownIsLast
  HealthyCloseIsClean
PROPERTIES
  NothingHangs
