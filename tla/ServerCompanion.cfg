SPECIFICATION Spec
CONSTANTS
  Servers = {a, b}
  NoServer = none
  MaxToken = 2
  MaxOutage = 2
  MaxEvents = 1
SYMMETRY Symmetry
INVARIANTS PollFlagIsRight LearnerListens AlertsAreHeardOnce
CHECK_DEADLOCK FALSE
