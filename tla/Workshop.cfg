SPECIFICATION WorkshopSpec
CONSTANTS
  Mods = {p, q}
  NumLibraries = 2
  Retention = 2
  MaxClock = 1
  MaxJobs = 2
  MaxSteam = 1
  MaxFaults = 1
SYMMETRY Symmetry
CHECK_DEADLOCK FALSE
INVARIANTS DeletedMeansGone CleanupsAreRecoverable ReadyIsReady NothingIsLeftBehind
PROPERTIES OnlyUnsubscribedLoseFiles OnlyOursAreUndone
