SPECIFICATION ListSpec
CONSTANTS
  Nil = Nil
  NumServers = 2
  Workers = 1
  FlushMax = 2
  NumPopular = 1
  WarmPercent = 60
  Lists = {{1, 2}, {1}, {2}}
  Unreachable = {2}
  Scenarios = {{"outages", "refresh"}, {"tick"}, {"outages", "loose"}, {"catalogue"}, {"cache"}}
  MaxUpdates = 1
  MaxLoose = 1
CHECK_DEADLOCK FALSE
INVARIANTS
  ListWillBeShown
  SweepsAccount
  FlagsHaveTheirJobs
PROPERTIES
  OfflineNeedsTwoFailures
  CatalogueFollowsList
