SPECIFICATION FairSpec
CONSTANTS
  Owners = {background, foreground_join, mod_repair}
  Pollers = {timer, shutdown}
  MaxGeneration = 3
  None = None
CHECK_DEADLOCK FALSE
PROPERTIES
  PoisonLiftedOnlyWhenDead
  GateRecovers
  ImplementsExclusion
