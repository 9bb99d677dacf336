SPECIFICATION FairSpec
CONSTANTS
  HaloHooks <- MCHaloHooks
  Bases <- MCBases
  Engines <- MCEngines
  Reuse = {"noticed"}
  MaxRetries = 2
  MaxLoads = 2
  MaxEngines = 2
CHECK_DEADLOCK FALSE
PROPERTIES HooksFollow
