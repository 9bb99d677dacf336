SPECIFICATION FairSpec
CONSTANTS
  HaloHooks <- MCHaloHooks
  Bases <- MCBases
  Engines <- MCEngines
  Reuse = {}
  MaxRetries = 2
  MaxLoads = 2
  MaxEngines = 2
CHECK_DEADLOCK FALSE
INVARIANTS TypeOK PatchesOwned LeavesNoHook FlagMeansHooked
PROPERTIES HooksFollow LobbyNoticed
