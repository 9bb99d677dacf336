CONSTANTS
  MISSION_COUNT = 2
  SlotFinal = 1
  SlotTier <- MCNoTier
  Items <- MCNone
  SkullLocations <- MCNone
  ChapterIndices <- MCNone
  ChapterLocation <- MCNoChapters
  PriorChecked <- MCMission0
  Loads <- MCWhole
  PipeCapacity = 2
  MaxEvents = 2
  MaxPending = 3
  MaxBreaks = 1
  MaxTurmoil = 3
SPECIFICATION FairSpec
PROPERTY
  EarnedReachesServer
\* The player stops playing, the server granting: the session may stop.
CHECK_DEADLOCK FALSE
