CONSTANTS
  MISSION_COUNT = 2
  SlotFinal = 1
  SlotTier <- MCNoTier
  Items <- MCUnlock0
  SkullLocations <- MCSkulls
  ChapterIndices <- MCChapterIndices
  ChapterLocation <- MCChapterLocation
  PriorChecked <- MCMission0
  Loads <- MCUnread
  PipeCapacity = 2
  MaxEvents = 2
  MaxPending = 3
  MaxBreaks = 1
  MaxTurmoil = 2
SPECIFICATION FairSpec
PROPERTIES
  ItemsArrive
  CompletionsArrive
  CheckedMutexReleased
  EarnedReachesUnbroken
  GoalReachesServer
\* The player stops playing, the server granting: the session may stop.
CHECK_DEADLOCK FALSE
