CONSTANTS
  MISSION_COUNT = 2
  SlotFinal = 0
  SlotTier = 1
  Items <- MCUnlock1
  SkullLocations <- MCNone
  ChapterIndices <- MCNone
  ChapterLocation <- MCNoChapters
  PriorChecked <- MCNone
  Loads <- MCWhole
  PipeCapacity = 3
  MaxEvents = 2
  MaxPending = 3
  MaxBreaks = 0
  MaxTurmoil = 2
SPECIFICATION Spec
INVARIANT
  FinalMissionEarned
\* The player stops playing, the server granting: the session may stop.
CHECK_DEADLOCK FALSE
