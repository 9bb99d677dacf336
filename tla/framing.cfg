CONSTANTS
  MISSION_COUNT = 2
  SlotFinal = 1
  SlotTier = 1
  Items <- MCUnlock0
  SkullLocations <- MCNone
  ChapterIndices <- MCNone
  ChapterLocation <- MCNoChapters
  PriorChecked <- MCNone
  Loads <- MCWhole
  PipeCapacity = 3
  MaxEvents = 0
  MaxPending = 3
  MaxBreaks = 0
  MaxTurmoil = 0
SPECIFICATION Spec
INVARIANT
  ReaderSurvives
\* The player stops playing, the server granting: the session may stop.
CHECK_DEADLOCK FALSE
