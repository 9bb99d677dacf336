CONSTANTS
  MISSION_COUNT = 2
  SlotFinal = 1
  SlotTier <- MCNoTier
  Items <- MCUnlock0
  SkullLocations <- MCNone
  ChapterIndices <- MCChapterIndices
  ChapterLocation <- MCChapterLocation
  PriorChecked <- MCNone
  Loads <- MCStray
  PipeCapacity = 2
  MaxEvents = 4
  MaxPending = 1
  MaxBreaks = 0
  MaxTurmoil = 4
SPECIFICATION Spec
INVARIANTS
  FinalMissionEarned
  GoalEarned
  CreditedWasEarned
PROPERTY
  KeepsPromise
\* The player stops playing, the server granting: the session may stop.
CHECK_DEADLOCK FALSE
