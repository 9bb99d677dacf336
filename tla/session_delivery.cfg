CONSTANTS
  MISSION_COUNT = 2
  SlotFinal = 1
  SlotTier = 1
  Items <- MCUnlock0
  SkullLocations <- MCNone
  ChapterIndices <- MCNone
  ChapterLocation <- MCNoChapters
  PriorChecked <- MCNone
  Loads <- MCWhole
  PipeCapacity = 3
  MaxEvents = 2
  MaxPending = 3
  MaxBreaks = 1
  MaxTurmoil = 3
SPECIFICATION Spec
INVARIANTS
  TypeOK
  CompletionsAreChecked
  NoItemLost
PROPERTY
  CompletionsNeverRegress
\* The player stops playing, the server granting: the session may stop.
CHECK_DEADLOCK FALSE
