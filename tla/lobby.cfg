SPECIFICATION Spec
CONSTANTS
  MISSION_COUNT = 5
  OtherItems = 4
  MaxOtherAllocs = 8
  FinalMission = 3
  Completions <- MCCompletions
  Scoring <- MCScoring
  NonScoring <- MCNonScoring
  Others <- MCOthers
  Tiers = {0, 1, 2, 3}
  MaxNavs = 3
  Rounds = 3
  MaxLoads = 3
  MaxPosted = 3
INVARIANTS
  LobbyTypeOK
  MissionsFiltered
  OthersComplete
  FreeSkullsKept
  OneCollapser
  InMissionKept
  LobbyClear
PROPERTIES
  SkullsForced
  CollapserLeaves
  UndisturbedCollapse
  QuitsOwnMission
  LockedLeft
\* The player stops navigating and starting missions.
CHECK_DEADLOCK FALSE
