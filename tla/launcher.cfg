CONSTANTS
  Platforms <- MCBoth
  MaxRuns = 3
SPECIFICATION LauncherSpec
INVARIANTS
  OriginalKept
  ProxyHasOriginal
  CleanRunRestores
  AbortedSetupUndone
  LifecycleTypeOK
  CleanupAfterGame
  AbortStopsCleanly
PROPERTIES
  StopTerminates
  SeenExitCleaned
\* The launcher is not started again.
CHECK_DEADLOCK FALSE
