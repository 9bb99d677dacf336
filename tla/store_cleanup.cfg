CONSTANTS
  Platforms <- MCStore
  MaxRuns = 1
SPECIFICATION Spec
INVARIANT
  CleanupKeepsOriginal
\* The launcher is not started again.
CHECK_DEADLOCK FALSE
