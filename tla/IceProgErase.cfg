CONSTANTS
  SIZE = 8
  PAGE = 2
  BLOCK = 4
  Files <- MCFiles
  Offsets = {0, 3}
  MaxRuns = 2
  MaxFaults = 1
SPECIFICATION Spec
INVARIANT ErasedOnSuccess
CHECK_DEADLOCK FALSE
