CONSTANTS
  DEBOUNCE_LIMIT = 3
  DEBOUNCE_SIZE = 4
  COLS = 14
  ROWS = 9
  VISIBLE_COLS = 6
  VISIBLE_ROWS = 3
  H_FRONT = 2
  H_BACK = 3
  V_FRONT = 2
  V_BACK = 2
  TOTAL_COLS = 17
  TOTAL_ROWS = 10
  ACTIVE_COLS = 8
  ACTIVE_ROWS = 4
  SQUARE = 2
  c_FRONT_PORCH_HORZ = 2
  c_BACK_PORCH_HORZ = 4
  c_FRONT_PORCH_VERT = 2
  c_BACK_PORCH_VERT = 2
SPECIFICATION BenchSpec
INVARIANTS SyncAligned ColoursAligned
PROPERTIES CountsReleases LedFollowsDigit BoardsInTime SwitchPorches OnlyHeldInPulses
