CONSTANTS
  COLS = 14
  ROWS = 9
  VISIBLE_COLS = 6
  VISIBLE_ROWS = 3
  H_FRONT = 2
  H_BACK = 3
  V_FRONT = 2
  V_BACK = 2
SPECIFICATION BoardsSpec
PROPERTY UartPorches
