\* Two clocks of rest after each stop bit; bytes 1, 2 and 3 name the colours.
CONSTANTS
  CLKS_PER_BIT = 5
  LAST_BIT = 1
  COUNT_SIZE = 6
  SKEW = 1
  GAP = 2
  None = None
  COLS = 6
  ROWS = 5
  VISIBLE_COLS = 1
  VISIBLE_ROWS = 1
  H_FRONT = 2
  H_BACK = 2
  V_FRONT = 1
  V_BACK = 2
  CODE_1 = 1
  CODE_2 = 2
  CODE_3 = 3
SPECIFICATION TopSpec
INVARIANTS NoneDropped DigitsShowMix ScreenShowsMix
PROPERTIES EchoesInOrder EveryByteReturns FramesGoOn
