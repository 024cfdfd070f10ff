\* 9600 baud at 25 MHz: 2604 clocks a bit, more than 8 bits of counter hold.
CONSTANTS
  CLKS_PER_BIT = 2604
  LAST_BIT = 7
  COUNT_SIZE = 256
SPECIFICATION LineSpec
PROPERTY ReturnsToIdle
