CONSTANTS
  CLKS_PER_BIT = 3
  LAST_BIT = 1
  COUNT_SIZE = 4
SPECIFICATION SamplingSpec
INVARIANT SampledInTheMiddle
PROPERTY ReturnsToIdle
