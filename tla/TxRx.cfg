\* The smallest divider TxRxAssumption allows, where the receiver has the
\* fewest clocks to spare, with three data bits; the counters are one value
\* wider than a bit, so that reaching CLKS_PER_BIT would be seen.
CONSTANTS
  CLKS_PER_BIT = 4
  LAST_BIT = 2
  COUNT_SIZE = 5
  None = None
SPECIFICATION Spec
INVARIANT DoneMeansReceived
PROPERTY ImplementsRxLink
