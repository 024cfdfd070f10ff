CONSTANTS
  Wires <- W
  Pips <- P
  Switches = {"m", "i0", "i1", "p", "LUT0", "LUT1"}
  PipSrc <- From
  PipDst <- To
  PipSwitch <- Switch
  Nets = {"A", "C"}
  Source <- SourceOf
  Arcs = {"A0", "Ap", "Cc", "C1"}
  ArcNet <- NetOf
  Sink <- SinkOf
  NoWire = NoWire
  NoNet = NoNet
  NoPip = NoPip
  MaxTiming = 1
SPECIFICATION Spec
INVARIANTS NeverAborts BindingsAgree RecordsAgree RoutedOrQueued Legal
