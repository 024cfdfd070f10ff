CONSTANTS
  N = 2
  Bels <- B
  Cells <- C
  Locked = {"l"}
  Compatible <- Fit
  Clusters = {"A", "B"}
  NoCluster = "none"
  Cluster <- ClusterOf
  Root <- RootOf
  Offset <- OffsetOf
  UserBel <- Placed_l
  Nets = {"n"}
  Pins <- PinsOf
  NoBel = NoBel
  NoCell = NoCell
  Moves = 1
SPECIFICATION Spec
PROPERTY ClusterIsDisplaced
