SPECIFICATION Spec
CONSTANTS
  Group <- Pair
  Size <- PairSize
  PerOrder <- PairPerOrder
  ProviderCap <- PairCap
  FlattenWhenFlat = TRUE
  BlockReversals = TRUE
  Troubles = {"connection", "offline", "barred"}
  MaxLeader = 2
  MaxMoves = 2
  MaxPending = 1
INVARIANTS TypeOK NeverOversized LandsOnNewTarget
PROPERTIES StaysOneSided TowardTarget OverrideOnlyReduces
