SPECIFICATION Spec
CONSTANTS
  Configs <- Edges
  Prices = {1, 2, 4}
  MaxBars = 7
  WindowSize = 4
  MaxPositions = 20
  LossLimitBps = 200
  InitialCapital = 100
  SlippageBps = 0
  CommissionBps = 0
  CommissionFlat = 0
CHECK_DEADLOCK FALSE
INVARIANTS
  SilentUntilReady
  SignalsAlternate
  OrdersCapped
PROPERTIES
  WindowSuffices
