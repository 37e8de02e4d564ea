SPECIFICATION FairSpec
CONSTANTS
  Tickers = {"AAPL"}
  Symbols <- OneSymbol
  CopySymbol <- Unchanged
  Disks <- OneCleanDisk
  Prices = {1, 5, 6}
  WindowSize = 3
  MaxLines = 3
  MaxTime = 3
  Decide <- MaRsi
  ProgressEvery = 2
  ProgressWrap = 4
  CallbackMayThrow = FALSE
  MaxPositions = 20
  LossLimitBps = 200
  InitialCapital = 100
  SlippageBps = 0
  CommissionBps = 0
  CommissionFlat = 0
PROPERTIES
  RunCompletes
