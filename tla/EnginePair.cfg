SPECIFICATION FairSpec
CONSTANTS
  Tickers = {"AAPL", "MSFT", "BRK.PREFERRED.A-1"}
  Symbols <- ThreeSymbols
  CopySymbol <- Truncated
  Disks <- MixedDisks
  Prices = {2, 8}
  WindowSize = 3
  MaxLines = 3
  MaxTime = 3
  Decide <- Rsi1
  ProgressEvery = 2
  ProgressWrap = 4
  CallbackMayThrow = FALSE
  MaxPositions = 20
  LossLimitBps <- BelowZero
  InitialCapital = 100
  SlippageBps = 0
  CommissionBps = 0
  CommissionFlat = 0
INVARIANTS
  NoLookAhead
  QueueBounded
  EquityTimestampsOrdered
  EquityCurveFollowsReplay
  LongNamesNeverSignal
PROPERTIES
  ReplaysEveryBar
  EveryRunReturns
