SPECIFICATION StreamFairSpec
CONSTANTS
  Runs = {r1}
  Processes = {p1, p2}
  Clients = {c1}
  MaxWorkers = 4
  MaxCallbacks = 2
  Fates = {"succeeds", "fails"}
  RedisMayFail = FALSE
  MayRestart = FALSE
CHECK_DEADLOCK FALSE
PROPERTIES
  EarlyClientsSeeTheEnd
  EarlyHandlersClose
