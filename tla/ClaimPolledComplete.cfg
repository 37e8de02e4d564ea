SPECIFICATION Spec
CONSTANTS
  Runs = {r1}
  Processes = {p1}
  Clients = {}
  MaxWorkers = 4
  MaxCallbacks = 1
  Fates = {"succeeds"}
  RedisMayFail = FALSE
  MayRestart = FALSE
CHECK_DEADLOCK FALSE
INVARIANT
  PolledComplete
