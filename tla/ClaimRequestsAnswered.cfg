SPECIFICATION FairSpec
CONSTANTS
  Runs = {r1,r2}
  Processes = {p1}
  Clients = {}
  MaxWorkers = 4
  MaxCallbacks = 1
  Fates = {"loops"}
  RedisMayFail = FALSE
  MayRestart = FALSE
CHECK_DEADLOCK FALSE
PROPERTY
  RequestsAnswered
