SPECIFICATION StreamSpec
CONSTANTS
  Runs = {r1}
  Processes = {p1, p2}
  Clients = {c1}
  MaxWorkers = 1
  MaxCallbacks = 1
  Fates = {"succeeds", "fails"}
  RedisMayFail = TRUE
  MayRestart = TRUE
CHECK_DEADLOCK FALSE
INVARIANTS
  StreamTypeOK
  ResultBeforeAnnouncement
  NoSuccessAfterFailure
  FailuresLeaveNoResult
PROPERTIES
  KeepsPromises
