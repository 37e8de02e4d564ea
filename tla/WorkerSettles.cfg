SPECIFICATION FairSpec
CONSTANTS
  Runs = {r1, r2}
  Processes = {p1}
  Clients = {}
  MaxWorkers = 1
  MaxCallbacks = 1
  Fates = {"succeeds", "fails"}
  RedisMayFail = FALSE
  MayRestart = TRUE
CHECK_DEADLOCK FALSE
INVARIANTS
  AnnouncedOnce
  ResultExpires
  ListingAnswers
PROPERTIES
  EveryRunAnnounced
