CONSTANTS
  Ids = {"c", "r"}
  created <- CreatedEarly
  expires <- ExpiresLater
  KeepAfterExpiry = 0
  MaximumEntries = 2
  MaxLedgerFaults <- CrashAndWrite
  Refusable = {"r"}
  Unreadable = {}
  Changing = {"r"}
  Collection = {"c"}
  Enforce = TRUE
  ClockSkew = 0
  MaximumLifetime = 9
  MaximumChanges = 1
  RateWindow = 2
  ManagerAhead = 0
  NoId = "none"
  PollsAccepted = FALSE
  RestartDelay = 0
  SlowCalls = FALSE
  MaxTime = 1
SPECIFICATION FairSpec
INVARIANTS AnswersTrue
PROPERTIES AcceptedCloses
