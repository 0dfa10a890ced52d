CONSTANTS
  Ids = {"k"}
  created <- CreatedEarly
  expires <- ExpiresSoon
  KeepAfterExpiry = 0
  MaximumEntries = 2
  MaxLedgerFaults <- OneWrite
  Refusable = {}
  Unreadable = {}
  Changing = {"k"}
  Collection = {}
  Enforce = TRUE
  ClockSkew = 0
  MaximumLifetime = 9
  MaximumChanges = 1
  RateWindow = 2
  ManagerAhead = 0
  NoId = "none"
  PollsAccepted = FALSE
  RestartDelay = 0
  SlowCalls = FALSE
  MaxTime = 1
SPECIFICATION Spec
INVARIANTS OneAnswer
