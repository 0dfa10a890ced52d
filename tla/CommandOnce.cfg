\* Time ends at MaxTime, so a restart that takes a second may never finish.
CONSTANTS
  Ids = {"k"}
  created <- CreatedEarly
  expires <- ExpiresSoon
  KeepAfterExpiry = 0
  MaximumEntries = 2
  MaxLedgerFaults <- AllFaults
  Refusable = {}
  Unreadable = {}
  Changing = {"k"}
  Collection = {}
  Enforce = TRUE
  ClockSkew = 1
  MaximumLifetime = 9
  MaximumChanges = 1
  RateWindow = 2
  ManagerAhead = 0
  NoId = "none"
  PollsAccepted = TRUE
  RestartDelay = 1
  SlowCalls = TRUE
  MaxTime = 5
SPECIFICATION Spec
INVARIANTS AtMostOnce IInv
CHECK_DEADLOCK FALSE
