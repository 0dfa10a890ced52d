CONSTANTS
  Ids = {k, l, u}
  created <- CreatedEarly
  expires <- RoomReturns
  KeepAfterExpiry = 0
  MaximumEntries = 2
  MaxLedgerFaults <- TwoCrashes
  Refusable = {}
  Unreadable = {u}
  Changing = {k, l}
  Collection = {}
  Enforce = TRUE
  ClockSkew = 0
  MaximumLifetime = 9
  MaximumChanges = 1
  RateWindow = 2
  ManagerAhead = 0
  NoId = none
  PollsAccepted = FALSE
  RestartDelay = 0
  SlowCalls = FALSE
  MaxTime = 3
SPECIFICATION Spec
SYMMETRY Symmetry
INVARIANTS OneAnswer AnswersTrue RateBounded
