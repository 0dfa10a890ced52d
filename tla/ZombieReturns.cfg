\* An exited process that its parent has not reaped is discovered again.
CONSTANTS
  Bundles <- SomeBundles
  Keys = {"A", "B"}
  CheckSeconds = 2
  SameTick = FALSE
  Processes = {"p"}
  MaxNow = 4
  EditBudgets <- SomePolicyEdits
  Pids = {1, 2}
  Containers = {"c"}
  StartTicks = TRUE
  ExitGrace = 1
  MaximumEntities = 2
  MaximumContainers = 1
  MaximumProcesses = 2
  MaxTicks = 3
  MaxRecords = 2
  HostBudgets <- ReadableHosts
  HostFaults <- SomeFaults
  Paths = {"d", "f"}
  Below <- Tree
  Descriptions = {1, 2}
  MaximumDirty = 1
  FimBudgets <- SomeFim
  Builds = {1, 2}
  Quiet = 2
  MaxClock = 3
  HostEdits <- SomeEdits
  LastPid = 4
  Target <- SomeTarget
  Shielded <- SomeShielded
  TreeHosts <- SomeTreeHosts
  TreeLimit = 3
  MaximumRounds = 3
  TreeBudgets <- SomeTreeBudgets
SPECIFICATION LocalSpec
INVARIANTS EndedOnce
CHECK_DEADLOCK FALSE
