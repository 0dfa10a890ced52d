\* The log ends at MaxSeq and the other bounds stop too, so a behaviour may stop.
CONSTANTS
  MaxSeq = 4
  Reuses = FALSE
  QueueCapacity = 1
  MaximumPending = 1
  MaximumTracked = 4
  Budgets <- Some
  Subjects = {"a", "b", "c", "d"}
  KeyOf <- Keyed
  HashCapacity = 1
  CacheEntries = 1
  MaximumWaiters = 2
  Artifacts = {"a", "b", "c"}
  Chunks = 2
  ChunksPerCall = 1
  OutboxQuota = 2
  SegmentRecords = 1
  OutboxBudgets <- SomeOutages
SPECIFICATION PipelineSpec
INVARIANTS
  LossesExplained LossesExact BlindIsKnown
  OneResult DescriptorsClosed
  RetiredRetained PledgeKept
PROPERTIES LossesTold PendingArrives ArtifactsArrive
CHECK_DEADLOCK FALSE
