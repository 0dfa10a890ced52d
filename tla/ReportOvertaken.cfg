\* A loss record is dropped and acknowledged past before its report is written again.
CONSTANTS
  MaxSeq = 4
  Reuses = FALSE
  QueueCapacity = 1
  MaximumPending = 1
  MaximumTracked = 4
  Budgets <- Some
  Subjects = {"a", "b", "c", "d"}
  KeyOf <- Keyed
  HashCapacity = 1
  CacheEntries = 1
  MaximumWaiters = 2
  Artifacts = {"a", "b", "c"}
  Chunks = 2
  ChunksPerCall = 1
  OutboxQuota = 2
  SegmentRecords = 1
  OutboxBudgets <- SomeOutages
INIT PipelineInit
NEXT PipelineNext
INVARIANTS Carried
CHECK_DEADLOCK FALSE
