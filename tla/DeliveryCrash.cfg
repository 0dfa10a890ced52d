\* The log ends at MaxSeq, so a behaviour may stop there.
CONSTANTS
  MaxSeq = 5
  SegmentFrames = 2
  QuotaFrames = 4
  DamageKinds = {"payload", "header"}
  MaxFaults <- CrashesAndIo
  MaximumRecords = 2
  Invalid = {2}
SPECIFICATION Spec
INVARIANTS NextAboveSent DurableOnDisk DiskWithinQuota
PROPERTIES ImplementsStream
CHECK_DEADLOCK FALSE
