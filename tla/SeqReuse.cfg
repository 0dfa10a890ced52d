\* The log ends at MaxSeq, so a behaviour may stop there.
CONSTANTS
  MaxSeq = 4
  SegmentFrames = 1
  QuotaFrames = 2
  DamageKinds = {"payload", "header"}
  MaxFaults <- CrashAndDamage
  MaximumRecords = 2
  Invalid = {2}
SPECIFICATION Spec
INVARIANTS NextAboveSent
CHECK_DEADLOCK FALSE
