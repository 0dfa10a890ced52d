\* The log ends at MaxSeq, so a behaviour may stop there.
CONSTANTS
  MaxSeq = 3
  SegmentFrames = 1
  QuotaFrames = 2
  DamageKinds = {"payload", "header"}
  MaxFaults <- CrashDamageRemoval
  MaximumRecords = 2
  Invalid = {2}
SPECIFICATION Spec
INVARIANTS NoSilentSkip IInv
CHECK_DEADLOCK FALSE
