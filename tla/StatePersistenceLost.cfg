SPECIFICATION SavesSpec
CONSTANTS
  Res = {r1, r2, r3}
  None = None
INVARIANTS
  RecordedIsSaved
CHECK_DEADLOCK FALSE
