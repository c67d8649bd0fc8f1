SPECIFICATION FairSavesSpec
CONSTANTS
  Res = {r1, r2, r3}
  None = None
INVARIANTS
  SettledIsSaved
CHECK_DEADLOCK FALSE
