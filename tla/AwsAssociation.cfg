SPECIFICATION FairSpec
CONSTANTS
  Providers = {"aws"}
  Plans = {{"volume"}}
  MaxFaults = 1
PROPERTIES
  CleanupIsIdempotent
CHECK_DEADLOCK FALSE
