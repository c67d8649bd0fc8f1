SPECIFICATION FairSpec
CONSTANTS
  Calls = 3
  Attempts = 3
INVARIANTS
  NothingLeftRunning
  StopStartsNothingNew
PROPERTIES
  StopIsHeard
CHECK_DEADLOCK FALSE
