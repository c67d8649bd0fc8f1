SPECIFICATION FairSpec
CONSTANTS
  Grace = 2
  Deadline = 3
INVARIANTS
  MeasuredAlone
  ResultIsEvidence
PROPERTIES
  ImplementsOneShot
  InvocationEnds
CHECK_DEADLOCK FALSE
