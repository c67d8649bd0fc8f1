SPECIFICATION MCSpec
CONSTANTS
  Proc = {p1, p2, p3}
  OldQualifier = {o1}
  None = None
INVARIANTS
  MutualExclusion
  HeldLeaseIsValid
  UnheldWasTrue
PROPERTIES
  ImplementsOwnership
CHECK_DEADLOCK FALSE
SYMMETRY Symmetry
