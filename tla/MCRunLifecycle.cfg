SPECIFICATION Spec
CONSTANTS
  Server = {a, b}
  Request = {q1}
  Res = {r1, r2}
  Kinds = {"owned", "distributed"}
  None = None
INVARIANTS
  WorkersOwnTheRun
  DestroyedMeansGone
  CloudIsRecoverable
PROPERTIES
  DestroyedIsFinal
  OutcomeIsKept
  SupervisorCleansUp
CHECK_DEADLOCK FALSE
SYMMETRY Symmetry
